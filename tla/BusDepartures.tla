--------------------------- MODULE BusDepartures ---------------------------
(***************************************************************************)
(* The next buses of one line at one stop: the GTFS timetable merged with  *)
(* the realtime feed (services/gtfs_bus_departure_service.go,              *)
(* services/gtfs_realtime.go).  Requests share one realtime snapshot,      *)
(* fetched by one of them at a time, and fall back on it while the feed    *)
(* cannot be read.                                                         *)
(*                                                                         *)
(* Time is counted in ticks, DayLength to a day; every configured line is  *)
(* treated alike and apart, so one is modelled.  A row of the feed is      *)
(* about one bus; it names the trip as the timetable does (`named`), or by *)
(* an identifier the timetable lacks, with its day.                        *)
(***************************************************************************)
EXTENDS Integers, FiniteSets, FiniteSetsExt, SequencesExt

CONSTANTS
    TripRows, StopRows,       \* trips.txt joined to routes.txt, stop_times.txt
    Calendar, Exceptions,     \* calendar.txt, calendar_dates.txt
    Line,                     \* the configured line: route, direction, stops
    Running,                  \* what the operator runs: [trip, day, at]
    Announcements,            \* what a feed may say of each bus it covers
    Unstamped,                \* the ones a feed without a timestamp says
    Riders,                   \* requests in flight
    DayLength, Lookback, MatchWindow, TTL, MaxStale, MaxDepartures,
    FirstTick, LastTick,
    FirstFeed,                \* when the first feed was published
    MaxFeeds, MaxFetchTrouble

ASSUME BusAssumption ==
    /\ {DayLength, MaxDepartures, TTL} \subseteq Nat \ {0}
    /\ {Lookback, MatchWindow, MaxStale, FirstTick, FirstFeed, MaxFeeds, MaxFetchTrouble}
          \subseteq Nat
    /\ LastTick \in Nat /\ FirstFeed <= FirstTick /\ FirstTick <= LastTick
    /\ TTL <= MaxStale
    /\ Unstamped \subseteq Announcements

VARIABLES
    clock,        \* the time of day, shared by everyone
    timetable,    \* s.data: the parsed archive, {} until the first refresh
    feeds,        \* the feeds published so far, the last one being served
    rtCache,      \* the realtime snapshot
    fetching,     \* the fetch in flight under the singleflight key
    rider,        \* each request: its step, its `now` and its answer
    fetchTrouble

busVars == <<clock, timetable, feeds, rtCache, fetching, rider, fetchTrouble>>

\* No time and no delay: early buses have delays below zero.
None == -1000

\* The trips of the configured line and direction.
parseTrips ==
    {t \in TripRows : t.route = Line.route /\ t.direction = Line.direction}

\* Their departures from a configured stop.
parseStopTimes ==
    {[trip |-> p[1].trip, service |-> p[1].service, at |-> p[2].at] :
        p \in {q \in parseTrips \X StopRows :
                  q[1].trip = q[2].trip /\ q[2].stop \in Line.stops}}

\* A service runs on a day by its exception, if it has one, else by its week.
isServiceActive(service, day) ==
    IF \E x \in Exceptions : x.service = service /\ x.day = day
    THEN [service |-> service, day |-> day, type |-> 1] \in Exceptions
    ELSE \E c \in Calendar : /\ c.service = service
                             /\ c.start <= day /\ day <= c.end
                             /\ day % 7 \in c.weekdays

gtfsServiceTime(day, at) == day * DayLength + at

\* The order departures are shown in; sort.Slice may break ties either way.
ShownBefore(d, e) ==
    \/ d.time < e.time
    \/ d.time = e.time /\ d.live /\ ~e.live

FirstOf(rows, n) ==
    {d \in rows : Cardinality({e \in rows : ShownBefore(e, d)}) < n}

\* The trips that left a short while ago and the next ones.
findNextDepartures(now) ==
    LET runs == UNION {{[trip |-> d.trip, day |-> day,
                         time |-> gtfsServiceTime(day, d.at), live |-> FALSE] :
                            d \in {x \in timetable :
                                      isServiceActive(x.service, day)}} :
                       day \in (now \div DayLength) - 1 .. (now \div DayLength) + 7}
    IN  {d \in runs : d.time <= now /\ now - d.time <= Lookback}
        \union FirstOf({d \in runs : d.time > now}, 3 * MaxDepartures)

-----------------------------------------------------------------------------
(* Reading a feed. *)

LiveDeparture(status, at, delay) == [status |-> status, at |-> at, delay |-> delay]
NoRow == LiveDeparture("none", None, None)

\* One stop update seen in stop order; `acc` carries the delay inherited so
\* far and the row, once there is one.
WalkUpdate(now, acc, u) ==
    LET ours == u.stop \in Line.stops
        delay == IF u.delay # None THEN u.delay
                 ELSE IF acc.inherited # None THEN acc.inherited
                 ELSE acc.tripDelay
    IN  CASE acc.done -> acc
          [] ~acc.done /\ u.rel = "no_data" ->
                [acc EXCEPT !.inherited = None, !.saw = @ \/ ours]
          [] ~acc.done /\ u.rel = "skipped" /\ ours ->
                [acc EXCEPT !.done = TRUE, !.row = LiveDeparture("skipped", None, None)]
          [] ~acc.done /\ u.rel = "skipped" /\ ~ours -> acc
          [] ~acc.done /\ u.rel = "scheduled" /\ u.at # None /\ ours ->
                [acc EXCEPT !.done = TRUE,
                            !.row = IF u.at <= now THEN NoRow
                                    ELSE LiveDeparture("predicted", u.at, u.delay)]
          [] ~acc.done /\ u.rel = "scheduled" /\ u.at # None /\ ~ours ->
                [acc EXCEPT !.inherited = u.delay]
          [] ~acc.done /\ u.rel = "scheduled" /\ u.at = None /\ ours ->
                [acc EXCEPT !.saw = TRUE, !.done = delay # None,
                            !.row = IF delay = None THEN NoRow
                                    ELSE LiveDeparture("predicted", None, delay)]
          [] OTHER -> [acc EXCEPT !.inherited = IF u.delay # None THEN u.delay
                                                ELSE @]

predictConfiguredStop(entity, now) ==
    LET end == FoldLeft(LAMBDA acc, u : WalkUpdate(now, acc, u),
                        [inherited |-> None, tripDelay |-> entity.delay,
                         saw |-> FALSE, done |-> FALSE, row |-> NoRow],
                        entity.updates)
        delay == IF end.inherited # None THEN end.inherited ELSE entity.delay
    IN  IF end.done \/ end.saw \/ delay = None THEN end.row
        ELSE LiveDeparture("predicted", None, delay)

\* The times an announcement gives are offsets from the planned time.
Entity(run, said) ==
    [said EXCEPT !.updates =
        [k \in DOMAIN @ |-> [@[k] EXCEPT !.at = IF @ = None THEN None
                                                ELSE run.time + @]]]

LiveRow(run, said, now) ==
    LET row == IF said.rel = "canceled" THEN LiveDeparture("canceled", None, None)
               ELSE predictConfiguredStop(Entity(run, said), now)
    IN  [trip |-> run.trip, named |-> said.named,
         day |-> IF said.dated THEN run.day ELSE None,
         status |-> row.status, at |-> row.at, delay |-> row.delay]

Covered(feed) == {r \in Running : r \in DOMAIN feed.says}

ReadFeed(feed, now) ==
    {row \in {LiveRow(r, feed.says[r], now) : r \in Covered(feed)} :
        row.status # "none"}

-----------------------------------------------------------------------------
(* Merging timetable and feed. *)

filterFutureLiveDepartures(rows, now) ==
    {r \in rows :
        /\ ~(r.status = "predicted" /\ r.at # None /\ r.at <= now)
        /\ ~(r.status # "predicted" /\ r.day # None
             /\ r.day < (now \div DayLength) - 1)}

Apart(a, b) == IF a < b THEN b - a ELSE a - b

Nearest(runs, ref) ==
    CHOOSE d \in runs : \A e \in runs :
        \/ Apart(d.time, ref) < Apart(e.time, ref)
        \/ Apart(d.time, ref) = Apart(e.time, ref) /\ d.time <= e.time

\* Faulty variant: a row is matched to any day's run of its trip.
AnyDay(row, run) == TRUE

SameDay(row, run) == row.day = None \/ row.day = run.day

\* The planned departure a row is about: the trip it names, else the nearest.
matchScheduledIndex(free, row, now) ==
    LET named == {d \in free : row.named /\ d.trip = row.trip /\ SameDay(row, d)}
        near  == {d \in free : SameDay(row, d)
                                /\ Apart(row.at, d.time) <= MatchWindow}
    IN  IF named # {}
        THEN {Nearest(named, IF row.at = None THEN now ELSE row.at)}
        ELSE IF row.status # "predicted" \/ row.at = None \/ near = {} THEN {}
        ELSE {Nearest(near, row.at)}

Suppress(now, row, free) == free \ matchScheduledIndex(free, row, now)

Predict(now, acc, row) ==
    LET hit == matchScheduledIndex(acc.free, row, now)
        at  == IF row.at # None THEN row.at
               ELSE IF hit = {} THEN None
               ELSE (CHOOSE d \in hit : TRUE).time + row.delay
    IN  [free |-> acc.free \ hit,
         shown |-> IF at <= now THEN acc.shown
                   ELSE acc.shown \union
                        {[trip |-> row.trip, time |-> at, live |-> TRUE]}]

\* Rows are read in the order of their times, those that only give a delay last.
ReadBefore(a, b) == a.at # None /\ (b.at = None \/ a.at < b.at)

\* Cancelled and skipped trips go first, then the predictions, then the plan.
mergeDepartures(scheduled, rows, now) ==
    LET free == FoldSet(LAMBDA row, free : Suppress(now, row, free), scheduled,
                        {r \in rows : r.status # "predicted"})
        done == FoldLeft(LAMBDA acc, row : Predict(now, acc, row),
                         [free |-> free, shown |-> {}],
                         SetToSortSeq({r \in rows : r.status = "predicted"}, ReadBefore))
        plan == {[trip |-> d.trip, time |-> d.time, live |-> FALSE] :
                    d \in {x \in done.free : x.time > now}}
    IN  FirstOf(done.shown \union plan, MaxDepartures)

-----------------------------------------------------------------------------
NoSnapshot == [feed |-> 0, rows |-> {}, fetchedAt |-> None]

FreshSnapshot(now) == rtCache # NoSnapshot /\ now - rtCache.fetchedAt < TTL

\* The answer a request gives on a snapshot; feed 0 is the plan alone.
Answer(now, snapshot) ==
    [step |-> "answered", now |-> now, given |-> clock, feed |-> snapshot.feed,
     fetchedAt |-> snapshot.fetchedAt,
     rows |-> mergeDepartures(findNextDepartures(now),
                 filterFutureLiveDepartures(snapshot.rows, now), now)]

Quiet == [step |-> "idle", now |-> 0, given |-> 0, feed |-> 0,
          fetchedAt |-> None, rows |-> {}]
NoFetch == [running |-> FALSE, begun |-> 0]

BusInit ==
    /\ clock = FirstTick
    /\ timetable = {}
    /\ feeds \in {<<[at |-> FirstFeed, says |-> s]>> : s \in Announcements}
    /\ rtCache = NoSnapshot
    /\ fetching = NoFetch
    /\ rider = [r \in Riders |-> Quiet]
    /\ fetchTrouble = 0

\* refreshLoop downloads and parses the archive until it has it once.
Refresh ==
    /\ timetable = {}
    /\ timetable' = parseStopTimes
    /\ UNCHANGED <<clock, feeds, rtCache, fetching, rider, fetchTrouble>>

\* A request takes the timetable and, if it is fresh, the snapshot.
Ask(r) ==
    /\ rider[r].step \in {"idle", "answered"}
    /\ timetable # {}
    /\ rider' = [rider EXCEPT ![r] = IF FreshSnapshot(clock) THEN Answer(clock, rtCache)
                                     ELSE [Quiet EXCEPT !.step = "missed",
                                                        !.now = clock]]
    /\ UNCHANGED <<clock, timetable, feeds, rtCache, fetching, fetchTrouble>>

\* It joins the fetch in flight, or looks again and starts one.
ShareFetch(r) ==
    /\ rider[r].step = "missed"
    /\ IF ~fetching.running /\ FreshSnapshot(clock)
       THEN /\ rider' = [rider EXCEPT ![r] = Answer(@.now, rtCache)]
            /\ UNCHANGED fetching
       ELSE /\ rider' = [rider EXCEPT ![r].step = "waiting"]
            /\ fetching' = IF fetching.running THEN fetching
                           ELSE [running |-> TRUE, begun |-> clock]
    /\ UNCHANGED <<clock, timetable, feeds, rtCache, fetchTrouble>>

\* A feed without a timestamp is taken whatever its age.
Stale(feed, now) == feed.says \notin Unstamped /\ now - feed.at > MaxStale

Waiting == {r \in Riders : rider[r].step = "waiting"}

\* The feed is read under the time the fetch began, and kept for everyone.
FetchEnds ==
    LET feed == Last(feeds)
        snapshot == [feed |-> Len(feeds), rows |-> ReadFeed(feed, fetching.begun),
                     fetchedAt |-> clock]
    IN  /\ fetching.running /\ ~Stale(feed, fetching.begun)
        /\ rtCache' = snapshot
        /\ rider' = [r \in Riders |-> IF r \in Waiting
                                      THEN Answer(rider[r].now, snapshot)
                                      ELSE rider[r]]
        /\ fetching' = NoFetch
        /\ UNCHANGED <<clock, timetable, feeds, fetchTrouble>>

\* The feed is refused for its age, or cannot be fetched or read.
FetchFails ==
    /\ fetching.running
    /\ \/ Stale(Last(feeds), fetching.begun) /\ UNCHANGED fetchTrouble
       \/ fetchTrouble < MaxFetchTrouble /\ fetchTrouble' = fetchTrouble + 1
    /\ rider' = [r \in Riders |-> IF r \in Waiting
                                  THEN [rider[r] EXCEPT !.step = "failed"]
                                  ELSE rider[r]]
    /\ fetching' = NoFetch
    /\ UNCHANGED <<clock, timetable, feeds, rtCache>>

\* Faulty variant: a snapshot serves as long as the feed cannot be read.
ServeForever(now) == rtCache # NoSnapshot

\* After a failed fetch the last snapshot serves while it is recent enough.
MayServe(now) == rtCache # NoSnapshot /\ now - rtCache.fetchedAt < MaxStale

FallBack(r) ==
    /\ rider[r].step = "failed"
    /\ rider' = [rider EXCEPT ![r] = Answer(@.now, IF MayServe(@.now)
                                                   THEN rtCache ELSE NoSnapshot)]
    /\ UNCHANGED <<clock, timetable, feeds, rtCache, fetching, fetchTrouble>>

\* The operator publishes its next feed.
Publish(says) ==
    /\ Len(feeds) < MaxFeeds
    /\ feeds' = Append(feeds, [at |-> clock, says |-> says])
    /\ UNCHANGED <<clock, timetable, rtCache, fetching, rider, fetchTrouble>>

\* A tick is long: a request only loses one while a fetch is in flight, and a fetch has a
\* deadline that is shorter.
TimePasses ==
    /\ clock < LastTick
    /\ fetching.running => clock = fetching.begun
    /\ \A r \in Riders : rider[r].step \notin {"missed", "failed"}
    /\ clock' = clock + 1
    /\ UNCHANGED <<timetable, feeds, rtCache, fetching, rider, fetchTrouble>>

RiderStep(r) == Ask(r) \/ ShareFetch(r) \/ FallBack(r)

BusNext ==
    \/ Refresh \/ FetchEnds \/ FetchFails \/ TimePasses
    \/ \E r \in Riders : RiderStep(r)
    \/ \E s \in Announcements : Publish(s)

BusSpec == BusInit /\ [][BusNext]_busVars

-----------------------------------------------------------------------------
Times == FirstTick .. LastTick

\* The rows of a snapshot and of an answer are left to AnswersAreRight.
SnapshotTyped(s) ==
    /\ s = [feed |-> s.feed, rows |-> s.rows, fetchedAt |-> s.fetchedAt]
    /\ s.feed \in 0 .. Len(feeds) /\ s.fetchedAt \in Times \cup {None}

AnswerTyped(a) ==
    /\ a = [step |-> a.step, now |-> a.now, given |-> a.given, feed |-> a.feed,
            fetchedAt |-> a.fetchedAt, rows |-> a.rows]
    /\ a.step \in {"idle", "missed", "waiting", "failed", "answered"}
    /\ a.now \in Times \cup {0} /\ a.given \in Times \cup {0}
    /\ a.feed \in 0 .. Len(feeds) /\ a.fetchedAt \in Times \cup {None}

BusTypeOK ==
    /\ clock \in Times
    /\ timetable \subseteq parseStopTimes
    /\ feeds \in Seq([at : Times \cup {FirstFeed}, says : Announcements])
    /\ Len(feeds) \in 1 .. MaxFeeds + 1
    /\ SnapshotTyped(rtCache)
    /\ fetching \in [running : BOOLEAN, begun : Times \cup {0}]
    /\ rider = [r \in Riders |-> rider[r]] /\ \A r \in Riders : AnswerTyped(rider[r])
    /\ fetchTrouble \in 0 .. MaxFetchTrouble

\* What feed `feed` says of a bus; a bus it says nothing of runs to plan, as all do without
\* a feed.
Said(feed, r) == IF feed # 0 /\ r \in DOMAIN feeds[feed].says THEN feeds[feed].says[r].means
                 ELSE [leaves |-> TRUE, late |-> None]

\* What a passenger should be shown at a time, by a feed: every bus the operator runs, at
\* the time it will leave, those that will not left out.  A bus in `forgotten` is shown as
\* planned.
Truth(now, feed, forgotten) ==
    LET live(r) == Said(feed, r).late # None /\ r \notin forgotten
        time(r) == r.time + IF live(r) THEN Said(feed, r).late ELSE 0
    IN  FirstOf({[trip |-> r.trip, time |-> time(r), live |-> live(r)] :
                    r \in {x \in Running : Said(feed, x).leaves /\ time(x) > now}},
                MaxDepartures)

\* The buses whose predicted time at the stop, given as a time, has come.
Passed(now, feed) ==
    {r \in Running :
        /\ feed # 0 /\ r \in DOMAIN feeds[feed].says
        /\ \E u \in Range(feeds[feed].says[r].updates) :
              u.stop \in Line.stops /\ u.at # None /\ r.time + u.at <= now}

\* An answer that follows a feed follows one that is recent: read less than MaxStale before
\* the request and, if it bears a timestamp, published at most MaxStale before the fetch,
\* which takes less than a tick; whatever fetches fail, are shared, or overlap
\* (getRealtimeDepartures, feedHeaderTime).
AnswersAreFresh ==
    \A r \in Riders : rider[r].step = "answered" /\ rider[r].feed # 0 =>
        /\ rider[r].now - rider[r].fetchedAt < MaxStale
        /\ \/ feeds[rider[r].feed].says \in Unstamped
           \/ rider[r].now - feeds[rider[r].feed].at <= 2 * MaxStale

\* Every answer shows the right buses: each run once, at its predicted time if the feed
\* predicts it, else at its planned time, a cancelled or skipped one not at all, by one
\* feed, else by the plan alone (GetChantrerieDepartures, mergeDepartures).  The exception:
\* once its predicted time has come, a bus that left ahead of its plan is forgotten by the
\* feed and shown as planned until its planned time (gtfs_realtime.go:111, 281).  Of an
\* answer that took a tick to give, the buses still ahead count.
AnswersAreRight ==
    \A r \in Riders : rider[r].step = "answered" =>
        LET a == rider[r]
            ahead(rows) == {d \in rows : d.time > a.given}
        IN  \E forgotten \in SUBSET Passed(a.given, a.feed) :
                LET truth == Truth(a.now, a.feed, forgotten)
                IN  /\ Passed(a.now, a.feed) \subseteq forgotten
                    /\ ahead(truth) = FirstOf(ahead(a.rows), Cardinality(ahead(truth)))
                    /\ a.given = a.now => a.rows = truth

=============================================================================
