------------------------------- MODULE Events -------------------------------
(***************************************************************************)
(* Events of the clubs (handlers/event, the events part of handlers/admin) *)
(* and the reminder one hour before (scheduler/event_scheduler.go).  A     *)
(* request checks first and writes later, in another statement; a tick of  *)
(* the scheduler runs every minute in every replica.                       *)
(***************************************************************************)
EXTENDS Naturals, FiniteSets

CONSTANTS
    EventIds,         \* rows of events; an identifier is never used twice
    People,           \* accounts
    Schedulers,       \* one event scheduler per replica
    MaxEventMoves,    \* bound: updates that change the date or the creator
    MaxEventTrouble   \* bound: failing queries and schedulers that stop

\* Somebody may create an event.
ASSUME EventsAssumption ==
    People # {} /\ EventIds # {} /\ {MaxEventMoves, MaxEventTrouble} \subseteq Nat

VARIABLES
    event,        \* rows of events
    attendees,    \* rows of events_attendents, by event
    marked,       \* rows of event_notification_sent
    eventPushes,  \* announcements stored in the push queue, by event and kind
    host,         \* the club of the events exists
    request,      \* requests between their checks and their write
    scheduler,    \* ticks under way
    adminTouched, \* history: events an administrator created or gave away
    slippedOut,   \* history: events whose creator left for a failing query
    eventMoves, eventTrouble

eventVars == << event, attendees, marked, eventPushes, host, request, scheduler,
                adminTouched, slippedOut, eventMoves, eventTrouble >>

-----------------------------------------------------------------------------
(* State *)

\* start: more than an hour away, in the window of the reminder, or later than that.
Event == [st : {"unused", "live", "gone"}, creator : People, start : {"far", "window", "near"}]
PushKinds == {"event_created", "event_reminder_1h"}
Request == [op : {"none", "join", "leave", "update", "delete"}, at : EventIds]
NoRequest == [op |-> "none", at |-> CHOOSE e \in EventIds : TRUE]
Scheduler == [todo : SUBSET EventIds, mark : SUBSET EventIds]
NoEventTick == [todo |-> {}, mark |-> {}]

EventsTypeOK ==
    /\ event \in [EventIds -> Event]
    /\ attendees \in [EventIds -> SUBSET People]
    /\ marked \subseteq EventIds
    /\ eventPushes \in [EventIds \X PushKinds -> 0 .. 2]
    /\ host \in BOOLEAN
    /\ request \in [People -> Request]
    /\ scheduler \in [Schedulers -> Scheduler]
    /\ adminTouched \subseteq EventIds /\ slippedOut \subseteq EventIds
    /\ eventMoves \in 0 .. MaxEventMoves
    /\ eventTrouble \in 0 .. MaxEventTrouble

EventsInit ==
    /\ event = [e \in EventIds |-> [st |-> "unused", creator |-> CHOOSE p \in People : TRUE,
                                    start |-> "far"]]
    /\ attendees = [e \in EventIds |-> {}]
    /\ marked = {}
    /\ eventPushes = [k \in EventIds \X PushKinds |-> 0]
    /\ host = TRUE
    /\ request = [p \in People |-> NoRequest]
    /\ scheduler = [s \in Schedulers |-> NoEventTick]
    /\ adminTouched = {} /\ slippedOut = {}
    /\ eventMoves = 0 /\ eventTrouble = 0

Live(e) == event[e].st = "live"
Asks(p, q) == request' = [request EXCEPT ![p] = q]
EventTrouble == eventTrouble < MaxEventTrouble /\ eventTrouble' = eventTrouble + 1
EventMoves == eventMoves < MaxEventMoves /\ eventMoves' = eventMoves + 1

\* Faulty variant: the key of the push does not name the event and the kind.
QueueEventAgain(e, k) ==
    eventPushes' = [eventPushes EXCEPT ![<< e, k >>] = IF @ < 2 THEN @ + 1 ELSE @]

\* Announce: a second push of the same key is not stored.
QueueEvent(e, k) == eventPushes' = [eventPushes EXCEPT ![<< e, k >>] = IF @ = 0 THEN 1 ELSE @]

\* An event goes, alone or with its club; attendances and marks go with it.
Drop(es) ==
    /\ event' = [e \in EventIds |->
                   IF e \in es THEN [event[e] EXCEPT !.st = "gone"] ELSE event[e]]
    /\ attendees' = [e \in EventIds |-> IF e \in es THEN {} ELSE attendees[e]]
    /\ marked' = marked \ es

-----------------------------------------------------------------------------
(* handlers/event *)

\* One transaction: the event, and its creator as an attendee.  The push is queued
\* afterwards, and a failure of that is logged.
CreateEvent(p, e) ==
    /\ host /\ event[e].st = "unused"
    /\ event' = [event EXCEPT ![e] = [st |-> "live", creator |-> p, start |-> "far"]]
    /\ attendees' = [attendees EXCEPT ![e] = {p}]
    /\ \/ QueueEvent(e, "event_created") /\ UNCHANGED eventTrouble
       \/ EventTrouble /\ UNCHANGED eventPushes
    /\ UNCHANGED << marked, host, request, scheduler, adminTouched, slippedOut, eventMoves >>

\* JoinEvent, the checks: the event exists, and the user does not attend it.
JoinEvent(p, e) ==
    /\ request[p].op = "none" /\ Live(e) /\ p \notin attendees[e]
    /\ Asks(p, [op |-> "join", at |-> e])
    /\ UNCHANGED << event, attendees, marked, eventPushes, host, scheduler, adminTouched,
                    slippedOut, eventMoves, eventTrouble >>

\* Faulty variant: a creator leaves like anybody.
LeaveUnguarded(p, e) ==
    /\ request[p].op = "none" /\ p \in attendees[e]
    /\ Asks(p, [op |-> "leave", at |-> e])
    /\ UNCHANGED << event, attendees, marked, eventPushes, host, scheduler, adminTouched,
                    slippedOut, eventMoves, eventTrouble >>

\* LeaveEvent, the checks: an attendee, and not the creator; when the creator cannot
\* be read, the request goes on.
LeaveEvent(p, e) ==
    /\ request[p].op = "none" /\ p \in attendees[e]
    /\ \/ event[e].creator # p /\ UNCHANGED << slippedOut, eventTrouble >>
       \/ event[e].creator = p /\ EventTrouble /\ slippedOut' = slippedOut \cup {e}
    /\ Asks(p, [op |-> "leave", at |-> e])
    /\ UNCHANGED << event, attendees, marked, eventPushes, host, scheduler, adminTouched,
                    eventMoves >>

\* UpdateEvent and DeleteEvent, the check: the user is the creator.
CreatorAsks(p, e, op) ==
    /\ request[p].op = "none" /\ Live(e) /\ event[e].creator = p
    /\ Asks(p, [op |-> op, at |-> e])
    /\ UNCHANGED << event, attendees, marked, eventPushes, host, scheduler, adminTouched,
                    slippedOut, eventMoves, eventTrouble >>

\* The write of each request.  An event that went makes an insert fail and an update or
\* a delete touch no row.
FinishJoin(p) ==
    LET e == request[p].at IN
    /\ request[p].op = "join"
    /\ attendees' = [attendees EXCEPT ![e] = IF Live(e) THEN @ \cup {p} ELSE @]
    /\ Asks(p, NoRequest)
    /\ UNCHANGED << event, marked, eventPushes, host, scheduler, adminTouched, slippedOut,
                    eventMoves, eventTrouble >>

FinishLeave(p) ==
    /\ request[p].op = "leave"
    /\ attendees' = [attendees EXCEPT ![request[p].at] = @ \ {p}]
    /\ Asks(p, NoRequest)
    /\ UNCHANGED << event, marked, eventPushes, host, scheduler, adminTouched, slippedOut,
                    eventMoves, eventTrouble >>

\* The fields the request names, the date among them or not.
FinishUpdate(p) ==
    LET e == request[p].at IN
    /\ request[p].op = "update"
    /\ \/ /\ Live(e) /\ EventMoves
          /\ \E t \in {"far", "window", "near"} : event' = [event EXCEPT ![e].start = t]
       \/ UNCHANGED << event, eventMoves >>
    /\ Asks(p, NoRequest)
    /\ UNCHANGED << attendees, marked, eventPushes, host, scheduler, adminTouched,
                    slippedOut, eventTrouble >>

\* One transaction, given up when there is no attendee to delete.
FinishDelete(p) ==
    LET e == request[p].at IN
    /\ request[p].op = "delete"
    /\ IF attendees[e] # {} THEN Drop({e}) ELSE UNCHANGED << event, attendees, marked >>
    /\ Asks(p, NoRequest)
    /\ UNCHANGED << eventPushes, host, scheduler, adminTouched, slippedOut, eventMoves,
                    eventTrouble >>

-----------------------------------------------------------------------------
(* handlers/admin *)

\* The creator is any account, and attends nothing.
AdminCreateEvent(p, e) ==
    /\ host /\ event[e].st = "unused"
    /\ event' = [event EXCEPT ![e] = [st |-> "live", creator |-> p, start |-> "far"]]
    /\ adminTouched' = adminTouched \cup {e}
    /\ UNCHANGED << attendees, marked, eventPushes, host, request, scheduler, slippedOut,
                    eventMoves, eventTrouble >>

AdminUpdateEvent(p, e) ==
    /\ Live(e) /\ EventMoves
    /\ \E t \in {"far", "window", "near"} :
            event' = [event EXCEPT ![e].creator = p, ![e].start = t]
    /\ adminTouched' = IF event[e].creator = p THEN adminTouched ELSE adminTouched \cup {e}
    /\ UNCHANGED << attendees, marked, eventPushes, host, request, scheduler, slippedOut,
                    eventTrouble >>

AdminDeleteEvent(e) ==
    /\ Live(e) /\ Drop({e})
    /\ UNCHANGED << eventPushes, host, request, scheduler, adminTouched, slippedOut,
                    eventMoves, eventTrouble >>

\* DeleteClub, what it does to the events of the club.
DeleteHost ==
    /\ host /\ host' = FALSE
    /\ Drop({e \in EventIds : Live(e)})
    /\ UNCHANGED << eventPushes, request, scheduler, adminTouched, slippedOut, eventMoves,
                    eventTrouble >>

-----------------------------------------------------------------------------
(* The reminder *)

EventApproaches(e) ==
    /\ Live(e) /\ event[e].start # "near"
    /\ event' = [event EXCEPT ![e].start = IF @ = "far" THEN "window" ELSE "near"]
    /\ UNCHANGED << attendees, marked, eventPushes, host, request, scheduler, adminTouched,
                    slippedOut, eventMoves, eventTrouble >>

\* checkAndSendEventNotifications: what starts in an hour and has no mark.
FindEvents(s) ==
    /\ scheduler[s] = NoEventTick
    /\ scheduler' = [scheduler EXCEPT ![s].todo =
                        {e \in EventIds : Live(e) /\ event[e].start = "window" /\ e \notin marked}]
    /\ UNCHANGED << event, attendees, marked, eventPushes, host, request, adminTouched,
                    slippedOut, eventMoves, eventTrouble >>

\* Faulty variant: the event is marked whether its reminder was queued or not.
RemindAndMark(s, e) ==
    /\ e \in scheduler[s].todo /\ scheduler[s].mark = {}
    /\ scheduler' = [scheduler EXCEPT ![s].todo = @ \ {e}, ![s].mark = {e}]
    /\ \/ QueueEvent(e, "event_reminder_1h") /\ UNCHANGED eventTrouble
       \/ EventTrouble /\ UNCHANGED eventPushes
    /\ UNCHANGED << event, attendees, marked, host, request, adminTouched, slippedOut,
                    eventMoves >>

\* sendEventReminderNotification: queued, then to be marked; refused, or stored and
\* reported as refused, and left to the next tick.
RemindEvent(s, e) ==
    /\ e \in scheduler[s].todo /\ scheduler[s].mark = {}
    /\ \/ /\ QueueEvent(e, "event_reminder_1h")
          /\ scheduler' = [scheduler EXCEPT ![s].todo = @ \ {e}, ![s].mark = {e}]
          /\ UNCHANGED eventTrouble
       \/ /\ EventTrouble
          /\ QueueEvent(e, "event_reminder_1h") \/ UNCHANGED eventPushes
          /\ scheduler' = [scheduler EXCEPT ![s].todo = @ \ {e}]
    /\ UNCHANGED << event, attendees, marked, host, request, adminTouched, slippedOut,
                    eventMoves >>

\* The insert skips a mark that exists, and fails, which is logged, for an event that went.
markNotificationSent(s) ==
    /\ scheduler[s].mark # {}
    /\ \/ marked' = marked \cup {e \in scheduler[s].mark : Live(e)} /\ UNCHANGED eventTrouble
       \/ EventTrouble /\ UNCHANGED marked
    /\ scheduler' = [scheduler EXCEPT ![s].mark = {}]
    /\ UNCHANGED << event, attendees, eventPushes, host, request, adminTouched, slippedOut,
                    eventMoves >>

SchedulerStops(s) ==
    /\ scheduler[s] # NoEventTick /\ EventTrouble
    /\ scheduler' = [scheduler EXCEPT ![s] = NoEventTick]
    /\ UNCHANGED << event, attendees, marked, eventPushes, host, request, adminTouched,
                    slippedOut, eventMoves >>

-----------------------------------------------------------------------------
(* Specification *)

EventsNext ==
    \/ \E p \in People :
        \/ \E e \in EventIds :
            \/ CreateEvent(p, e) \/ JoinEvent(p, e) \/ LeaveEvent(p, e)
            \/ \E op \in {"update", "delete"} : CreatorAsks(p, e, op)
            \/ AdminCreateEvent(p, e) \/ AdminUpdateEvent(p, e)
        \/ FinishJoin(p) \/ FinishLeave(p) \/ FinishUpdate(p) \/ FinishDelete(p)
    \/ \E e \in EventIds : AdminDeleteEvent(e) \/ EventApproaches(e)
    \/ DeleteHost
    \/ \E s \in Schedulers :
        \/ FindEvents(s) \/ markNotificationSent(s) \/ SchedulerStops(s)
        \/ \E e \in EventIds : RemindEvent(s, e)

EventsSpec == EventsInit /\ [][EventsNext]_eventVars

-----------------------------------------------------------------------------
(* What must hold *)

\* DeleteEvent refuses an event without attendees: the creator of an event made in the
\* application is never left unable to delete it, whoever joins and leaves meanwhile,
\* unless an administrator gave the event to somebody or the query that keeps a creator
\* from leaving failed (event_handler.go:1015, 1170).
CreatorsCanDelete ==
    \A e \in EventIds : Live(e) => e \in adminTouched \cup slippedOut \/ attendees[e] # {}

\* Ticks of several replicas, answers that are lost and ticks that stop make one reminder
\* of an event, and an event is marked only once that reminder is queued
\* (event_scheduler.go:139).
EventRemindedOnce ==
    \A e \in EventIds :
        /\ \A k \in PushKinds : eventPushes[<< e, k >>] <= 1
        /\ e \in marked => eventPushes[<< e, "event_reminder_1h" >>] = 1

\* The announcements of an event, seen from outside.
Announcement == EventIds \X PushKinds
EventStanding(e, k) ==
    IF k = "event_reminder_1h" /\ e \in marked THEN "sent"
    ELSE [unused |-> "unknown", live |-> "waiting", gone |-> "gone"][event[e].st]
EventBox == INSTANCE Outbox WITH
                Items <- Announcement, told <- eventPushes,
                standing <- [x \in Announcement |-> EventStanding(x[1], x[2])]

\* The handlers and the schedulers keep the promise of Outbox: the creation of an event and the
\* hour before it are announced once each, nothing of an event that does not exist yet is, and
\* the mark comes after the reminder and goes only with the event (event_scheduler.go:139).
EventsKeepTheOutbox == EventBox!OutboxSpec

=============================================================================
