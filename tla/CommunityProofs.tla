--------------------------- MODULE CommunityProofs ---------------------------
(* Reminders, events, clubs, devices, the catalogue and the buses, for all people and callers. *)
EXTENDS MCCommunity, AccountsProofs, PhotoLibraryProofs, FiniteSetTheorems, WellFoundedInduction,
        TLAPS

-----------------------------------------------------------------------------
(* Reminders of reservations *)

RemindersTyped ==
    /\ claimed \subseteq Claims
    /\ queued \in [Claims -> 0 .. 2]
    /\ tick \in [Replicas -> TickState]
    /\ \A r \in Replicas : tick[r].pc \in {"idle", "claim", "send"} => tick[r].at = {}

RemindersInv == RemindersTyped /\ RemindedOnce

LEMMA NoTickTyped == NoTick \in TickState
  BY DEF NoTick, TickState

LEMMA AfterClaimsTyped ==
    ASSUME NEW t \in TickState, t.at = {}
    PROVE  /\ AfterClaims(t) \in TickState
           /\ AfterClaims(t).due = t.due /\ AfterClaims(t).at = {}
  BY NoTickTyped DEF AfterClaims, TickState, NoTick

\* What a step must do to the claims that nobody lost: a claim is new and in the hand of r, or
\* was there; and what r lets go of is stored, lost or claimed no more.
LEMMA HandedOn ==
    ASSUME RemindersInv, NEW r \in Replicas, NEW t \in TickState, TickGoes(r, t),
           t.pc \in {"idle", "claim", "send"} => t.at = {},
           claimed' \subseteq Claims, queued' \in [Claims -> 0 .. 2],
           \A c \in Claims : queued'[c] = queued[c] \/ queued'[c] = 1,
           \A c \in claimed' \ lostClaims' :
              /\ c \notin t.due \cup t.at => c \in claimed \ lostClaims
              /\ c \in tick[r].due \cup tick[r].at => c \in t.due \cup t.at \/ queued'[c] = 1
    PROVE  RemindersInv'
  <1>1. \A s \in Replicas : tick'[s] = IF s = r THEN t ELSE tick[s]
    BY DEF TickGoes, RemindersInv, RemindersTyped
  <1>2. RemindersTyped'
    BY <1>1 DEF RemindersInv, RemindersTyped, TickGoes
  <1>3. \A c \in Claims : queued'[c] <= 1
    BY DEF RemindersInv, RemindedOnce, RemindersTyped
  <1>4. ASSUME NEW c \in claimed' \ lostClaims'
        PROVE  queued'[c] = 1 \/ \E s \in Replicas : c \in tick'[s].due \cup tick'[s].at
    <2>1. CASE c \in t.due \cup t.at
      BY <1>1, <2>1
    <2>2. CASE c \notin t.due \cup t.at
      <3>1. c \in claimed \ lostClaims /\ c \in Claims
        BY <2>2
      <3>2. queued[c] = 1 \/ \E s \in Replicas : c \in tick[s].due \cup tick[s].at
        BY <3>1 DEF RemindersInv, RemindedOnce
      <3>3. CASE queued[c] = 1
        BY <3>1, <3>3
      <3>4. ASSUME NEW s \in Replicas, c \in tick[s].due \cup tick[s].at
            PROVE  queued'[c] = 1 \/ c \in tick'[s].due \cup tick'[s].at
        BY <1>1, <2>2, <3>4
      <3> QED BY <3>2, <3>3, <3>4
    <2> QED BY <2>1, <2>2
  <1> QED BY <1>2, <1>3, <1>4 DEF RemindersInv, RemindedOnce

LEMMA BookingsKeepReminders ==
    ASSUME RemindersInv, NEW b \in AllBookings,
           MakeBooking(b) \/ ReturnLoan(b) \/ CancelSlot(b) \/ BookingAges(b)
    PROVE  RemindersInv'
  <1>1. /\ tick' = tick /\ queued' = queued /\ claimed' \subseteq claimed
        /\ claimed' \ lostClaims' \subseteq claimed \ lostClaims
    BY DEF MakeBooking, ReturnLoan, CancelSlot, BookingAges
  <1> QED BY <1>1 DEF RemindersInv, RemindersTyped, RemindedOnce

LEMMA ClaimingKeepsReminders ==
    ASSUME RemindersInv, NEW r \in Replicas, NEW i \in 0 .. 3, claim(r, i),
           tick[r].pc \in {"idle", "claim"}
    PROVE  RemindersInv'
  <1> DEFINE new == {c \in Step(i) : IsDue(c)} \ claimed
             due == tick[r].due \cup new
             t == IF i < 3 THEN [pc |-> "claim", step |-> i + 1, due |-> due, at |-> {}]
                  ELSE AfterClaims([NoTick EXCEPT !.due = due])
  <1>1. new \subseteq Claims /\ tick[r] \in TickState /\ tick[r].at = {}
    BY DEF Step, RemindersInv, RemindersTyped
  <1>2. due \subseteq Claims
    BY <1>1 DEF TickState
  <1>3. [NoTick EXCEPT !.due = due] \in TickState /\ [NoTick EXCEPT !.due = due].at = {}
        /\ [NoTick EXCEPT !.due = due].due = due
    BY <1>2 DEF NoTick, TickState
  <1>4. t \in TickState /\ t.due = due /\ t.at = {}
    <2>1. CASE i < 3
      <3>1. i + 1 \in 0 .. 3
        BY <2>1
      <3> QED BY <1>2, <2>1, <3>1 DEF TickState
    <2>2. CASE ~(i < 3)
      BY <1>3, <2>2, AfterClaimsTyped
    <2> QED BY <2>1, <2>2
  <1>5. TickGoes(r, t) /\ claimed' = claimed \cup new /\ queued' = queued /\ lostClaims' = lostClaims
    BY DEF claim
  <1> HIDE DEF new, t
  <1> QED BY <1>1, <1>4, <1>5, HandedOn DEF RemindersInv, RemindersTyped

LEMMA ReplicasKeepReminders ==
    ASSUME RemindersInv, NEW r \in Replicas,
           \/ SendDueReminders(r) \/ ClaimQueryFails(r)
           \/ \E c \in Claims : sendReminder(r, c) \/ PushRefused(r, c)
           \/ release(r) \/ TickStops(r)
    PROVE  RemindersInv'
  <1>t. tick[r] \in TickState /\ queued \in [Claims -> 0 .. 2] /\ claimed \subseteq Claims
    BY DEF RemindersInv, RemindersTyped
  <1>p. ASSUME NEW c \in Claims
        PROVE  StorePush(c) => /\ queued' \in [Claims -> 0 .. 2] /\ queued'[c] = 1
                               /\ \A d \in Claims : queued'[d] = queued[d] \/ queued'[d] = 1
    BY <1>t DEF StorePush
  <1>1. CASE SendDueReminders(r)
    <2>1. tick[r].step \in 0 .. 3
      BY <1>t DEF TickState
    <2> QED BY <1>1, <2>1, ClaimingKeepsReminders DEF SendDueReminders
  <1>2. CASE ClaimQueryFails(r) \/ TickStops(r)
    <2>1. /\ TickGoes(r, NoTick) /\ queued' = queued /\ claimed' = claimed
          /\ lostClaims \subseteq lostClaims'
          /\ \A c \in claimed : c \in tick[r].due \/ (tick[r].pc # "claim" /\ c \in tick[r].at)
                => c \in lostClaims'
      BY <1>2 DEF ClaimQueryFails, TickStops
    <2>2. tick[r].pc = "claim" => tick[r].at = {}
      BY DEF RemindersInv, RemindersTyped
    <2>3. NoTick.due = {} /\ NoTick.at = {}
      BY DEF NoTick
    <2> QED BY <1>t, <2>1, <2>2, <2>3, NoTickTyped, HandedOn
  <1>3. ASSUME NEW c \in Claims, sendReminder(r, c) PROVE RemindersInv'
    <2> DEFINE u == [tick[r] EXCEPT !.due = @ \ {c}]
    <2>1. u \in TickState /\ u.due = tick[r].due \ {c} /\ u.at = {} /\ tick[r].at = {}
      BY <1>3, <1>t DEF sendReminder, TickState, RemindersInv, RemindersTyped
    <2>2. /\ TickGoes(r, AfterClaims(u)) /\ StorePush(c)
          /\ claimed' = claimed /\ lostClaims' = lostClaims
      BY <1>3 DEF sendReminder
    <2> HIDE DEF u
    <2> QED BY <1>p, <1>t, <2>1, <2>2, AfterClaimsTyped, HandedOn
  <1>4. ASSUME NEW c \in Claims, PushRefused(r, c) PROVE RemindersInv'
    <2> DEFINE u == [tick[r] EXCEPT !.pc = "refused", !.due = @ \ {c}, !.at = {c}]
    <2>1. u \in TickState /\ u.pc = "refused" /\ u.due = tick[r].due \ {c} /\ u.at = {c} /\ tick[r].at = {}
      BY <1>4, <1>t DEF PushRefused, TickState, RemindersInv, RemindersTyped
    <2>2. /\ TickGoes(r, u) /\ (StorePush(c) \/ queued' = queued)
          /\ claimed' = claimed /\ lostClaims' = lostClaims
      BY <1>4 DEF PushRefused
    <2> HIDE DEF u
    <2> QED BY <1>p, <1>t, <2>1, <2>2, HandedOn
  <1>5. CASE release(r)
    <2> DEFINE u == [tick[r] EXCEPT !.at = {}]
    <2>1. u \in TickState /\ u.due = tick[r].due /\ u.at = {}
      BY <1>t DEF TickState
    <2>2. /\ TickGoes(r, AfterClaims(u)) /\ queued' = queued
          /\ claimed' = claimed \ tick[r].at /\ lostClaims' = lostClaims
      BY <1>5 DEF release
    <2> HIDE DEF u
    <2> QED BY <1>t, <2>1, <2>2, AfterClaimsTyped, HandedOn
  <1> QED BY <1>1, <1>2, <1>3, <1>4, <1>5

LEMMA RemindersInvariant == RemindersSpec => []RemindersInv
  <1>1. RemindersInit => RemindersInv
    BY NoTickTyped DEF RemindersInit, RemindersInv, RemindersTyped, RemindedOnce, NoTick
  <1>2. RemindersInv /\ [RemindersNext]_reminderVars => RemindersInv'
    <2>1. RemindersInv /\ UNCHANGED reminderVars => RemindersInv'
      BY DEF reminderVars, RemindersInv, RemindersTyped, RemindedOnce
    <2> QED BY <2>1, BookingsKeepReminders, ReplicasKeepReminders DEF RemindersNext
  <1> QED BY <1>1, <1>2, PTL DEF RemindersSpec

\* For any number of schedulers that race, stop and are refused, a milestone is pushed once,
\* and a claim that nobody lost is being sent or was (claim, sendReminder, release).
THEOREM RemindersSentOnce == RemindersSpec => []RemindedOnce
  BY RemindersInvariant, PTL DEF RemindersInv

\* What RemindersTyped leaves out.
RemindersRest ==
    /\ booking \in [AllBookings -> Booking]
    /\ lostClaims \subseteq Claims
    /\ reminderTrouble \in 0 .. MaxReminderTrouble

LEMMA RemindersRestKept ==
    ASSUME RemindersInv, RemindersRest, RemindersNext PROVE RemindersRest'
  <1>0. /\ booking \in [AllBookings -> Booking] /\ claimed \subseteq Claims
        /\ lostClaims \subseteq Claims /\ reminderTrouble \in 0 .. MaxReminderTrouble
        /\ MaxReminderTrouble \in Nat
    BY RemindersAssumption DEF RemindersInv, RemindersTyped, RemindersRest
  <1>1. ReminderTrouble => reminderTrouble' \in 0 .. MaxReminderTrouble
    BY <1>0 DEF ReminderTrouble
  <1>2. ASSUME NEW b \in AllBookings,
               MakeBooking(b) \/ ReturnLoan(b) \/ CancelSlot(b) \/ BookingAges(b)
        PROVE  RemindersRest'
    <2>1. PICK row \in Booking : booking' = [booking EXCEPT ![b] = row]
      <3>1. booking[b] \in Booking
        BY <1>0
      <3>2. CASE MakeBooking(b)
        <4>1. \A late \in BOOLEAN : [booking[b] EXCEPT !.open = "open", !.late = late] \in Booking
          BY <3>1 DEF Booking
        <4>2. (booking[b].age > 0) \in BOOLEAN
          OBVIOUS
        <4>3. [booking[b] EXCEPT !.open = "open", !.late = booking[b].age > 0] \in Booking
          BY <4>1, <4>2, Zenon
        <4> QED BY <1>0, <3>2, <4>3 DEF MakeBooking
      <3>3. CASE ReturnLoan(b)
        <4>1. [booking[b] EXCEPT !.open = "returned"] \in Booking
          BY <3>1 DEF Booking
        <4> QED BY <1>0, <3>3, <4>1 DEF ReturnLoan
      <3>4. CASE CancelSlot(b)
        <4>1. [booking[b] EXCEPT !.open = "none"] \in Booking
          BY <3>1 DEF Booking
        <4> QED BY <1>0, <3>4, <4>1 DEF CancelSlot
      <3>5. CASE BookingAges(b)
        <4>1. [booking[b] EXCEPT !.age = @ + 1] \in Booking
          BY <3>1, <3>5 DEF BookingAges, Booking, LastAge
        <4> QED BY <1>0, <3>5, <4>1 DEF BookingAges
      <3> QED BY <1>2, <3>2, <3>3, <3>4, <3>5
    <2>2. booking' \in [AllBookings -> Booking]
      BY <1>0, <2>1
    <2>3. lostClaims' \subseteq lostClaims /\ reminderTrouble' = reminderTrouble
      BY <1>2 DEF MakeBooking, ReturnLoan, CancelSlot, BookingAges
    <2> QED BY <1>0, <2>2, <2>3 DEF RemindersRest
  <1>3. ASSUME NEW r \in Replicas, SendDueReminders(r) \/ release(r) PROVE RemindersRest'
    BY <1>0, <1>3 DEF SendDueReminders, claim, release, RemindersRest
  <1>4. ASSUME NEW r \in Replicas, ClaimQueryFails(r) \/ TickStops(r) PROVE RemindersRest'
    BY <1>0, <1>1, <1>4 DEF ClaimQueryFails, TickStops, RemindersRest
  <1>5. ASSUME NEW r \in Replicas, NEW c \in Claims, sendReminder(r, c) \/ PushRefused(r, c)
        PROVE  RemindersRest'
    BY <1>0, <1>1, <1>5 DEF sendReminder, PushRefused, RemindersRest
  <1> QED BY <1>2, <1>3, <1>4, <1>5 DEF RemindersNext

\* Reservations, claims and ticks keep their types, for any number of reservations and replicas.
THEOREM RemindersStayTyped == RemindersSpec => []RemindersTypeOK
  <1>1. RemindersInit => RemindersRest
    BY RemindersAssumption DEF RemindersInit, RemindersRest, NoBooking, Booking, LastAge
  <1>2. RemindersInv /\ RemindersRest /\ [RemindersNext]_reminderVars => RemindersRest'
    BY RemindersRestKept DEF reminderVars, RemindersRest
  <1>3. RemindersInv /\ RemindersRest => RemindersTypeOK
    BY DEF RemindersInv, RemindersTyped, RemindersRest, RemindersTypeOK
  <1> QED BY <1>1, <1>2, <1>3, RemindersInvariant, PTL DEF RemindersSpec

-----------------------------------------------------------------------------
(* Events *)

EventsTyped ==
    /\ event \in [EventIds -> Event]
    /\ attendees \in [EventIds -> SUBSET People]
    /\ marked \subseteq EventIds
    /\ eventPushes \in [EventIds \X PushKinds -> 0 .. 2]
    /\ request \in [People -> Request]
    /\ scheduler \in [Schedulers -> Scheduler]

\* A mark that is there, or about to be, has its reminder.
MarksAreReminded ==
    /\ \A k \in EventIds \X PushKinds : eventPushes[k] <= 1
    /\ \A e \in marked : eventPushes[<< e, "event_reminder_1h" >>] = 1
    /\ \A s \in Schedulers : \A e \in scheduler[s].mark :
          eventPushes[<< e, "event_reminder_1h" >>] = 1

Leaves(p, e) == request[p].op = "leave" /\ request[p].at = e

\* The creator attends and is not about to leave; nobody attends or leaves what is not
\* created, so that a new event does not inherit a request.
CreatorsStay ==
    /\ \A e \in EventIds : event[e].st = "unused" =>
          attendees[e] = {} /\ \A p \in People : ~Leaves(p, e)
    /\ \A e \in EventIds : Live(e) /\ e \notin adminTouched \cup slippedOut =>
          event[e].creator \in attendees[e] /\ ~Leaves(event[e].creator, e)

EventsInv == EventsTyped /\ MarksAreReminded /\ CreatorsStay

LEMMA NoRequestTyped == NoRequest \in Request /\ NoRequest.op = "none"
  BY EventsAssumption DEF NoRequest, Request

LEMMA Asked ==
    ASSUME EventsTyped, NEW p \in People, NEW q \in Request, Asks(p, q)
    PROVE  /\ request' \in [People -> Request]
           /\ \A o \in People : request'[o] = IF o = p THEN q ELSE request[o]
  BY DEF EventsTyped, Asks

LEMMA Queued1 ==
    ASSUME EventsTyped, MarksAreReminded, NEW e \in EventIds, NEW k \in PushKinds, QueueEvent(e, k)
    PROVE  /\ eventPushes' \in [EventIds \X PushKinds -> 0 .. 2]
           /\ eventPushes'[<< e, k >>] = 1
           /\ \A j \in EventIds \X PushKinds :
                 eventPushes'[j] <= 1 /\ (eventPushes[j] = 1 => eventPushes'[j] = 1)
  <1>1. << e, k >> \in EventIds \X PushKinds
    OBVIOUS
  <1>2. eventPushes[<< e, k >>] \in 0 .. 2 /\ eventPushes[<< e, k >>] <= 1
    BY <1>1 DEF EventsTyped, MarksAreReminded
  <1>3. eventPushes' = [eventPushes EXCEPT ![<< e, k >>] = 1]
    <2>1. (IF eventPushes[<< e, k >>] = 0 THEN 1 ELSE eventPushes[<< e, k >>]) = 1
      BY <1>2
    <2> QED BY <2>1 DEF QueueEvent
  <1> QED BY <1>1, <1>3 DEF EventsTyped, MarksAreReminded

\* More pushes, and no mark that is not in the hands of a scheduler or stored.
LEMMA RemindersKept ==
    ASSUME EventsTyped, MarksAreReminded,
           \A j \in EventIds \X PushKinds :
              eventPushes'[j] <= 1 /\ (eventPushes[j] = 1 => eventPushes'[j] = 1),
           \A e \in marked' : e \in marked \/ \E s \in Schedulers : e \in scheduler[s].mark,
           \A s \in Schedulers : scheduler'[s].mark \subseteq scheduler[s].mark
    PROVE  MarksAreReminded'
  <1>1. "event_reminder_1h" \in PushKinds
    BY DEF PushKinds
  <1>2. \A s \in Schedulers : scheduler[s].mark \subseteq EventIds
    BY DEF EventsTyped, Scheduler
  <1>3. marked \subseteq EventIds
    BY DEF EventsTyped
  <1>4. \A e \in EventIds : << e, "event_reminder_1h" >> \in EventIds \X PushKinds
    BY <1>1
  <1>5. ASSUME NEW e \in EventIds, eventPushes[<< e, "event_reminder_1h" >>] = 1
        PROVE  eventPushes'[<< e, "event_reminder_1h" >>] = 1
    BY <1>4, <1>5
  <1>6. ASSUME NEW e \in marked' PROVE eventPushes'[<< e, "event_reminder_1h" >>] = 1
    BY <1>2, <1>3, <1>5, <1>6 DEF MarksAreReminded
  <1>7. ASSUME NEW s \in Schedulers, NEW e \in scheduler'[s].mark
        PROVE  eventPushes'[<< e, "event_reminder_1h" >>] = 1
    BY <1>2, <1>5, <1>7 DEF MarksAreReminded
  <1> QED BY <1>6, <1>7 DEF MarksAreReminded

\* Steps that queue nothing and mark nothing.
LEMMA RemindersAlone ==
    ASSUME EventsTyped, MarksAreReminded, eventPushes' = eventPushes, scheduler' = scheduler,
           marked' \subseteq marked
    PROVE  MarksAreReminded'
  BY DEF MarksAreReminded

\* The events es go.
LEMMA Dropped ==
    ASSUME EventsTyped, CreatorsStay, NEW es \in SUBSET EventIds, Drop(es),
           request' = request \/ \E p \in People : Asks(p, NoRequest),
           UNCHANGED << adminTouched, slippedOut >>
    PROVE  /\ event' \in [EventIds -> Event] /\ attendees' \in [EventIds -> SUBSET People]
           /\ marked' \subseteq marked /\ request' \in [People -> Request]
           /\ CreatorsStay'
  <1>1. \A e \in EventIds : /\ event[e] \in Event
                            /\ [event[e] EXCEPT !.st = "gone"] \in Event
                            /\ [event[e] EXCEPT !.st = "gone"].st = "gone"
    BY DEF EventsTyped, Event
  <1>2. /\ event' = [e \in EventIds |-> IF e \in es THEN [event[e] EXCEPT !.st = "gone"] ELSE event[e]]
        /\ attendees' = [e \in EventIds |-> IF e \in es THEN {} ELSE attendees[e]]
        /\ marked' = marked \ es
    BY DEF Drop
  <1>3. event' \in [EventIds -> Event] /\ attendees' \in [EventIds -> SUBSET People]
    BY <1>1, <1>2 DEF EventsTyped
  <1>4. /\ request' \in [People -> Request]
        /\ \A o \in People, e \in EventIds : Leaves(o, e)' => Leaves(o, e)
    BY Asked, NoRequestTyped DEF EventsTyped, Leaves
  <1>5. \A e \in EventIds : IF e \in es THEN event'[e].st = "gone"
                            ELSE event'[e] = event[e] /\ attendees'[e] = attendees[e]
    BY <1>1, <1>2
  <1>6. \A e \in EventIds : event[e].creator \in People
    BY <1>1 DEF Event
  <1> QED BY <1>2, <1>3, <1>4, <1>5, <1>6 DEF CreatorsStay, Live

LEMMA RequestsKeepEvents ==
    ASSUME EventsInv, NEW p \in People, NEW e \in EventIds,
           \/ JoinEvent(p, e) \/ LeaveEvent(p, e)
           \/ \E op \in {"update", "delete"} : CreatorAsks(p, e, op)
    PROVE  EventsInv'
  <1> USE DEF EventsInv
  <1>1. PICK op \in {"join", "leave", "update", "delete"} : Asks(p, [op |-> op, at |-> e])
    BY DEF JoinEvent, LeaveEvent, CreatorAsks
  <1>2. [op |-> op, at |-> e] \in Request
    BY DEF Request
  <1>3. /\ request' \in [People -> Request]
        /\ \A o \in People : request'[o] = IF o = p THEN [op |-> op, at |-> e] ELSE request[o]
    BY <1>1, <1>2, Asked
  <1>4. /\ UNCHANGED << event, attendees, marked, eventPushes, scheduler, adminTouched >>
        /\ slippedOut \subseteq slippedOut'
    BY DEF JoinEvent, LeaveEvent, CreatorAsks
  <1>5. op = "leave" => /\ p \in attendees[e]
                        /\ event[e].creator = p => e \in slippedOut'
    <2>1. ASSUME op = "leave", ~LeaveEvent(p, e) PROVE FALSE
      <3>1. PICK o \in {"join", "update", "delete"} : Asks(p, [op |-> o, at |-> e])
        BY <2>1 DEF JoinEvent, CreatorAsks
      <3>2. request'[p].op = o /\ request'[p].op = "leave"
        <4>1. [op |-> o, at |-> e] \in Request
          BY DEF Request
        <4> QED BY <1>3, <2>1, <3>1, <4>1, Asked
      <3> QED BY <3>2
    <2> QED BY <2>1 DEF LeaveEvent
  <1>6. \A o \in People, f \in EventIds :
           Leaves(o, f)' => Leaves(o, f) \/ (o = p /\ f = e /\ op = "leave")
    BY <1>3 DEF Leaves
  <1>7. \A f \in EventIds : event[f].creator \in People
    BY DEF EventsTyped, Event
  <1>8. CreatorsStay'
    BY <1>4, <1>5, <1>6, <1>7 DEF CreatorsStay, Live
  <1>9. MarksAreReminded'
    BY <1>4, RemindersAlone
  <1> QED BY <1>3, <1>4, <1>8, <1>9 DEF EventsTyped

LEMMA CreationKeepsEvents ==
    ASSUME EventsInv, NEW p \in People, NEW e \in EventIds,
           CreateEvent(p, e) \/ AdminCreateEvent(p, e)
    PROVE  EventsInv'
  <1> USE DEF EventsInv
  <1>0. "event_created" \in PushKinds
    BY DEF PushKinds
  <1>1. /\ event[e].st = "unused"
        /\ event' = [event EXCEPT ![e] = [st |-> "live", creator |-> p, start |-> "far"]]
        /\ UNCHANGED << marked, request, scheduler, slippedOut >>
        /\ \/ attendees' = [attendees EXCEPT ![e] = {p}] /\ adminTouched' = adminTouched
           \/ attendees' = attendees /\ adminTouched' = adminTouched \cup {e}
    BY DEF CreateEvent, AdminCreateEvent
  <1>2. [st |-> "live", creator |-> p, start |-> "far"] \in Event
    BY DEF Event
  <1>3. event' \in [EventIds -> Event] /\ attendees' \in [EventIds -> SUBSET People]
    BY <1>1, <1>2 DEF EventsTyped
  <1>4. CreatorsStay'
    <2>1. \A f \in EventIds : f # e =>
             /\ event'[f] = event[f] /\ attendees'[f] = attendees[f]
             /\ f \in adminTouched' <=> f \in adminTouched
      BY <1>1 DEF EventsTyped
    <2>2. event'[e].st = "live" /\ event'[e].creator = p
          /\ (e \in adminTouched' \/ attendees'[e] = {p})
      BY <1>1 DEF EventsTyped
    <2>3. \A o \in People, f \in EventIds : Leaves(o, f)' <=> Leaves(o, f)
      BY <1>1 DEF Leaves
    <2>4. ~Leaves(p, e)
      BY <1>1 DEF CreatorsStay
    <2>5. \A f \in EventIds : event[f].creator \in People
      BY DEF EventsTyped, Event
    <2> QED BY <1>1, <2>1, <2>2, <2>3, <2>4, <2>5 DEF CreatorsStay, Live
  <1>5. eventPushes' = eventPushes \/ QueueEvent(e, "event_created")
    BY DEF CreateEvent, AdminCreateEvent
  <1>6. MarksAreReminded' /\ eventPushes' \in [EventIds \X PushKinds -> 0 .. 2]
    <2>1. CASE eventPushes' = eventPushes
      BY <1>1, <2>1, RemindersAlone DEF EventsTyped
    <2>2. CASE QueueEvent(e, "event_created")
      BY <1>0, <1>1, <2>2, Queued1, RemindersKept
    <2> QED BY <1>5, <2>1, <2>2
  <1> QED BY <1>1, <1>3, <1>4, <1>6 DEF EventsTyped

LEMMA WritesKeepEvents ==
    ASSUME EventsInv, NEW p \in People, FinishJoin(p) \/ FinishLeave(p) \/ FinishUpdate(p) \/ FinishDelete(p)
    PROVE  EventsInv'
  <1> USE DEF EventsInv
  <1> DEFINE at == request[p].at
  <1>0. /\ at \in EventIds /\ UNCHANGED << eventPushes, scheduler, adminTouched, slippedOut >>
        /\ Asks(p, NoRequest)
    BY DEF FinishJoin, FinishLeave, FinishUpdate, FinishDelete, EventsTyped, Request
  <1>1. request' \in [People -> Request]
        /\ \A o \in People, f \in EventIds : Leaves(o, f)' => Leaves(o, f)
    BY <1>0, Asked, NoRequestTyped DEF Leaves
  <1>2. \A f \in EventIds : event[f] \in Event /\ event[f].creator \in People
    BY DEF EventsTyped, Event
  <1>3. CASE FinishJoin(p)
    <2>1. \A f \in EventIds : attendees'[f] = IF f = at /\ Live(f) THEN attendees[f] \cup {p}
                                              ELSE attendees[f]
      BY <1>0, <1>3 DEF FinishJoin, EventsTyped
    <2>2. event' = event /\ marked' = marked /\ attendees' \in [EventIds -> SUBSET People]
      BY <1>0, <1>3 DEF FinishJoin, EventsTyped
    <2>3. CreatorsStay'
      BY <1>0, <1>1, <1>2, <2>1, <2>2 DEF CreatorsStay, Live
    <2> QED BY <1>0, <1>1, <2>2, <2>3, RemindersAlone DEF EventsTyped
  <1>4. CASE FinishLeave(p)
    <2>1. \A f \in EventIds : attendees'[f] = IF f = at THEN attendees[f] \ {p} ELSE attendees[f]
      BY <1>0, <1>4 DEF FinishLeave, EventsTyped
    <2>2. event' = event /\ marked' = marked /\ attendees' \in [EventIds -> SUBSET People]
      BY <1>0, <1>4 DEF FinishLeave, EventsTyped
    <2>3. Leaves(p, at)
      BY <1>4 DEF FinishLeave, Leaves
    <2>4. CreatorsStay'
      BY <1>0, <1>1, <1>2, <2>1, <2>2, <2>3 DEF CreatorsStay, Live
    <2> QED BY <1>0, <1>1, <2>2, <2>4, RemindersAlone DEF EventsTyped
  <1>5. CASE FinishUpdate(p)
    <2>1. PICK t \in {"far", "window", "near"} :
             event' = event \/ event' = [event EXCEPT ![at].start = t]
      BY <1>5 DEF FinishUpdate
    <2>2. /\ event' \in [EventIds -> Event]
          /\ \A f \in EventIds : event'[f].st = event[f].st /\ event'[f].creator = event[f].creator
      <3>1. CASE event' = event
        BY <3>1 DEF EventsTyped
      <3>2. CASE event' = [event EXCEPT ![at].start = t]
        <4>1. /\ [event[at] EXCEPT !.start = t] \in Event
              /\ [event[at] EXCEPT !.start = t].st = event[at].st
              /\ [event[at] EXCEPT !.start = t].creator = event[at].creator
          BY <1>0, <1>2 DEF Event
        <4>2. event' = [event EXCEPT ![at] = [event[at] EXCEPT !.start = t]]
          BY <3>2 DEF EventsTyped
        <4>3. \A f \in EventIds : event'[f] = IF f = at THEN [event[at] EXCEPT !.start = t]
                                              ELSE event[f]
          BY <1>0, <4>2 DEF EventsTyped
        <4>4. event' \in [EventIds -> Event]
          BY <1>0, <4>1, <4>2 DEF EventsTyped
        <4> QED BY <4>1, <4>3, <4>4
      <3> QED BY <2>1, <3>1, <3>2
    <2>3. attendees' = attendees /\ marked' = marked
      BY <1>5 DEF FinishUpdate
    <2>4. CreatorsStay'
      BY <1>0, <1>1, <1>2, <2>2, <2>3 DEF CreatorsStay, Live
    <2> QED BY <1>0, <1>1, <2>2, <2>3, <2>4, RemindersAlone DEF EventsTyped
  <1>6. CASE FinishDelete(p)
    <2>1. CASE Drop({at})
      <3>1. {at} \in SUBSET EventIds
        BY <1>0
      <3>2. /\ event' \in [EventIds -> Event] /\ attendees' \in [EventIds -> SUBSET People]
            /\ marked' \subseteq marked /\ CreatorsStay'
        BY <1>0, <2>1, <3>1, Dropped
      <3> QED BY <1>0, <1>1, <3>2, RemindersAlone DEF EventsTyped
    <2>2. CASE UNCHANGED << event, attendees, marked >>
      <3>1. CreatorsStay'
        BY <1>0, <1>1, <1>2, <2>2 DEF CreatorsStay, Live
      <3> QED BY <1>0, <1>1, <2>2, <3>1, RemindersAlone DEF EventsTyped
    <2> QED BY <1>6, <2>1, <2>2 DEF FinishDelete
  <1> QED BY <1>3, <1>4, <1>5, <1>6

LEMMA AdministrationKeepsEvents ==
    ASSUME EventsInv,
           \/ \E p \in People, e \in EventIds : AdminUpdateEvent(p, e)
           \/ \E e \in EventIds : AdminDeleteEvent(e) \/ EventApproaches(e)
           \/ DeleteHost
    PROVE  EventsInv'
  <1> USE DEF EventsInv
  <1>r. \A o \in People, f \in EventIds : request' = request => (Leaves(o, f)' <=> Leaves(o, f))
    BY DEF Leaves
  <1>e. \A f \in EventIds : event[f] \in Event /\ event[f].creator \in People
    BY DEF EventsTyped, Event
  <1>1. ASSUME NEW p \in People, NEW e \in EventIds, AdminUpdateEvent(p, e) PROVE EventsInv'
    <2>1. PICK t \in {"far", "window", "near"} :
             event' = [event EXCEPT ![e].creator = p, ![e].start = t]
      BY <1>1 DEF AdminUpdateEvent
    <2>2. [event[e] EXCEPT !.creator = p, !.start = t] \in Event
          /\ [event[e] EXCEPT !.creator = p, !.start = t].st = event[e].st
          /\ [event[e] EXCEPT !.creator = p, !.start = t].creator = p
      BY <1>e DEF Event
    <2>3. event' = [event EXCEPT ![e] = [event[e] EXCEPT !.creator = p, !.start = t]]
      BY <2>1 DEF EventsTyped
    <2>4. \A f \in EventIds : event'[f] = IF f = e THEN [event[e] EXCEPT !.creator = p, !.start = t]
                                          ELSE event[f]
      BY <2>3 DEF EventsTyped
    <2>5. event' \in [EventIds -> Event]
      BY <2>2, <2>3 DEF EventsTyped
    <2>6. /\ UNCHANGED << attendees, marked, eventPushes, request, scheduler, slippedOut >>
          /\ adminTouched \subseteq adminTouched'
          /\ event[e].creator = p \/ e \in adminTouched'
      BY <1>1 DEF AdminUpdateEvent
    <2>7. CreatorsStay'
      <3> HIDE DEF EventsInv
      <3>0. CreatorsStay
        BY DEF EventsInv
      <3>1. ASSUME NEW f \in EventIds
            PROVE  /\ event'[f].st = event[f].st
                   /\ event'[f].creator = event[f].creator \/ f \in adminTouched'
        BY <2>2, <2>4, <2>6
      <3> QED BY <1>e, <1>r, <2>6, <3>0, <3>1 DEF CreatorsStay, Live
    <2> QED BY <2>5, <2>6, <2>7, RemindersAlone DEF EventsTyped
  <1>2. ASSUME NEW es \in SUBSET EventIds, Drop(es),
               UNCHANGED << eventPushes, request, scheduler, adminTouched, slippedOut >>
        PROVE  EventsInv'
    <2>1. /\ event' \in [EventIds -> Event] /\ attendees' \in [EventIds -> SUBSET People]
          /\ marked' \subseteq marked /\ CreatorsStay'
      BY <1>2, Dropped
    <2> QED BY <1>2, <2>1, RemindersAlone DEF EventsTyped
  <1>3. ASSUME NEW e \in EventIds, AdminDeleteEvent(e) PROVE EventsInv'
    BY <1>2, <1>3 DEF AdminDeleteEvent
  <1>4. CASE DeleteHost
    BY <1>2, <1>4 DEF DeleteHost
  <1>5. ASSUME NEW e \in EventIds, EventApproaches(e) PROVE EventsInv'
    <2>1. PICK t \in {"far", "window", "near"} : event' = [event EXCEPT ![e].start = t]
      BY <1>5 DEF EventApproaches
    <2>r. /\ [event[e] EXCEPT !.start = t] \in Event
          /\ [event[e] EXCEPT !.start = t].st = event[e].st
          /\ [event[e] EXCEPT !.start = t].creator = event[e].creator
      BY <1>e DEF Event
    <2>p. event' = [event EXCEPT ![e] = [event[e] EXCEPT !.start = t]]
      BY <2>1 DEF EventsTyped
    <2>2. /\ event' \in [EventIds -> Event]
          /\ \A f \in EventIds : event'[f].st = event[f].st /\ event'[f].creator = event[f].creator
      <3>1. \A f \in EventIds : event'[f] = IF f = e THEN [event[e] EXCEPT !.start = t]
                                            ELSE event[f]
        BY <2>p DEF EventsTyped
      <3>2. event' \in [EventIds -> Event]
        BY <2>r, <2>p DEF EventsTyped
      <3> QED BY <2>r, <3>1, <3>2
    <2>3. UNCHANGED << attendees, marked, eventPushes, request, scheduler, slippedOut, adminTouched >>
      BY <1>5 DEF EventApproaches
    <2>4. CreatorsStay'
      BY <1>e, <1>r, <2>2, <2>3 DEF CreatorsStay, Live
    <2> QED BY <2>2, <2>3, <2>4, RemindersAlone DEF EventsTyped
  <1> QED BY <1>1, <1>3, <1>4, <1>5

LEMMA TicksKeepEvents ==
    ASSUME EventsInv, NEW s \in Schedulers,
           \/ FindEvents(s) \/ markNotificationSent(s) \/ SchedulerStops(s)
           \/ \E e \in EventIds : RemindEvent(s, e)
    PROVE  EventsInv'
  <1> USE DEF EventsInv
  <1>0. /\ UNCHANGED << event, attendees, request, adminTouched, slippedOut >>
        /\ CreatorsStay'
    <2>1. UNCHANGED << event, attendees, request, adminTouched, slippedOut >>
      BY DEF FindEvents, markNotificationSent, SchedulerStops, RemindEvent
    <2> QED BY <2>1 DEF CreatorsStay, Live, Leaves
  <1>1. scheduler \in [Schedulers -> Scheduler] /\ scheduler[s].todo \subseteq EventIds
        /\ scheduler[s].mark \subseteq EventIds
    BY DEF EventsTyped, Scheduler
  <1>2. ASSUME NEW S \in SUBSET EventIds
        PROVE  /\ [scheduler[s] EXCEPT !.todo = S] \in Scheduler
               /\ [scheduler[s] EXCEPT !.todo = S].mark = scheduler[s].mark
               /\ [scheduler[s] EXCEPT !.mark = S] \in Scheduler
               /\ [scheduler[s] EXCEPT !.mark = S].mark = S
    BY <1>1 DEF Scheduler
  <1>3. NoEventTick \in Scheduler /\ NoEventTick.mark = {}
    BY DEF NoEventTick, Scheduler
  <1>4. ASSUME NEW r \in Scheduler, r.mark \subseteq scheduler[s].mark,
               scheduler' = [scheduler EXCEPT ![s] = r],
               eventPushes' = eventPushes \/ \E e \in EventIds : QueueEvent(e, "event_reminder_1h"),
               marked' \subseteq EventIds,
               \A e \in marked' : e \in marked \/ e \in scheduler[s].mark
        PROVE  EventsInv'
    <2>1. scheduler' \in [Schedulers -> Scheduler]
          /\ \A t \in Schedulers : scheduler'[t].mark \subseteq scheduler[t].mark
      BY <1>1, <1>4
    <2>2. "event_reminder_1h" \in PushKinds
      BY DEF PushKinds
    <2>3. /\ eventPushes' \in [EventIds \X PushKinds -> 0 .. 2]
          /\ \A j \in EventIds \X PushKinds :
                eventPushes'[j] <= 1 /\ (eventPushes[j] = 1 => eventPushes'[j] = 1)
      <3>1. CASE eventPushes' = eventPushes
        BY <3>1 DEF EventsTyped, MarksAreReminded
      <3>2. ASSUME NEW e \in EventIds, QueueEvent(e, "event_reminder_1h")
            PROVE  /\ eventPushes' \in [EventIds \X PushKinds -> 0 .. 2]
                   /\ \A j \in EventIds \X PushKinds :
                         eventPushes'[j] <= 1 /\ (eventPushes[j] = 1 => eventPushes'[j] = 1)
        BY <2>2, <3>2, Queued1
      <3> QED BY <1>4, <3>1, <3>2
    <2>4. MarksAreReminded'
      BY <1>4, <2>1, <2>3, RemindersKept
    <2> QED BY <1>0, <1>4, <2>1, <2>3, <2>4 DEF EventsTyped
  <1>5. CASE FindEvents(s)
    <2> DEFINE S == {e \in EventIds : Live(e) /\ event[e].start = "window" /\ e \notin marked}
    <2>1. scheduler' = [scheduler EXCEPT ![s] = [scheduler[s] EXCEPT !.todo = S]]
      BY <1>5 DEF FindEvents
    <2>2. S \in SUBSET EventIds
      OBVIOUS
    <2> HIDE DEF S
    <2>3. [scheduler[s] EXCEPT !.todo = S] \in Scheduler
          /\ [scheduler[s] EXCEPT !.todo = S].mark = scheduler[s].mark
      BY <1>2, <2>2
    <2> QED BY <1>4, <1>5, <2>1, <2>3 DEF FindEvents, EventsTyped
  <1>6. CASE markNotificationSent(s)
    <2>1. scheduler' = [scheduler EXCEPT ![s] = [scheduler[s] EXCEPT !.mark = {}]]
      BY <1>6 DEF markNotificationSent
    <2>2. [scheduler[s] EXCEPT !.mark = {}] \in Scheduler /\ [scheduler[s] EXCEPT !.mark = {}].mark = {}
      BY <1>2
    <2>3. marked' \subseteq marked \cup scheduler[s].mark /\ eventPushes' = eventPushes
      BY <1>6 DEF markNotificationSent
    <2> QED BY <1>1, <1>4, <2>1, <2>2, <2>3 DEF EventsTyped
  <1>7. CASE SchedulerStops(s)
    BY <1>3, <1>4, <1>7 DEF SchedulerStops, EventsTyped
  <1>8. ASSUME NEW e \in EventIds, RemindEvent(s, e) PROVE EventsInv'
    <2>0. /\ scheduler[s].mark = {} /\ marked' = marked
          /\ eventPushes' = eventPushes \/ QueueEvent(e, "event_reminder_1h")
      BY <1>8 DEF RemindEvent
    <2>1. CASE scheduler' = [scheduler EXCEPT ![s].todo = @ \ {e}]
      <3>1. scheduler' = [scheduler EXCEPT ![s] = [scheduler[s] EXCEPT !.todo = scheduler[s].todo \ {e}]]
        BY <2>1
      <3>2. scheduler[s].todo \ {e} \in SUBSET EventIds
        BY <1>1
      <3>3. /\ [scheduler[s] EXCEPT !.todo = scheduler[s].todo \ {e}] \in Scheduler
            /\ [scheduler[s] EXCEPT !.todo = scheduler[s].todo \ {e}].mark = scheduler[s].mark
        BY <1>2, <3>2
      <3> QED BY <1>4, <2>0, <3>1, <3>3 DEF EventsTyped
    <2>2. CASE QueueEvent(e, "event_reminder_1h")
               /\ scheduler' = [scheduler EXCEPT ![s].todo = @ \ {e}, ![s].mark = {e}]
      <3> DEFINE r == [scheduler[s] EXCEPT !.todo = scheduler[s].todo \ {e}, !.mark = {e}]
      <3>1. r \in Scheduler /\ r.mark = {e}
        BY <1>1 DEF Scheduler
      <3>2. scheduler' = [scheduler EXCEPT ![s] = r]
        BY <2>2
      <3>3. "event_reminder_1h" \in PushKinds
        BY DEF PushKinds
      <3> HIDE DEF r
      <3>4. scheduler' \in [Schedulers -> Scheduler]
            /\ \A t \in Schedulers : scheduler'[t] = IF t = s THEN r ELSE scheduler[t]
        BY <1>1, <3>1, <3>2
      <3>5. /\ eventPushes' \in [EventIds \X PushKinds -> 0 .. 2]
            /\ eventPushes'[<< e, "event_reminder_1h" >>] = 1
            /\ \A j \in EventIds \X PushKinds :
                  eventPushes'[j] <= 1 /\ (eventPushes[j] = 1 => eventPushes'[j] = 1)
        BY <2>2, <3>3, Queued1
      <3>6. \A f \in EventIds : << f, "event_reminder_1h" >> \in EventIds \X PushKinds
        BY <3>3
      <3>7. ASSUME NEW t \in Schedulers, NEW f \in scheduler'[t].mark
            PROVE  eventPushes'[<< f, "event_reminder_1h" >>] = 1
        <4>1. CASE t = s
          BY <3>1, <3>4, <3>5, <3>7, <4>1
        <4>2. CASE t # s
          <5>1. f \in scheduler[t].mark /\ f \in EventIds
            BY <1>1, <3>4, <3>7, <4>2 DEF Scheduler
          <5>2. eventPushes[<< f, "event_reminder_1h" >>] = 1
            BY <5>1 DEF MarksAreReminded
          <5> QED BY <3>5, <3>6, <5>1, <5>2
        <4> QED BY <4>1, <4>2
      <3>8. ASSUME NEW f \in marked PROVE eventPushes'[<< f, "event_reminder_1h" >>] = 1
        <4>1. f \in EventIds /\ eventPushes[<< f, "event_reminder_1h" >>] = 1
          BY DEF EventsTyped, MarksAreReminded
        <4> QED BY <3>5, <3>6, <4>1
      <3>9. MarksAreReminded'
        BY <2>0, <3>5, <3>7, <3>8 DEF MarksAreReminded
      <3> QED BY <1>0, <2>0, <3>4, <3>5, <3>9 DEF EventsTyped
    <2> QED BY <1>8, <2>1, <2>2 DEF RemindEvent
  <1> QED BY <1>5, <1>6, <1>7, <1>8

LEMMA EventsInvariant == EventsSpec => []EventsInv
  <1>1. EventsInit => EventsInv
    <2> SUFFICES ASSUME EventsInit PROVE EventsInv
      OBVIOUS
    <2>1. EventsTyped
      BY EventsAssumption, NoRequestTyped
      DEF EventsInit, EventsTyped, Event, Scheduler, NoEventTick
    <2>2. MarksAreReminded
      BY DEF EventsInit, MarksAreReminded, NoEventTick
    <2>3. CreatorsStay
      BY NoRequestTyped DEF EventsInit, CreatorsStay, Leaves, Live
    <2> QED BY <2>1, <2>2, <2>3 DEF EventsInv
  <1>2. EventsInv /\ [EventsNext]_eventVars => EventsInv'
    <2>1. EventsInv /\ UNCHANGED eventVars => EventsInv'
      BY DEF eventVars, EventsInv, EventsTyped, MarksAreReminded, CreatorsStay, Live, Leaves
    <2> QED BY <2>1, RequestsKeepEvents, CreationKeepsEvents, WritesKeepEvents,
               AdministrationKeepsEvents, TicksKeepEvents DEF EventsNext
  <1> QED BY <1>1, <1>2, PTL DEF EventsSpec

\* An event is reminded of once and marked only after that, for any number of schedulers,
\* lost answers and ticks that stop (checkAndSendEventNotifications, markNotificationSent).
THEOREM EventsRemindedOnce == EventsSpec => []EventRemindedOnce
  <1>1. EventsInv => EventRemindedOnce
    BY DEF EventsInv, MarksAreReminded, EventRemindedOnce, EventsTyped
  <1> QED BY <1>1, EventsInvariant, PTL

\* However many people join, leave, update and delete at the same time, an event made in
\* the application has an attendee, its creator (LeaveEvent, DeleteEvent).
THEOREM CreatorsKeepTheirEvents == EventsSpec => []CreatorsCanDelete
  <1>1. EventsInv => CreatorsCanDelete
    BY DEF EventsInv, CreatorsStay, CreatorsCanDelete
  <1> QED BY <1>1, EventsInvariant, PTL

\* What EventsTyped leaves out.
EventsRest ==
    /\ host \in BOOLEAN
    /\ adminTouched \subseteq EventIds /\ slippedOut \subseteq EventIds
    /\ eventMoves \in 0 .. MaxEventMoves
    /\ eventTrouble \in 0 .. MaxEventTrouble

LEMMA EventsRestKept ==
    ASSUME EventsRest, EventsNext PROVE EventsRest'
  <1>0. MaxEventMoves \in Nat /\ MaxEventTrouble \in Nat
    BY EventsAssumption
  <1>1. EventTrouble => eventTrouble' \in 0 .. MaxEventTrouble
    BY <1>0 DEF EventTrouble, EventsRest
  <1>2. EventMoves => eventMoves' \in 0 .. MaxEventMoves
    BY <1>0 DEF EventMoves, EventsRest
  <1>3. ASSUME NEW p \in People, NEW e \in EventIds,
               \/ CreateEvent(p, e) \/ JoinEvent(p, e) \/ LeaveEvent(p, e)
               \/ \E op \in {"update", "delete"} : CreatorAsks(p, e, op)
        PROVE  EventsRest'
    BY <1>1, <1>3 DEF CreateEvent, JoinEvent, LeaveEvent, CreatorAsks, EventsRest
  <1>4. ASSUME NEW p \in People, NEW e \in EventIds,
               AdminCreateEvent(p, e) \/ AdminUpdateEvent(p, e) \/ AdminDeleteEvent(e)
               \/ EventApproaches(e) \/ DeleteHost
        PROVE  EventsRest'
    BY <1>2, <1>4 DEF AdminCreateEvent, AdminUpdateEvent, AdminDeleteEvent, EventApproaches,
                      DeleteHost, EventsRest
  <1>5. ASSUME NEW p \in People, FinishJoin(p) \/ FinishLeave(p) \/ FinishUpdate(p) \/ FinishDelete(p)
        PROVE  EventsRest'
    BY <1>2, <1>5 DEF FinishJoin, FinishLeave, FinishUpdate, FinishDelete, EventsRest
  <1>6. ASSUME NEW s \in Schedulers,
               \/ FindEvents(s) \/ markNotificationSent(s) \/ SchedulerStops(s)
               \/ \E e \in EventIds : RemindEvent(s, e)
        PROVE  EventsRest'
    BY <1>1, <1>6 DEF FindEvents, markNotificationSent, SchedulerStops, RemindEvent, EventsRest
  <1> QED BY <1>3, <1>4, <1>5, <1>6, EventsAssumption DEF EventsNext

\* Events, attendees, marks and requests keep their types, for any events, people and schedulers.
THEOREM EventsStayTyped == EventsSpec => []EventsTypeOK
  <1>1. EventsInit => EventsRest
    BY EventsAssumption DEF EventsInit, EventsRest
  <1>2. EventsRest /\ [EventsNext]_eventVars => EventsRest'
    BY EventsRestKept DEF eventVars, EventsRest
  <1>3. EventsInv /\ EventsRest => EventsTypeOK
    BY DEF EventsInv, EventsTyped, EventsRest, EventsTypeOK
  <1> QED BY <1>1, <1>2, <1>3, EventsInvariant, PTL DEF EventsSpec

\* What is marked exists, and a scheduler holds nothing that was never created.
MarkedIsLive == \A e \in marked : Live(e)
PendingIsCreated ==
    \A s \in Schedulers : \A e \in scheduler[s].todo \cup scheduler[s].mark : event[e].st # "unused"

LEMMA EventStands ==
    ASSUME EventsTyped, NEW e \in EventIds, NEW k \in PushKinds
    PROVE  EventStanding(e, k) =
              IF k = "event_reminder_1h" /\ e \in marked THEN "sent"
              ELSE IF event[e].st = "unused" THEN "unknown"
              ELSE IF Live(e) THEN "waiting" ELSE "gone"
  <1>1. event[e].st \in {"unused", "live", "gone"}
    BY DEF EventsTyped, Event
  <1>2. CASE event[e].st = "unused"
    BY <1>2 DEF EventStanding
  <1>3. CASE event[e].st = "live"
    BY <1>3 DEF EventStanding, Live
  <1>4. CASE event[e].st = "gone"
    BY <1>4 DEF EventStanding, Live
  <1> QED BY <1>1, <1>2, <1>3, <1>4

LEMMA AnnouncementParts ==
    /\ \A x \in Announcement : x[1] \in EventIds /\ x[2] \in PushKinds
    /\ \A e \in EventIds, k \in PushKinds :
          << e, k >> \in Announcement /\ << e, k >>[1] = e /\ << e, k >>[2] = k
    /\ \A x, y \in Announcement : x[1] = y[1] /\ x[2] = y[2] => x = y
    /\ "event_created" \in PushKinds /\ "event_reminder_1h" \in PushKinds
  BY DEF Announcement, PushKinds

\* A step that changes no standing, mark or push is not seen from outside.
EventQuietly ==
    /\ \A e \in EventIds : event'[e].st = event[e].st
    /\ UNCHANGED << marked, eventPushes >>

LEMMA EventBoxRests ==
    ASSUME EventQuietly PROVE UNCHANGED EventBox!outboxVars
  <1>1. \A x \in Announcement : EventStanding(x[1], x[2])' = EventStanding(x[1], x[2])
    BY AnnouncementParts DEF EventQuietly, EventStanding
  <1> QED BY <1>1 DEF EventQuietly, EventBox!outboxVars

\* The steps of the requests and of the administration that only ask, or change who comes or when.
LEMMA AskingIsQuiet ==
    ASSUME EventsTyped, NEW p \in People, NEW e \in EventIds,
           \/ JoinEvent(p, e) \/ LeaveEvent(p, e) \/ AdminUpdateEvent(p, e) \/ EventApproaches(e)
           \/ \E op \in {"update", "delete"} : CreatorAsks(p, e, op)
           \/ FinishJoin(p) \/ FinishLeave(p) \/ FinishUpdate(p)
    PROVE  EventQuietly /\ scheduler' = scheduler
  <1>0. event \in [EventIds -> Event] /\ request[p].at \in EventIds
    BY DEF EventsTyped, Request
  <1>1. CASE \/ JoinEvent(p, e) \/ LeaveEvent(p, e) \/ FinishJoin(p) \/ FinishLeave(p)
             \/ \E op \in {"update", "delete"} : CreatorAsks(p, e, op)
    BY <1>1 DEF JoinEvent, LeaveEvent, CreatorAsks, FinishJoin, FinishLeave, EventQuietly
  <1>2. ASSUME NEW f \in EventIds, NEW r \in Event, event' = [event EXCEPT ![f] = r],
               r.st = event[f].st
        PROVE  \A g \in EventIds : event'[g].st = event[g].st
    BY <1>0, <1>2
  <1>3. ASSUME NEW f \in EventIds, NEW t
        PROVE  /\ [event[f] EXCEPT !.start = t].st = event[f].st
               /\ \A q : [event[f] EXCEPT !.creator = q, !.start = t].st = event[f].st
    BY <1>0 DEF Event
  <1>4. CASE AdminUpdateEvent(p, e)
    <2>1. PICK t \in {"far", "window", "near"} :
              event' = [event EXCEPT ![e].creator = p, ![e].start = t]
      BY <1>4 DEF AdminUpdateEvent
    <2>2. event'[e].st = event[e].st /\ \A g \in EventIds \ {e} : event'[g] = event[g]
      BY <1>0, <2>1 DEF Event
    <2> QED BY <1>4, <2>2 DEF AdminUpdateEvent, EventQuietly
  <1>5. CASE EventApproaches(e)
    <2>1. event'[e].st = event[e].st /\ \A g \in EventIds \ {e} : event'[g] = event[g]
      BY <1>0, <1>5 DEF EventApproaches, Event
    <2> QED BY <1>5, <2>1 DEF EventApproaches, EventQuietly
  <1>6. CASE FinishUpdate(p)
    <2> DEFINE f == request[p].at
    <2>1. event'[f].st = event[f].st /\ \A g \in EventIds \ {f} : event'[g] = event[g]
      <3>1. CASE event' = event
        BY <3>1
      <3>2. ASSUME NEW t, event' = [event EXCEPT ![f].start = t]
            PROVE  event'[f].st = event[f].st /\ \A g \in EventIds \ {f} : event'[g] = event[g]
        BY <1>0, <3>2 DEF Event
      <3> QED BY <1>6, <3>1, <3>2 DEF FinishUpdate
    <2>2. \A g \in EventIds : event'[g].st = event[g].st
      BY <1>0, <2>1
    <2> QED BY <1>6, <2>2 DEF FinishUpdate, EventQuietly
  <1> QED BY <1>1, <1>4, <1>5, <1>6

\* What is created was not there, and is announced at once, later or never.
LEMMA CreatedOutside ==
    ASSUME EventsInv, MarkedIsLive, NEW p \in People, NEW e \in EventIds,
           CreateEvent(p, e) \/ AdminCreateEvent(p, e)
    PROVE  /\ EventBox!OutboxNext
           /\ \A f \in EventIds : event'[f].st = IF f = e THEN "live" ELSE event[f].st
           /\ UNCHANGED << marked, scheduler >>
  <1>0. /\ event \in [EventIds -> Event] /\ event[e].st = "unused" /\ e \notin marked
        /\ EventsTyped /\ eventPushes \in [Announcement -> 0 .. 1]
    BY DEF EventsInv, EventsTyped, MarkedIsLive, Live, CreateEvent, AdminCreateEvent,
           MarksAreReminded, Announcement
  <1>1. \A f \in EventIds : event'[f].st = IF f = e THEN "live" ELSE event[f].st
    BY <1>0 DEF CreateEvent, AdminCreateEvent
  <1>2. UNCHANGED << marked, scheduler >>
    BY DEF CreateEvent, AdminCreateEvent
  <1>3. PICK S \in SUBSET Announcement : S = {x \in Announcement : x[1] = e}
    OBVIOUS
  <1>4. \A x \in Announcement :
           /\ x \in S => EventStanding(x[1], x[2]) = "unknown"
           /\ EventStanding(x[1], x[2])' =
                 IF x \in S THEN "waiting" ELSE EventStanding(x[1], x[2])
    <2> SUFFICES ASSUME NEW x \in Announcement
                 PROVE  /\ x \in S => EventStanding(x[1], x[2]) = "unknown"
                        /\ EventStanding(x[1], x[2])' =
                              IF x \in S THEN "waiting" ELSE EventStanding(x[1], x[2])
      OBVIOUS
    <2>1. x[1] \in EventIds /\ x[2] \in PushKinds /\ (x \in S <=> x[1] = e)
      BY <1>3, AnnouncementParts
    <2>2. CASE x[1] = e
      BY <1>0, <1>1, <1>2, <2>1, <2>2 DEF EventStanding
    <2>3. CASE x[1] # e
      BY <1>1, <1>2, <2>1, <2>3 DEF EventStanding
    <2> QED BY <2>1, <2>2, <2>3
  <1>5. PICK now \in SUBSET S :
           eventPushes' = [x \in Announcement |-> IF x \in now THEN 1 ELSE eventPushes[x]]
    <2>1. CASE eventPushes' = eventPushes
      <3>1. eventPushes' = [x \in Announcement |-> IF x \in {} THEN 1 ELSE eventPushes[x]]
        BY <1>0, <2>1
      <3>2. {} \in SUBSET S
        OBVIOUS
      <3> QED BY <3>1, <3>2
    <2>2. CASE QueueEvent(e, "event_created")
      <3>1. PICK y \in Announcement : y = << e, "event_created" >> /\ y[1] = e
        BY AnnouncementParts
      <3>2. eventPushes' = [x \in Announcement |-> IF x \in {y} THEN 1 ELSE eventPushes[x]]
        <4>1. eventPushes[y] \in 0 .. 1
          BY <1>0
        <4>2. eventPushes' = [eventPushes EXCEPT ![y] = IF eventPushes[y] = 0 THEN 1 ELSE eventPushes[y]]
          BY <2>2, <3>1 DEF QueueEvent
        <4>3. (IF eventPushes[y] = 0 THEN 1 ELSE eventPushes[y]) = 1
          BY <4>1
        <4>4. eventPushes' = [eventPushes EXCEPT ![y] = 1]
          BY <4>2, <4>3
        <4> QED BY <1>0, <4>4
      <3>3. {y} \in SUBSET S
        BY <1>3, <3>1
      <3> QED BY <3>2, <3>3
    <2> QED BY <2>1, <2>2 DEF CreateEvent, AdminCreateEvent
  <1>6. EventBox!Enter(S, now, {})
    BY <1>4, <1>5 DEF EventBox!Enter
  <1>7. {} \in SUBSET Announcement
    OBVIOUS
  <1> QED BY <1>1, <1>2, <1>6, <1>7 DEF EventBox!OutboxNext

LEMMA EventBoxMoves ==
    ASSUME NEW S \in SUBSET Announcement, EventBox!RecordSent(S) \/ EventBox!Withdraw(S)
    PROVE  EventBox!OutboxNext
  <1>1. \E T \in SUBSET Announcement :
            EventBox!RecordSent(T) \/ EventBox!GiveUp(T) \/ EventBox!Withdraw(T)
    <2> WITNESS S \in SUBSET Announcement
    <2> QED OBVIOUS
  <1> QED BY <1>1 DEF EventBox!OutboxNext

\* The events that go take their announcements with them.
LEMMA DroppedOutside ==
    ASSUME EventsTyped, NEW es \in SUBSET EventIds, Drop(es), eventPushes' = eventPushes,
           \A e \in es : event[e].st # "unused"
    PROVE  /\ EventBox!OutboxNext
           /\ \A f \in EventIds : event'[f].st = IF f \in es THEN "gone" ELSE event[f].st
           /\ marked' = marked \ es
  <1>0. event \in [EventIds -> Event] /\ marked' = marked \ es
    BY DEF EventsTyped, Drop
  <1>1. \A f \in EventIds : event'[f].st = IF f \in es THEN "gone" ELSE event[f].st
    <2>1. \A f \in EventIds : [event[f] EXCEPT !.st = "gone"].st = "gone"
      BY <1>0 DEF Event
    <2> QED BY <2>1 DEF Drop
  <1>2. PICK S \in SUBSET Announcement : S = {x \in Announcement : x[1] \in es}
    OBVIOUS
  <1>3. \A x \in Announcement :
           /\ x \in S => EventStanding(x[1], x[2]) # "unknown"
           /\ EventStanding(x[1], x[2])' = IF x \in S THEN "gone" ELSE EventStanding(x[1], x[2])
    <2> SUFFICES ASSUME NEW x \in Announcement
                 PROVE  /\ x \in S => EventStanding(x[1], x[2]) # "unknown"
                        /\ EventStanding(x[1], x[2])' =
                              IF x \in S THEN "gone" ELSE EventStanding(x[1], x[2])
      OBVIOUS
    <2>1. x[1] \in EventIds /\ x[2] \in PushKinds /\ (x \in S <=> x[1] \in es)
      BY <1>2, AnnouncementParts
    <2>2. CASE x[1] \in es
      <3>1. EventStanding(x[1], x[2]) # "unknown"
        BY <2>1, <2>2, EventStands
      <3>2. x[1] \notin marked' /\ event'[x[1]].st = "gone"
        BY <1>0, <1>1, <2>1, <2>2
      <3> QED BY <2>1, <2>2, <3>1, <3>2 DEF EventStanding
    <2>3. CASE x[1] \notin es
      BY <1>0, <1>1, <2>1, <2>3 DEF EventStanding
    <2> QED BY <2>1, <2>2, <2>3
  <1>4. EventBox!Withdraw(S)
    BY <1>3 DEF EventBox!Withdraw, EventBox!Stand
  <1> QED BY <1>0, <1>1, <1>4, EventBoxMoves

\* A reminder is queued, once, for an event that was created.
LEMMA RemindedOutside ==
    ASSUME EventsInv, PendingIsCreated, NEW s \in Schedulers, NEW e \in EventIds, RemindEvent(s, e)
    PROVE  [EventBox!OutboxNext]_(EventBox!outboxVars)
  <1>0. /\ EventsTyped /\ eventPushes \in [Announcement -> 0 .. 1] /\ event[e].st # "unused"
        /\ UNCHANGED << event, marked >>
    BY DEF EventsInv, EventsTyped, MarksAreReminded, Announcement, PendingIsCreated, RemindEvent
  <1>1. PICK y \in Announcement :
           y = << e, "event_reminder_1h" >> /\ y[1] = e /\ y[2] = "event_reminder_1h"
    BY AnnouncementParts
  <1>2. CASE eventPushes' = eventPushes
    BY <1>0, <1>2, EventBoxRests DEF EventQuietly
  <1>3. CASE eventPushes' # eventPushes
    <2>1. QueueEvent(e, "event_reminder_1h")
      BY <1>3 DEF RemindEvent
    <2>2. eventPushes[y] \in 0 .. 1
      BY <1>0
    <2>3. eventPushes' = [eventPushes EXCEPT ![y] = IF eventPushes[y] = 0 THEN 1 ELSE eventPushes[y]]
      BY <1>1, <2>1 DEF QueueEvent
    <2>4. eventPushes[y] = 0 /\ eventPushes' = [eventPushes EXCEPT ![y] = 1]
      BY <1>0, <1>3, <2>2, <2>3
    <2>5. EventStanding(y[1], y[2]) \notin {"unknown", "set_aside"}
      BY <1>0, <1>1, EventStands, AnnouncementParts
    <2>6. \A x \in Announcement : EventStanding(x[1], x[2])' = EventStanding(x[1], x[2])
      BY <1>0 DEF EventStanding
    <2>7. EventBox!Tell(y)
      BY <2>4, <2>5, <2>6 DEF EventBox!Tell
    <2> QED BY <2>7 DEF EventBox!OutboxNext
  <1> QED BY <1>2, <1>3

\* What is marked was waiting and reminded of.
LEMMA MarkedOutside ==
    ASSUME EventsInv, NEW s \in Schedulers, markNotificationSent(s)
    PROVE  [EventBox!OutboxNext]_(EventBox!outboxVars)
  <1>0. EventsTyped /\ UNCHANGED << event, eventPushes >>
    BY DEF EventsInv, markNotificationSent
  <1>1. CASE marked' = marked
    BY <1>0, <1>1, EventBoxRests DEF EventQuietly
  <1>2. CASE marked' = marked \cup {e \in scheduler[s].mark : Live(e)}
    <2>1. PICK S \in SUBSET Announcement :
             S = {x \in Announcement : /\ x[2] = "event_reminder_1h"
                                       /\ x[1] \in marked' \ marked}
      OBVIOUS
    <2>2. \A x \in Announcement :
             /\ x \in S => EventStanding(x[1], x[2]) = "waiting" /\ eventPushes[x] = 1
             /\ EventStanding(x[1], x[2])' = IF x \in S THEN "sent" ELSE EventStanding(x[1], x[2])
      <3> SUFFICES ASSUME NEW x \in Announcement
                   PROVE  /\ x \in S => EventStanding(x[1], x[2]) = "waiting" /\ eventPushes[x] = 1
                          /\ EventStanding(x[1], x[2])' =
                                IF x \in S THEN "sent" ELSE EventStanding(x[1], x[2])
        OBVIOUS
      <3>0. x[1] \in EventIds /\ x[2] \in PushKinds /\ x = << x[1], x[2] >>
        <4>1. PICK e \in EventIds, k \in PushKinds : x = << e, k >>
          BY DEF Announcement
        <4> QED BY <4>1
      <3>1. /\ x[1] \in EventIds /\ x[2] \in PushKinds /\ x = << x[1], x[2] >>
            /\ x \in S <=> (x[2] = "event_reminder_1h" /\ x[1] \in marked' \ marked)
        BY <2>1, <3>0
      <3>2. CASE x \in S
        <4>1. x[1] \in scheduler[s].mark /\ Live(x[1]) /\ x[1] \notin marked /\ x[1] \in marked'
          BY <1>2, <3>1, <3>2
        <4>2. eventPushes[x] = 1
          <5>1. eventPushes[<< x[1], "event_reminder_1h" >>] = 1
            BY <4>1 DEF EventsInv, MarksAreReminded
          <5> QED BY <3>1, <3>2, <5>1
        <4>3. EventStanding(x[1], x[2]) = "waiting"
          BY <1>0, <3>1, <4>1, EventStands DEF Live
        <4>4. EventStanding(x[1], x[2])' = "sent"
          BY <3>1, <3>2 DEF EventStanding
        <4> QED BY <3>2, <4>2, <4>3, <4>4
      <3>3. CASE x \notin S
        <4>1. x[2] = "event_reminder_1h" => (x[1] \in marked' <=> x[1] \in marked)
          BY <1>2, <3>1, <3>3
        <4> QED BY <1>0, <3>3, <4>1 DEF EventStanding
      <3> QED BY <3>2, <3>3
    <2>3. EventBox!RecordSent(S)
      BY <1>0, <2>2 DEF EventBox!RecordSent, EventBox!Stand
    <2> QED BY <2>3, EventBoxMoves
  <1> QED BY <1>1, <1>2 DEF markNotificationSent

\* Every step: what it is from outside, and that marks and schedulers name existing events.
LEMMA EventStepsOutside ==
    ASSUME EventsInv, MarkedIsLive, PendingIsCreated, EventsNext
    PROVE  /\ [EventBox!OutboxNext]_(EventBox!outboxVars)
           /\ MarkedIsLive' /\ PendingIsCreated'
  <1>0. /\ EventsTyped /\ scheduler \in [Schedulers -> Scheduler] /\ marked \subseteq EventIds
        /\ \A s \in Schedulers : scheduler[s].todo \subseteq EventIds /\ scheduler[s].mark \subseteq EventIds
    BY DEF EventsInv, EventsTyped, Scheduler
  <1>1. ASSUME \A f \in EventIds : /\ event[f].st # "unused" => event'[f].st # "unused"
                                   /\ f \in marked' => event'[f].st = "live",
               marked' \subseteq marked, scheduler' = scheduler
        PROVE  MarkedIsLive' /\ PendingIsCreated'
    BY <1>0, <1>1 DEF MarkedIsLive, PendingIsCreated, Live
  <1>2. ASSUME NEW p \in People, NEW e \in EventIds,
               \/ JoinEvent(p, e) \/ LeaveEvent(p, e) \/ AdminUpdateEvent(p, e) \/ EventApproaches(e)
               \/ \E op \in {"update", "delete"} : CreatorAsks(p, e, op)
               \/ FinishJoin(p) \/ FinishLeave(p) \/ FinishUpdate(p)
        PROVE  /\ [EventBox!OutboxNext]_(EventBox!outboxVars)
               /\ MarkedIsLive' /\ PendingIsCreated'
    <2>1. EventQuietly /\ scheduler' = scheduler
      BY <1>0, <1>2, AskingIsQuiet
    <2> QED BY <1>1, <2>1, EventBoxRests DEF EventQuietly, MarkedIsLive, Live
  <1>3. ASSUME NEW p \in People, NEW e \in EventIds, CreateEvent(p, e) \/ AdminCreateEvent(p, e)
        PROVE  /\ [EventBox!OutboxNext]_(EventBox!outboxVars)
               /\ MarkedIsLive' /\ PendingIsCreated'
    <2>1. /\ EventBox!OutboxNext
          /\ \A f \in EventIds : event'[f].st = IF f = e THEN "live" ELSE event[f].st
          /\ UNCHANGED << marked, scheduler >>
      BY <1>3, CreatedOutside
    <2> QED BY <1>1, <2>1 DEF MarkedIsLive, Live
  <1>4. ASSUME NEW es \in SUBSET EventIds, Drop(es), UNCHANGED << eventPushes, scheduler >>,
               \A e \in es : event[e].st # "unused"
        PROVE  /\ [EventBox!OutboxNext]_(EventBox!outboxVars)
               /\ MarkedIsLive' /\ PendingIsCreated'
    <2>1. /\ EventBox!OutboxNext
          /\ \A f \in EventIds : event'[f].st = IF f \in es THEN "gone" ELSE event[f].st
          /\ marked' = marked \ es
      BY <1>0, <1>4, DroppedOutside
    <2> QED BY <1>1, <1>4, <2>1 DEF MarkedIsLive, Live
  <1>5. ASSUME NEW p \in People, FinishDelete(p)
        PROVE  /\ [EventBox!OutboxNext]_(EventBox!outboxVars)
               /\ MarkedIsLive' /\ PendingIsCreated'
    <2>1. request[p].at \in EventIds
      BY <1>0 DEF EventsTyped, Request
    <2>2. CASE attendees[request[p].at] # {}
      <3>1. event[request[p].at].st # "unused"
        BY <2>1, <2>2 DEF EventsInv, CreatorsStay
      <3>2. Drop({request[p].at}) /\ UNCHANGED << eventPushes, scheduler >>
        BY <1>5, <2>2 DEF FinishDelete
      <3>3. PICK es \in SUBSET EventIds : es = {request[p].at}
        BY <2>1
      <3> QED BY <1>4, <3>1, <3>2, <3>3
    <2>3. CASE attendees[request[p].at] = {}
      <3>1. EventQuietly /\ scheduler' = scheduler
        BY <1>5, <2>3 DEF FinishDelete, EventQuietly
      <3> QED BY <1>1, <3>1, EventBoxRests DEF EventQuietly, MarkedIsLive, Live
    <2> QED BY <2>2, <2>3
  <1>6. ASSUME DeleteHost \/ \E e \in EventIds : AdminDeleteEvent(e)
        PROVE  /\ [EventBox!OutboxNext]_(EventBox!outboxVars)
               /\ MarkedIsLive' /\ PendingIsCreated'
    <2>1. PICK es \in SUBSET EventIds :
             Drop(es) /\ UNCHANGED << eventPushes, scheduler >> /\ \A e \in es : Live(e)
      <3>1. CASE DeleteHost
        <4>1. PICK es \in SUBSET EventIds : es = {e \in EventIds : Live(e)}
          OBVIOUS
        <4> QED BY <3>1, <4>1 DEF DeleteHost
      <3>2. ASSUME NEW e \in EventIds, AdminDeleteEvent(e)
            PROVE  \E es \in SUBSET EventIds :
                     Drop(es) /\ UNCHANGED << eventPushes, scheduler >> /\ \A f \in es : Live(f)
        <4>1. {e} \in SUBSET EventIds /\ Drop({e}) /\ \A f \in {e} : Live(f)
          BY <3>2 DEF AdminDeleteEvent
        <4>2. UNCHANGED << eventPushes, scheduler >>
          BY <3>2 DEF AdminDeleteEvent
        <4> QED BY <4>1, <4>2
      <3> QED BY <1>6, <3>1, <3>2
    <2> QED BY <1>4, <2>1 DEF Live
  <1>7. ASSUME NEW s \in Schedulers, UNCHANGED event, marked' \subseteq marked \cup scheduler[s].mark,
               \A e \in marked' : e \in marked \/ Live(e), NEW r,
               scheduler' = [scheduler EXCEPT ![s] = r],
               \A e \in r.todo \cup r.mark : e \in scheduler[s].todo \cup scheduler[s].mark \/ Live(e)
        PROVE  MarkedIsLive' /\ PendingIsCreated'
    <2>1. \A t \in Schedulers : scheduler'[t] = IF t = s THEN r ELSE scheduler[t]
      BY <1>0, <1>7
    <2> QED BY <1>7, <2>1 DEF MarkedIsLive, PendingIsCreated, Live
  <1>8. ASSUME NEW s \in Schedulers, FindEvents(s) \/ SchedulerStops(s)
        PROVE  /\ [EventBox!OutboxNext]_(EventBox!outboxVars)
               /\ MarkedIsLive' /\ PendingIsCreated'
    <2>1. EventQuietly /\ UNCHANGED << event, marked >>
      BY <1>8 DEF FindEvents, SchedulerStops, EventQuietly
    <2>2. PICK r : /\ scheduler' = [scheduler EXCEPT ![s] = r]
                   /\ \A e \in r.todo \cup r.mark :
                         e \in scheduler[s].todo \cup scheduler[s].mark \/ Live(e)
      <3>1. CASE SchedulerStops(s)
        <4>1. NoEventTick.todo = {} /\ NoEventTick.mark = {}
          BY DEF NoEventTick
        <4> QED BY <3>1, <4>1 DEF SchedulerStops
      <3>2. CASE FindEvents(s)
        <4>1. PICK S : /\ S = {e \in EventIds : Live(e) /\ event[e].start = "window" /\ e \notin marked}
                       /\ scheduler' = [scheduler EXCEPT ![s] = [scheduler[s] EXCEPT !.todo = S]]
          BY <3>2 DEF FindEvents
        <4>2. /\ [scheduler[s] EXCEPT !.todo = S].todo = S
              /\ [scheduler[s] EXCEPT !.todo = S].mark = scheduler[s].mark
          BY <1>0 DEF Scheduler
        <4> QED BY <4>1, <4>2
      <3> QED BY <1>8, <3>1, <3>2
    <2> QED BY <1>7, <2>1, <2>2, EventBoxRests
  <1>9. ASSUME NEW s \in Schedulers, markNotificationSent(s)
        PROVE  /\ [EventBox!OutboxNext]_(EventBox!outboxVars)
               /\ MarkedIsLive' /\ PendingIsCreated'
    <2>1. /\ UNCHANGED event /\ marked' \subseteq marked \cup scheduler[s].mark
          /\ \A e \in marked' : e \in marked \/ Live(e)
          /\ scheduler' = [scheduler EXCEPT ![s] = [scheduler[s] EXCEPT !.mark = {}]]
      BY <1>9 DEF markNotificationSent
    <2>2. /\ [scheduler[s] EXCEPT !.mark = {}].todo = scheduler[s].todo
          /\ [scheduler[s] EXCEPT !.mark = {}].mark = {}
      BY <1>0 DEF Scheduler
    <2> QED BY <1>7, <1>9, <2>1, <2>2, MarkedOutside
  <1>10. ASSUME NEW s \in Schedulers, NEW e \in EventIds, RemindEvent(s, e)
         PROVE  /\ [EventBox!OutboxNext]_(EventBox!outboxVars)
                /\ MarkedIsLive' /\ PendingIsCreated'
    <2>1. UNCHANGED << event, marked >> /\ e \in scheduler[s].todo
      BY <1>10 DEF RemindEvent
    <2>2. PICK r : /\ scheduler' = [scheduler EXCEPT ![s] = r]
                   /\ \A f \in r.todo \cup r.mark :
                         f \in scheduler[s].todo \cup scheduler[s].mark \/ Live(f)
      <3>1. PICK M \in SUBSET EventIds :
               /\ M = {e} \/ M = scheduler[s].mark
               /\ scheduler' = [scheduler EXCEPT ![s] =
                                  [scheduler[s] EXCEPT !.todo = scheduler[s].todo \ {e}, !.mark = M]]
        <4>1. /\ {e} \in SUBSET EventIds /\ scheduler[s].mark \in SUBSET EventIds
              /\ [scheduler[s] EXCEPT !.todo = scheduler[s].todo \ {e}, !.mark = scheduler[s].mark]
                 = [scheduler[s] EXCEPT !.todo = scheduler[s].todo \ {e}]
          BY <1>0 DEF Scheduler
        <4> QED BY <1>10, <4>1 DEF RemindEvent
      <3>2. /\ [scheduler[s] EXCEPT !.todo = scheduler[s].todo \ {e}, !.mark = M].todo
               = scheduler[s].todo \ {e}
            /\ [scheduler[s] EXCEPT !.todo = scheduler[s].todo \ {e}, !.mark = M].mark = M
        BY <1>0 DEF Scheduler
      <3>3. \A f \in (scheduler[s].todo \ {e}) \cup M :
               f \in scheduler[s].todo \cup scheduler[s].mark
        BY <2>1, <3>1
      <3> QED BY <3>1, <3>2, <3>3
    <2>3. marked' \subseteq marked \cup scheduler[s].mark /\ \A f \in marked' : f \in marked
      BY <2>1
    <2>4. MarkedIsLive' /\ PendingIsCreated'
      BY <1>7, <2>1, <2>2, <2>3
    <2> QED BY <1>10, <2>4, RemindedOutside
  <1>11. ASSUME NEW p \in People,
                \/ \E e \in EventIds :
                      \/ CreateEvent(p, e) \/ JoinEvent(p, e) \/ LeaveEvent(p, e)
                      \/ \E op \in {"update", "delete"} : CreatorAsks(p, e, op)
                      \/ AdminCreateEvent(p, e) \/ AdminUpdateEvent(p, e)
                \/ FinishJoin(p) \/ FinishLeave(p) \/ FinishUpdate(p) \/ FinishDelete(p)
         PROVE  /\ [EventBox!OutboxNext]_(EventBox!outboxVars)
                /\ MarkedIsLive' /\ PendingIsCreated'
    <2>1. PICK f \in EventIds : TRUE
      BY EventsAssumption
    <2> QED BY <1>2, <1>3, <1>5, <1>11, <2>1
  <1>12. ASSUME NEW e \in EventIds, EventApproaches(e)
         PROVE  /\ [EventBox!OutboxNext]_(EventBox!outboxVars)
                /\ MarkedIsLive' /\ PendingIsCreated'
    <2>1. PICK p \in People : TRUE
      BY EventsAssumption
    <2> QED BY <1>2, <1>12, <2>1
  <1> QED BY <1>6, <1>8, <1>9, <1>10, <1>11, <1>12 DEF EventsNext

\* The events implement Outbox, for any people and schedulers: the creation and the hour before
\* are announced once each and never before the event exists, and a mark comes after its reminder
\* and goes only with the event (CreateEvent, RemindEvent, markNotificationSent, Drop).
THEOREM EventsImplementTheOutbox == EventsSpec => EventsKeepTheOutbox
  <1>1. EventsInit => MarkedIsLive /\ PendingIsCreated /\ EventBox!OutboxInit
    <2> SUFFICES ASSUME EventsInit PROVE MarkedIsLive /\ PendingIsCreated /\ EventBox!OutboxInit
      OBVIOUS
    <2>1. /\ marked = {} /\ eventPushes = [x \in Announcement |-> 0]
          /\ \A e \in EventIds : event[e].st = "unused"
      BY DEF EventsInit, Announcement
    <2>2. \A s \in Schedulers : scheduler[s].todo = {} /\ scheduler[s].mark = {}
      BY DEF EventsInit, NoEventTick
    <2>3. \A x \in Announcement : EventStanding(x[1], x[2]) = "unknown"
      BY <2>1, AnnouncementParts DEF EventStanding
    <2> QED BY <2>1, <2>2, <2>3 DEF MarkedIsLive, PendingIsCreated, EventBox!OutboxInit
  <1>2. EventsInv /\ MarkedIsLive /\ PendingIsCreated /\ [EventsNext]_eventVars
        => MarkedIsLive' /\ PendingIsCreated'
    BY EventStepsOutside DEF eventVars, MarkedIsLive, PendingIsCreated, Live
  <1>3. EventsInv /\ MarkedIsLive /\ PendingIsCreated /\ [EventsNext]_eventVars
        => [EventBox!OutboxNext]_(EventBox!outboxVars)
    <2>1. UNCHANGED eventVars => UNCHANGED EventBox!outboxVars
      BY EventBoxRests DEF eventVars, EventQuietly
    <2> QED BY <2>1, EventStepsOutside
  <1> QED BY <1>1, <1>2, <1>3, EventsInvariant, PTL
          DEF EventsSpec, EventsKeepTheOutbox, EventBox!OutboxSpec

-----------------------------------------------------------------------------
(* Responsibles of clubs *)

\* Only roles that were made have holders, only clubs there are have members; a club that did
\* not take its role over made it, and is alone with it.
RolesAreMade ==
    /\ \A h \in holders : h[2] \in clubRoles
    /\ \A m \in members : LiveClub(m[2])
    /\ \A c \in ClubIds \ adopted : LiveClub(c) => RoleOf(club[c]) \in clubRoles
    /\ \A c, d \in ClubIds : LiveClub(c) /\ LiveClub(d) /\ RoleOf(club[c]) = RoleOf(club[d])
                             /\ c \notin adopted => c = d

\* Whoever is leaving was not responsible when asked, and is not made so unnoticed since.
LeaversAreFree ==
    \A p \in Folk : dealing[p].op = "leave" =>
        /\ club[dealing[p].at] # NoName
        /\ dealing[p].at \notin adopted /\ Responsible(p, dealing[p].at)
              => << p, RoleOf(club[dealing[p].at]) >> \in crossed

ClubsInv == ClubsTypeOK /\ RolesAreMade /\ LeaversAreFree /\ ResponsiblesAreMembers

LEMMA NoDealingTyped == Folk # {} => NoDealing \in Dealing /\ NoDealing.op = "none"
  <1>1. RoleNames # {}
    BY ClubsAssumption DEF RoleNames
  <1> QED BY <1>1, ClubsAssumption DEF NoDealing, Dealing

\* A request comes or goes; nobody begins to leave.
LEMMA DealingKeepsClubs ==
    ASSUME ClubsInv, NEW p \in Folk, NEW d \in Dealing, Deals(p, d), d.op # "leave",
           UNCHANGED << club, clubRoles, holders, members, adopted, crossed, renames >>
    PROVE  ClubsInv'
  <1>1. dealing' \in [Folk -> Dealing] /\ dealing'[p] = d
        /\ \A q \in Folk \ {p} : dealing'[q] = dealing[q]
    BY DEF ClubsInv, ClubsTypeOK, Deals
  <1>2. ClubsTypeOK'
    BY <1>1 DEF ClubsInv, ClubsTypeOK
  <1>3. RolesAreMade' /\ ResponsiblesAreMembers'
    BY DEF ClubsInv, RolesAreMade, ResponsiblesAreMembers, LiveClub, Responsible
  <1>4. LeaversAreFree'
    BY <1>1 DEF ClubsInv, LeaversAreFree, LiveClub, Responsible
  <1> QED BY <1>2, <1>3, <1>4 DEF ClubsInv

LEMMA ChecksKeepClubs ==
    ASSUME ClubsInv, NEW p \in Folk, NEW c \in ClubIds,
           \/ UpdateClub(p, c) \/ JoinClub(p, c)
           \/ \E q \in Folk : AddClubRespo(p, c, q) \/ RemoveClubRespo(p, c, q)
    PROVE  ClubsInv'
  <1>1. NoDealing \in Dealing
    BY NoDealingTyped
  <1>2. ASSUME NEW op \in {"update", "join"}
        PROVE  /\ [NoDealing EXCEPT !.op = op, !.at = c] \in Dealing
               /\ [NoDealing EXCEPT !.op = op, !.at = c].op # "leave"
    BY <1>1 DEF Dealing
  <1>3. CASE UpdateClub(p, c) \/ JoinClub(p, c)
    BY <1>2, <1>3, DealingKeepsClubs DEF UpdateClub, JoinClub, DealsOn
  <1>4. LiveClub(c) => RoleOf(club[c]) \in RoleNames
    BY DEF LiveClub, RoleNames
  <1>5. ASSUME NEW q \in Folk, NEW op \in {"grant", "member", "remove"}, LiveClub(c)
        PROVE  /\ [op |-> op, at |-> c, to |-> q, role |-> RoleOf(club[c])] \in Dealing
               /\ [op |-> op, at |-> c, to |-> q, role |-> RoleOf(club[c])].op # "leave"
    BY <1>4, <1>5 DEF Dealing
  <1>6. ASSUME NEW q \in Folk, AddClubRespo(p, c, q) \/ RemoveClubRespo(p, c, q)
        PROVE  ClubsInv'
    <2>1. LiveClub(c)
      BY <1>6 DEF AddClubRespo, RemoveClubRespo, MayManage
    <2>2. PICK op \in {"grant", "member", "remove"} :
             /\ Deals(p, [op |-> op, at |-> c, to |-> q, role |-> RoleOf(club[c])])
             /\ UNCHANGED << club, clubRoles, holders, members, adopted, crossed, renames >>
      BY <1>6 DEF AddClubRespo, RemoveClubRespo
    <2> QED BY <1>5, <2>1, <2>2, DealingKeepsClubs
  <1> QED BY <1>3, <1>6

\* A club that takes a name shares the role with those that are marked with it.
LEMMA AdoptingKeepsClubs ==
    ASSUME ClubsInv, NEW c \in ClubIds, NEW n \in ClubNames, Adopt(c, n),
           club' = [club EXCEPT ![c] = n],
           UNCHANGED << clubRoles, holders, members, crossed >>,
           dealing' \in [Folk -> Dealing],
           \A q \in Folk : dealing'[q].op = "leave" => dealing'[q] = dealing[q],
           renames' \in 0 .. MaxRenames
    PROVE  ClubsInv'
  <1>1. /\ club' \in [ClubIds -> ClubNames \cup {NoName, GoneName}]
        /\ club'[c] = n /\ \A d \in ClubIds \ {c} : club'[d] = club[d]
    BY DEF ClubsInv, ClubsTypeOK
  <1>2. /\ adopted' \subseteq ClubIds /\ adopted \subseteq adopted' /\ c \in adopted'
        /\ \A d \in ClubIds : LiveClub(d) /\ RoleOf(club[d]) = RoleOf(n) => d \in adopted'
    BY DEF Adopt, ClubsInv, ClubsTypeOK
  <1>3. ClubsTypeOK'
    BY <1>1, <1>2 DEF ClubsInv, ClubsTypeOK
  <1>4. RolesAreMade'
    <2>1. \A m \in members : LiveClub(m[2])'
      BY <1>1 DEF ClubsInv, ClubsTypeOK, RolesAreMade, LiveClub
    <2>2. \A d \in ClubIds \ adopted' : LiveClub(d)' => RoleOf(club'[d]) \in clubRoles
      BY <1>1, <1>2 DEF ClubsInv, RolesAreMade, LiveClub
    <2>3. \A d, e \in ClubIds : LiveClub(d)' /\ LiveClub(e)' /\ RoleOf(club'[d]) = RoleOf(club'[e])
                                /\ d \notin adopted' => d = e
      <3> SUFFICES ASSUME NEW d \in ClubIds, NEW e \in ClubIds, LiveClub(d)', LiveClub(e)',
                          RoleOf(club'[d]) = RoleOf(club'[e]), d \notin adopted'
                   PROVE  d = e
        OBVIOUS
      <3>1. d # c /\ d \notin adopted /\ club'[d] = club[d] /\ LiveClub(d)
        BY <1>1, <1>2 DEF LiveClub
      <3>2. e # c
        BY <1>1, <1>2, <3>1
      <3>3. club'[e] = club[e] /\ LiveClub(e)
        BY <1>1, <3>2 DEF LiveClub
      <3> QED BY <3>1, <3>3 DEF ClubsInv, RolesAreMade
    <2> QED BY <2>1, <2>2, <2>3 DEF ClubsInv, RolesAreMade
  <1>5. LeaversAreFree'
    <2> SUFFICES ASSUME NEW q \in Folk, dealing'[q].op = "leave"
                 PROVE  /\ club'[dealing'[q].at] # NoName
                        /\ dealing'[q].at \notin adopted' /\ Responsible(q, dealing[q].at)'
                              => << q, RoleOf(club'[dealing'[q].at]) >> \in crossed'
      BY DEF LeaversAreFree
    <2>1. dealing'[q] = dealing[q] /\ dealing[q].at \in ClubIds
      BY DEF ClubsInv, ClubsTypeOK, Dealing
    <2>2. club'[dealing[q].at] # NoName
      BY <1>1, <2>1, ClubsAssumption DEF ClubsInv, LeaversAreFree
    <2>3. CASE dealing[q].at = c
      BY <1>2, <2>1, <2>2, <2>3
    <2>4. CASE dealing[q].at # c
      <3>1. club'[dealing[q].at] = club[dealing[q].at]
        BY <1>1, <2>1, <2>4
      <3>2. Responsible(q, dealing[q].at)' => Responsible(q, dealing[q].at)
        BY <2>1, <3>1 DEF Responsible, LiveClub
      <3> QED BY <1>2, <2>1, <2>2, <3>1, <3>2 DEF ClubsInv, LeaversAreFree
    <2> QED BY <2>3, <2>4
  <1>6. ResponsiblesAreMembers'
    BY <1>1, <1>2 DEF ClubsInv, ResponsiblesAreMembers, Responsible, LiveClub
  <1> QED BY <1>3, <1>4, <1>5, <1>6 DEF ClubsInv

LEMMA NamesKeepClubs ==
    ASSUME ClubsInv,
           \/ \E p \in Folk : FinishUpdateClub(p)
           \/ \E c \in ClubIds, n \in ClubNames : AdminCreateClub(c, n) \/ AdminUpdateClub(c, n)
    PROVE  ClubsInv'
  <1>1. renames \in 0 .. MaxRenames /\ MaxRenames \in Nat /\ dealing \in [Folk -> Dealing]
    BY ClubsAssumption DEF ClubsInv, ClubsTypeOK
  <1>2. ASSUME NEW p \in Folk, FinishUpdateClub(p) PROVE ClubsInv'
    <2> DEFINE c == dealing[p].at
    <2>1. c \in ClubIds
      BY <1>1 DEF Dealing
    <2>2. NoDealing \in Dealing /\ NoDealing.op = "none"
      BY NoDealingTyped
    <2>3. dealing' \in [Folk -> Dealing]
          /\ \A q \in Folk : dealing'[q].op = "leave" => dealing'[q] = dealing[q]
      BY <1>1, <1>2, <2>2 DEF FinishUpdateClub, Deals
    <2>4. CASE UNCHANGED << club, adopted, renames >>
      BY <1>2, <2>2, <2>4, DealingKeepsClubs DEF FinishUpdateClub
    <2>5. CASE \E n \in ClubNames : club' = [club EXCEPT ![c] = n] /\ Adopt(c, n)
      <3>1. renames' \in 0 .. MaxRenames
        BY <1>1, <1>2 DEF FinishUpdateClub
      <3> QED BY <1>2, <2>1, <2>3, <2>5, <3>1, AdoptingKeepsClubs DEF FinishUpdateClub
    <2> QED BY <1>2, <2>4, <2>5 DEF FinishUpdateClub
  <1>3. ASSUME NEW c \in ClubIds, NEW n \in ClubNames, AdminCreateClub(c, n) \/ AdminUpdateClub(c, n)
        PROVE  ClubsInv'
    <2>1. renames' \in 0 .. MaxRenames
      BY <1>1, <1>3 DEF AdminCreateClub, AdminUpdateClub
    <2> QED BY <1>1, <1>3, <2>1, AdoptingKeepsClubs DEF AdminCreateClub, AdminUpdateClub
  <1> QED BY <1>2, <1>3

LEMMA CreationKeepsClubs ==
    ASSUME ClubsInv, NEW p \in Folk, NEW c \in ClubIds, NEW n \in ClubNames, CreateClub(p, c, n)
    PROVE  ClubsInv'
  <1>1. /\ club' \in [ClubIds -> ClubNames \cup {NoName, GoneName}]
        /\ club'[c] = n /\ \A d \in ClubIds \ {c} : club'[d] = club[d]
    BY DEF ClubsInv, ClubsTypeOK, CreateClub
  <1>2. ~LiveClub(c) /\ LiveClub(c)'
    BY <1>1, ClubsAssumption DEF LiveClub, CreateClub
  <1>3. \A h \in holders : h[2] # RoleOf(n)
    BY DEF ClubsInv, RolesAreMade, CreateClub
  <1>4. \A d \in ClubIds : LiveClub(d) /\ RoleOf(club[d]) = RoleOf(n) => d \in adopted
    BY DEF ClubsInv, RolesAreMade, CreateClub
  <1>5. /\ adopted \subseteq adopted' /\ adopted' \subseteq adopted \cup {c}
        /\ (\E d \in ClubIds : LiveClub(d) /\ RoleOf(club[d]) = RoleOf(n)) => c \in adopted'
    BY DEF CreateClub
  <1>6. ClubsTypeOK'
    <2>1. RoleOf(n) \in RoleNames
      BY DEF RoleNames
    <2> QED BY <1>1, <1>5, <2>1 DEF ClubsInv, ClubsTypeOK, CreateClub
  <1>7. RolesAreMade'
    <2>1. \A h \in holders' : h[2] \in clubRoles'
      BY DEF CreateClub, ClubsInv, RolesAreMade
    <2>2. \A m \in members' : LiveClub(m[2])'
      <3>1. \A d \in ClubIds : LiveClub(d) => LiveClub(d)'
        BY <1>1 DEF LiveClub
      <3>2. \A m \in members : m[2] \in ClubIds
        BY DEF ClubsInv, ClubsTypeOK
      <3> QED BY <1>2, <3>1, <3>2 DEF CreateClub, ClubsInv, RolesAreMade
    <2>3. \A d \in ClubIds \ adopted' : LiveClub(d)' => RoleOf(club'[d]) \in clubRoles'
      BY <1>1, <1>5 DEF CreateClub, ClubsInv, RolesAreMade, LiveClub
    <2>4. \A d, e \in ClubIds : LiveClub(d)' /\ LiveClub(e)' /\ RoleOf(club'[d]) = RoleOf(club'[e])
                                /\ d \notin adopted' => d = e
      <3> SUFFICES ASSUME NEW d \in ClubIds, NEW e \in ClubIds, LiveClub(d)', LiveClub(e)',
                          RoleOf(club'[d]) = RoleOf(club'[e]), d \notin adopted', d # e
                   PROVE  FALSE
        OBVIOUS
      <3>1. \A x \in ClubIds : LiveClub(x)' /\ x # c => LiveClub(x) /\ club'[x] = club[x]
        BY <1>1 DEF LiveClub
      <3>2. CASE d = c
        BY <1>1, <1>5, <3>1, <3>2
      <3>3. CASE e = c
        BY <1>1, <1>4, <1>5, <3>1, <3>3
      <3>4. CASE d # c /\ e # c
        BY <1>5, <3>1, <3>4 DEF ClubsInv, RolesAreMade
      <3> QED BY <3>2, <3>3, <3>4
    <2> QED BY <2>1, <2>2, <2>3, <2>4 DEF RolesAreMade
  <1>8. LeaversAreFree'
    <2> SUFFICES ASSUME NEW q \in Folk, dealing[q].op = "leave"
                 PROVE  /\ club'[dealing[q].at] # NoName
                        /\ dealing[q].at \notin adopted' /\ Responsible(q, dealing[q].at)'
                              => << q, RoleOf(club'[dealing[q].at]) >> \in crossed
      BY DEF LeaversAreFree, CreateClub
    <2> DEFINE a == dealing[q].at
    <2>1. a \in ClubIds /\ club[a] # NoName
      BY DEF ClubsInv, ClubsTypeOK, Dealing, LeaversAreFree
    <2>2. a # c /\ club'[a] = club[a]
      BY <1>1, <2>1 DEF CreateClub
    <2>3. ASSUME a \notin adopted', Responsible(q, a)'
          PROVE  << q, RoleOf(club'[a]) >> \in crossed
      <3>1. LiveClub(a) /\ a \notin adopted /\ << q, RoleOf(club[a]) >> \in holders'
        BY <1>5, <2>2, <2>3 DEF Responsible, LiveClub, CreateClub
      <3>2. RoleOf(club[a]) # RoleOf(n)
        BY <1>4, <2>1, <3>1
      <3>3. << q, RoleOf(club[a]) >> \in holders
        BY <3>1, <3>2 DEF CreateClub
      <3> QED BY <2>2, <3>1, <3>3 DEF ClubsInv, LeaversAreFree, Responsible
    <2> QED BY <2>1, <2>2, <2>3
  <1>9. ResponsiblesAreMembers'
    <2> SUFFICES ASSUME NEW q \in Folk, NEW d \in ClubIds \ adopted', Responsible(q, d)'
                 PROVE  \/ << q, d >> \in members'
                        \/ << q, RoleOf(club'[d]) >> \in crossed'
      BY DEF ResponsiblesAreMembers
    <2>1. CASE d = c
      <3>1. << q, RoleOf(n) >> \in holders'
        BY <1>1, <2>1 DEF Responsible
      <3>2. << q, RoleOf(n) >> \notin holders
        BY <1>3
      <3> QED BY <2>1, <3>1, <3>2 DEF CreateClub
    <2>2. CASE d # c
      <3>1. LiveClub(d) /\ d \notin adopted /\ club'[d] = club[d]
        BY <1>1, <1>5, <2>2 DEF Responsible, LiveClub
      <3>2. RoleOf(club[d]) # RoleOf(n)
        BY <1>4, <3>1
      <3>3. Responsible(q, d)
        BY <3>1, <3>2 DEF Responsible, CreateClub
      <3> QED BY <3>1, <3>3 DEF ClubsInv, ResponsiblesAreMembers, CreateClub
    <2> QED BY <2>1, <2>2
  <1> QED BY <1>6, <1>7, <1>8, <1>9 DEF ClubsInv

\* The role is given: to a member of the one club that has it, or across a change.
LEMMA GrantsKeepClubs ==
    ASSUME ClubsInv, NEW p \in Folk, GrantRole(p)
    PROVE  ClubsInv'
  <1> DEFINE d == dealing[p]
  <1>1. d \in Dealing /\ NoDealing \in Dealing /\ NoDealing.op = "none"
    BY NoDealingTyped DEF ClubsInv, ClubsTypeOK
  <1>2. CASE d.role \notin clubRoles
    BY <1>1, <1>2, DealingKeepsClubs DEF GrantRole
  <1>3. CASE d.role \in clubRoles
    <2>1. /\ holders' = holders \cup {<< d.to, d.role >>}
          /\ crossed \subseteq crossed' /\ crossed' \subseteq crossed \cup {<< d.to, d.role >>}
          /\ \/ << d.to, d.role >> \in crossed'
             \/ /\ LiveClub(d.at) /\ RoleOf(club[d.at]) = d.role
                /\ << d.to, d.at >> \in members /\ dealing[d.to].op # "leave"
      BY <1>3 DEF GrantRole
    <2>2. /\ dealing' \in [Folk -> Dealing] /\ dealing'[p].op = "none"
          /\ \A q \in Folk \ {p} : dealing'[q] = dealing[q]
      BY <1>1 DEF GrantRole, Deals, ClubsInv, ClubsTypeOK
    <2>3. ClubsTypeOK'
      BY <1>1, <2>1, <2>2 DEF ClubsInv, ClubsTypeOK, GrantRole, Dealing
    <2>4. RolesAreMade'
      BY <1>3, <2>1 DEF ClubsInv, RolesAreMade, GrantRole, LiveClub
    <2>5. LeaversAreFree'
      <3> SUFFICES ASSUME NEW q \in Folk, dealing'[q].op = "leave"
                   PROVE  /\ club'[dealing'[q].at] # NoName
                          /\ dealing'[q].at \notin adopted' /\ Responsible(q, dealing[q].at)'
                                => << q, RoleOf(club'[dealing'[q].at]) >> \in crossed'
        BY DEF LeaversAreFree
      <3>1. dealing'[q] = dealing[q] /\ dealing[q].op = "leave" /\ UNCHANGED << club, adopted >>
        BY <2>2 DEF GrantRole
      <3>2. PICK a : a = dealing[q].at
        OBVIOUS
      <3>3. ASSUME a \notin adopted, LiveClub(a), << q, RoleOf(club[a]) >> \in holders'
            PROVE  << q, RoleOf(club[a]) >> \in crossed'
        <4>1. CASE << q, RoleOf(club[a]) >> \in holders
          BY <2>1, <3>1, <3>2, <3>3, <4>1 DEF ClubsInv, LeaversAreFree, Responsible
        <4>2. CASE << q, RoleOf(club[a]) >> = << d.to, d.role >>
          BY <2>1, <3>1, <4>2
        <4> QED BY <2>1, <3>3, <4>1, <4>2
      <3>4. Responsible(q, dealing[q].at)' => LiveClub(a) /\ << q, RoleOf(club[a]) >> \in holders'
        BY <3>1, <3>2 DEF Responsible, LiveClub
      <3> QED BY <3>1, <3>2, <3>3, <3>4 DEF ClubsInv, LeaversAreFree
    <2>6. ResponsiblesAreMembers'
      <3> SUFFICES ASSUME NEW q \in Folk, NEW c \in ClubIds \ adopted, LiveClub(c),
                          << q, RoleOf(club[c]) >> \in holders'
                   PROVE  << q, c >> \in members \/ << q, RoleOf(club[c]) >> \in crossed'
        BY DEF ResponsiblesAreMembers, Responsible, LiveClub, GrantRole
      <3>1. CASE << q, RoleOf(club[c]) >> \in holders
        BY <2>1, <3>1 DEF ClubsInv, ResponsiblesAreMembers, Responsible
      <3>2. CASE << q, RoleOf(club[c]) >> = << d.to, d.role >>
        BY <1>1, <2>1, <3>2 DEF ClubsInv, RolesAreMade, Dealing
      <3> QED BY <2>1, <3>1, <3>2
    <2> QED BY <2>3, <2>4, <2>5, <2>6 DEF ClubsInv
  <1> QED BY <1>2, <1>3

\* The administration writes the roles of a person: whoever is outside or leaving is marked.
LEMMA RolesKeepClubs ==
    ASSUME ClubsInv, NEW q \in Folk, NEW R \in SUBSET RoleNames, AdminSetRoles(q, R)
    PROVE  ClubsInv'
  <1>1. /\ UNCHANGED << club, clubRoles, members, dealing, adopted, renames >>
        /\ R \subseteq clubRoles
        /\ holders' = {h \in holders : h[1] # q} \cup ({q} \X R)
        /\ crossed \cap holders' \subseteq crossed'
        /\ crossed' \subseteq crossed \cup ({q} \X R)
    BY DEF AdminSetRoles
  <1>2. ASSUME NEW r \in R
        PROVE  \/ << q, r >> \in crossed'
               \/ /\ dealing[q].op # "leave"
                  /\ \A c \in ClubIds : LiveClub(c) /\ RoleOf(club[c]) = r => << q, c >> \in members
    BY DEF AdminSetRoles
  <1>3. \A p, r : << p, r >> \in holders' => << p, r >> \in holders \/ (p = q /\ r \in R)
    BY <1>1
  <1>4. ClubsTypeOK'
    BY <1>1 DEF ClubsInv, ClubsTypeOK
  <1>5. RolesAreMade'
    BY <1>1 DEF ClubsInv, RolesAreMade, LiveClub
  <1>6. LeaversAreFree'
    <2> SUFFICES ASSUME NEW p \in Folk, dealing[p].op = "leave", NEW a, a = dealing[p].at
                 PROVE  /\ club[a] # NoName
                        /\ a \notin adopted /\ LiveClub(a) /\ << p, RoleOf(club[a]) >> \in holders'
                              => << p, RoleOf(club[a]) >> \in crossed'
      BY <1>1 DEF LeaversAreFree, Responsible, LiveClub
    <2>1. CASE << p, RoleOf(club[a]) >> \in holders
      BY <1>1, <2>1 DEF ClubsInv, LeaversAreFree, Responsible
    <2>2. CASE p = q /\ RoleOf(club[a]) \in R
      BY <1>2, <2>2 DEF ClubsInv, LeaversAreFree
    <2> QED BY <1>3, <2>1, <2>2 DEF ClubsInv, LeaversAreFree
  <1>7. ResponsiblesAreMembers'
    <2> SUFFICES ASSUME NEW p \in Folk, NEW c \in ClubIds \ adopted, LiveClub(c),
                        << p, RoleOf(club[c]) >> \in holders'
                 PROVE  << p, c >> \in members \/ << p, RoleOf(club[c]) >> \in crossed'
      BY <1>1 DEF ResponsiblesAreMembers, Responsible, LiveClub
    <2>1. CASE << p, RoleOf(club[c]) >> \in holders
      BY <1>1, <2>1 DEF ClubsInv, ResponsiblesAreMembers, Responsible
    <2>2. CASE p = q /\ RoleOf(club[c]) \in R
      BY <1>2, <2>2
    <2> QED BY <1>3, <2>1, <2>2
  <1> QED BY <1>4, <1>5, <1>6, <1>7 DEF ClubsInv

\* Rows of members come and go; a role is taken away; a club is deleted.
LEMMA RowsKeepClubs ==
    ASSUME ClubsInv, NEW p \in Folk,
           AddAsMember(p) \/ FinishRemove(p) \/ FinishJoinClub(p)
    PROVE  ClubsInv'
  <1>1. dealing[p] \in Dealing /\ NoDealing \in Dealing /\ NoDealing.op = "none"
    BY NoDealingTyped DEF ClubsInv, ClubsTypeOK
  <1>2. [dealing[p] EXCEPT !.op = "grant"] \in Dealing
        /\ [dealing[p] EXCEPT !.op = "grant"].op # "leave"
    BY <1>1 DEF Dealing
  <1>3. /\ dealing' \in [Folk -> Dealing] /\ dealing'[p].op # "leave"
        /\ \A q \in Folk \ {p} : dealing'[q] = dealing[q]
    BY <1>1, <1>2 DEF AddAsMember, FinishRemove, FinishJoinClub, Deals, ClubsInv, ClubsTypeOK
  <1>4. /\ UNCHANGED << club, clubRoles, adopted, renames >>
        /\ holders' \subseteq holders /\ crossed' \subseteq crossed
        /\ crossed \cap holders' \subseteq crossed' /\ members \subseteq members'
        /\ members' \subseteq Folk \X ClubIds
        /\ \A m \in members' \ members : LiveClub(m[2])
    BY <1>1 DEF AddAsMember, FinishRemove, FinishJoinClub, ClubsInv, ClubsTypeOK, Dealing
  <1>5. ClubsTypeOK'
    BY <1>3, <1>4 DEF ClubsInv, ClubsTypeOK
  <1>6. RolesAreMade'
    BY <1>4 DEF ClubsInv, RolesAreMade, LiveClub
  <1>7. \A q, c : Responsible(q, c)' => Responsible(q, c)
    BY <1>4 DEF Responsible, LiveClub
  <1>8. LeaversAreFree'
    <2> SUFFICES ASSUME NEW q \in Folk, dealing'[q].op = "leave"
                 PROVE  /\ club'[dealing'[q].at] # NoName
                        /\ dealing'[q].at \notin adopted' /\ Responsible(q, dealing[q].at)'
                              => << q, RoleOf(club'[dealing'[q].at]) >> \in crossed'
      BY DEF LeaversAreFree
    <2>1. dealing'[q] = dealing[q]
      BY <1>3
    <2>2. Responsible(q, dealing[q].at)' => Responsible(q, dealing[q].at)
      BY <1>4, <2>1 DEF Responsible, LiveClub
    <2>3. Responsible(q, dealing[q].at)' => << q, RoleOf(club[dealing[q].at]) >> \in holders'
      BY <1>4, <2>1 DEF Responsible, LiveClub
    <2> QED BY <1>4, <2>1, <2>2, <2>3 DEF ClubsInv, LeaversAreFree
  <1>9. ResponsiblesAreMembers'
    <2> SUFFICES ASSUME NEW q \in Folk, NEW c \in ClubIds \ adopted, Responsible(q, c)'
                 PROVE  << q, c >> \in members' \/ << q, RoleOf(club[c]) >> \in crossed'
      BY <1>4 DEF ResponsiblesAreMembers
    <2>1. << q, RoleOf(club[c]) >> \in holders'
      BY <1>4 DEF Responsible
    <2> QED BY <1>4, <1>7, <2>1 DEF ClubsInv, ResponsiblesAreMembers
  <1> QED BY <1>5, <1>6, <1>8, <1>9 DEF ClubsInv

LEMMA DeletionKeepsClubs ==
    ASSUME ClubsInv, NEW c \in ClubIds, DeleteClub(c)
    PROVE  ClubsInv'
  <1>1. /\ club' \in [ClubIds -> ClubNames \cup {NoName, GoneName}]
        /\ club'[c] = GoneName /\ \A d \in ClubIds \ {c} : club'[d] = club[d]
    BY DEF ClubsInv, ClubsTypeOK, DeleteClub
  <1>2. ~LiveClub(c)' /\ \A d \in ClubIds : LiveClub(d)' => LiveClub(d) /\ club'[d] = club[d]
    BY <1>1, ClubsAssumption DEF LiveClub
  <1>3. ClubsTypeOK'
    BY <1>1 DEF ClubsInv, ClubsTypeOK, DeleteClub
  <1>4. RolesAreMade'
    <2>1. \A m \in members' : LiveClub(m[2])'
      BY <1>1 DEF ClubsInv, ClubsTypeOK, RolesAreMade, LiveClub, DeleteClub
    <2> QED BY <1>2, <2>1 DEF ClubsInv, RolesAreMade, DeleteClub
  <1>5. LeaversAreFree'
    <2> SUFFICES ASSUME NEW q \in Folk, dealing[q].op = "leave"
                 PROVE  /\ club'[dealing[q].at] # NoName
                        /\ dealing[q].at \notin adopted /\ Responsible(q, dealing[q].at)'
                              => << q, RoleOf(club'[dealing[q].at]) >> \in crossed
      BY DEF LeaversAreFree, DeleteClub
    <2>1. PICK a \in ClubIds : a = dealing[q].at
      BY DEF ClubsInv, ClubsTypeOK, Dealing
    <2>2. club[a] # NoName /\ (a \notin adopted /\ Responsible(q, a) => << q, RoleOf(club[a]) >> \in crossed)
      BY <2>1 DEF ClubsInv, LeaversAreFree
    <2>3. club'[a] # NoName
      <3>1. GoneName # NoName
        BY DEF GoneName, NoName
      <3> QED BY <1>1, <2>2, <3>1
    <2>4. Responsible(q, dealing[q].at)' => Responsible(q, a) /\ club'[a] = club[a]
      BY <1>2, <2>1 DEF Responsible, DeleteClub
    <2> QED BY <2>1, <2>2, <2>3, <2>4
  <1>6. ResponsiblesAreMembers'
    BY <1>2 DEF ClubsInv, ResponsiblesAreMembers, Responsible, DeleteClub
  <1> QED BY <1>3, <1>4, <1>5, <1>6 DEF ClubsInv

LEMMA LeavingKeepsClubs ==
    ASSUME ClubsInv, NEW p \in Folk,
           FinishLeaveClub(p) \/ \E c \in ClubIds : LeaveClub(p, c)
    PROVE  ClubsInv'
  <1>1. NoDealing \in Dealing /\ NoDealing.op = "none" /\ dealing[p] \in Dealing
    BY NoDealingTyped DEF ClubsInv, ClubsTypeOK
  <1>2. ASSUME NEW c \in ClubIds, LeaveClub(p, c) PROVE ClubsInv'
    <2> DEFINE k == [NoDealing EXCEPT !.op = "leave", !.at = c]
    <2>1. k \in Dealing /\ k.op = "leave" /\ k.at = c
      BY <1>1 DEF Dealing
    <2>2. dealing' = [dealing EXCEPT ![p] = k]
      BY <1>2 DEF LeaveClub, DealsOn, Deals
    <2> HIDE DEF k
    <2>3. /\ dealing' \in [Folk -> Dealing] /\ dealing'[p] = k
          /\ \A q \in Folk \ {p} : dealing'[q] = dealing[q]
      BY <2>1, <2>2 DEF ClubsInv, ClubsTypeOK
    <2>4. /\ UNCHANGED << club, clubRoles, holders, members, adopted, renames >>
          /\ crossed \subseteq crossed' /\ crossed' \subseteq Folk \X RoleNames
          /\ LiveClub(c) /\ (Responsible(p, c) => << p, RoleOf(club[c]) >> \in crossed')
      <3>1. LiveClub(c)
        BY <1>2 DEF LeaveClub, ClubsInv, RolesAreMade
      <3>2. RoleOf(club[c]) \in RoleNames
        BY <3>1 DEF LiveClub, RoleNames
      <3> QED BY <1>2, <3>1, <3>2 DEF LeaveClub, ClubsInv, ClubsTypeOK
    <2>5. \A q, x : Responsible(q, x)' <=> Responsible(q, x)
      BY <2>4 DEF Responsible, LiveClub
    <2>6. ClubsTypeOK'
      BY <2>3, <2>4 DEF ClubsInv, ClubsTypeOK
    <2>7. RolesAreMade' /\ ResponsiblesAreMembers'
      BY <2>4, <2>5 DEF ClubsInv, RolesAreMade, ResponsiblesAreMembers, LiveClub
    <2>8. LeaversAreFree'
      <3> SUFFICES ASSUME NEW q \in Folk, dealing'[q].op = "leave"
                   PROVE  /\ club'[dealing'[q].at] # NoName
                          /\ dealing'[q].at \notin adopted' /\ Responsible(q, dealing[q].at)'
                                => << q, RoleOf(club'[dealing'[q].at]) >> \in crossed'
        BY DEF LeaversAreFree
      <3>1. CASE q = p
        <4>1. club[c] # NoName
          BY <2>4, ClubsAssumption DEF LiveClub
        <4>2. Responsible(q, dealing[q].at)' => Responsible(p, c)
          BY <2>1, <2>3, <2>4, <3>1 DEF Responsible, LiveClub
        <4> QED BY <2>1, <2>3, <2>4, <3>1, <4>1, <4>2
      <3>2. CASE q # p
        <4>1. dealing'[q] = dealing[q]
          BY <2>3, <3>2
        <4>2. Responsible(q, dealing[q].at)' => Responsible(q, dealing[q].at)
          BY <2>4, <4>1 DEF Responsible, LiveClub
        <4> QED BY <2>4, <4>1, <4>2 DEF ClubsInv, LeaversAreFree
      <3> QED BY <3>1, <3>2
    <2> QED BY <2>6, <2>7, <2>8 DEF ClubsInv
  <1>3. CASE FinishLeaveClub(p)
    <2>1. /\ dealing' \in [Folk -> Dealing] /\ dealing'[p].op = "none"
          /\ \A q \in Folk \ {p} : dealing'[q] = dealing[q]
      BY <1>1, <1>3 DEF FinishLeaveClub, Deals, ClubsInv, ClubsTypeOK
    <2>2. /\ UNCHANGED << club, clubRoles, holders, adopted, crossed, renames >>
          /\ members' = members \ {<< p, dealing[p].at >>} /\ dealing[p].op = "leave"
      BY <1>3 DEF FinishLeaveClub
    <2>3. \A q, x : Responsible(q, x)' <=> Responsible(q, x)
      BY <2>2 DEF Responsible, LiveClub
    <2>4. ClubsTypeOK'
      BY <2>1, <2>2 DEF ClubsInv, ClubsTypeOK
    <2>5. RolesAreMade'
      BY <2>2 DEF ClubsInv, RolesAreMade, LiveClub
    <2>6. LeaversAreFree'
      <3> SUFFICES ASSUME NEW q \in Folk, dealing'[q].op = "leave"
                   PROVE  /\ club'[dealing'[q].at] # NoName
                          /\ dealing'[q].at \notin adopted' /\ Responsible(q, dealing[q].at)'
                                => << q, RoleOf(club'[dealing'[q].at]) >> \in crossed'
        BY DEF LeaversAreFree
      <3>1. dealing'[q] = dealing[q]
        BY <2>1
      <3>2. Responsible(q, dealing[q].at)' => Responsible(q, dealing[q].at)
        BY <2>2, <3>1 DEF Responsible, LiveClub
      <3> QED BY <2>2, <3>1, <3>2 DEF ClubsInv, LeaversAreFree
    <2>7. ResponsiblesAreMembers'
      <3> SUFFICES ASSUME NEW q \in Folk, NEW c \in ClubIds \ adopted, Responsible(q, c)
                   PROVE  << q, c >> \in members' \/ << q, RoleOf(club[c]) >> \in crossed
        BY <2>2, <2>3 DEF ResponsiblesAreMembers
      <3>1. CASE q = p /\ c = dealing[p].at
        BY <2>2, <3>1 DEF ClubsInv, LeaversAreFree
      <3>2. CASE ~(q = p /\ c = dealing[p].at)
        BY <2>2, <3>2 DEF ClubsInv, ResponsiblesAreMembers
      <3> QED BY <3>1, <3>2
    <2> QED BY <2>4, <2>5, <2>6, <2>7 DEF ClubsInv
  <1> QED BY <1>2, <1>3

LEMMA ClubsInvariant == ClubsSpec => []ClubsInv
  <1>1. ClubsInit => ClubsInv
    <2> SUFFICES ASSUME ClubsInit PROVE ClubsInv
      OBVIOUS
    <2>1. \A p \in Folk : NoDealing \in Dealing /\ NoDealing.op = "none"
      BY NoDealingTyped
    <2>2. \A c \in ClubIds : ~LiveClub(c)
      BY ClubsAssumption DEF ClubsInit, LiveClub
    <2>3. ClubsTypeOK
      BY <2>1, ClubsAssumption DEF ClubsInit, ClubsTypeOK
    <2>4. LeaversAreFree
      BY <2>1 DEF ClubsInit, LeaversAreFree
    <2> QED BY <2>2, <2>3, <2>4
            DEF ClubsInv, ClubsInit, RolesAreMade, ResponsiblesAreMembers, Responsible
  <1>2. ClubsInv /\ [ClubsNext]_clubVars => ClubsInv'
    <2>1. ClubsInv /\ UNCHANGED clubVars => ClubsInv'
      BY DEF clubVars, ClubsInv, ClubsTypeOK, RolesAreMade, LeaversAreFree,
             ResponsiblesAreMembers, Responsible, LiveClub
    <2> QED BY <2>1, ChecksKeepClubs, NamesKeepClubs, CreationKeepsClubs, GrantsKeepClubs,
               RolesKeepClubs, RowsKeepClubs, DeletionKeepsClubs, LeavingKeepsClubs DEF ClubsNext
  <1> QED BY <1>1, <1>2, PTL DEF ClubsSpec

\* However requests interleave, who is responsible for a club is one of its members, but for
\* the clubs and roles that the code lets out of step (LeaveClub, AddClubRespo) and the roles an
\* administrator gives to people outside (CreateUser, UpdateUser).
THEOREM ResponsiblesStayMembers == ClubsSpec => []ResponsiblesAreMembers
  BY ClubsInvariant, PTL DEF ClubsInv

\* The rows of clubs, roles, holders and members keep their types, for any clubs and people.
THEOREM ClubsStayTyped == ClubsSpec => []ClubsTypeOK
  BY ClubsInvariant, PTL DEF ClubsInv

-----------------------------------------------------------------------------
(* Installations and the mirror *)

\* The row i is why the mirror has m.
Attached(m, i) ==
    device[i].status = "active" /\ device[i].owner = m[1] /\ device[i].token = m[2]

TokensAreHeldOnce ==
    /\ \A i \in DeviceIds : device[i].token # NoPushToken => device[i].status = "active"
    /\ \A i, j \in DeviceIds :
          device[i].token # NoPushToken /\ device[i].token = device[j].token => i = j

\* A row is locked by one caller; one that a caller found stays, and is locked by it.
LocksAreHeld ==
    /\ \A c, d \in Callers : \A i \in DeviceIds :
          i \in call[c].locked /\ i \in call[d].locked => c = d
    /\ \A c \in Callers : \A i \in call[c].locked : Exists(i)
    /\ \A c \in Callers : call[c].stage # "idle" /\ call[c].exists => call[c].at \in call[c].locked

MirrorIsAttached ==
    \A m \in mirror \ patched : \E i \in Installations : Attached(m, i)

\* What another account has of the token that a caller is about to write is deleted with it,
\* or is due to a row that this caller does not hold.
OthersAreDoomed ==
    \A c \in Callers : call[c].stage = "write" =>
        \A m \in mirror \ patched :
            m[2] = call[c].token /\ m[1] # call[c].owner =>
                \/ m \in call[c].doomed
                \/ \E i \in Installations \ call[c].locked : Attached(m, i)

DevicesInv ==
    /\ DevicesTypeOK /\ HeartbeatsCount
    /\ TokensAreHeldOnce /\ LocksAreHeld /\ MirrorIsAttached /\ OthersAreDoomed

LEMMA NoCallTyped == NoCall \in Call /\ NoCall.stage = "idle" /\ NoCall.locked = {}
  BY DevicesAssumption DEF NoCall, Call

\* A caller goes on, and no row changes.
LEMMA CallsKeepDevices ==
    ASSUME DevicesInv, NEW c \in Callers, NEW r \in Call, Calls(c, r),
           UNCHANGED << device, mirror, patched, deviceEvents >>,
           calls' \in 0 .. MaxRegisterCalls,
           answered' \subseteq Installations, HeartbeatsCount',
           \A i \in r.locked : Exists(i) /\ ~LockedByOther(i, c),
           r.stage # "idle" /\ r.exists => r.at \in r.locked,
           r.stage = "write" =>
              \A m \in mirror : m[2] = r.token /\ m[1] # r.owner => m \in r.doomed
    PROVE  DevicesInv'
  <1>1. call' \in [Callers -> Call] /\ call'[c] = r /\ \A d \in Callers \ {c} : call'[d] = call[d]
    BY DEF DevicesInv, DevicesTypeOK, Calls
  <1>2. DevicesTypeOK'
    BY <1>1 DEF DevicesInv, DevicesTypeOK
  <1>3. TokensAreHeldOnce' /\ MirrorIsAttached'
    BY DEF DevicesInv, TokensAreHeldOnce, MirrorIsAttached, Attached
  <1>4. LocksAreHeld'
    <2>1. \A i \in DeviceIds : Exists(i)' = Exists(i)
      BY DEF Exists
    <2>2. \A d \in Callers : \A i \in call'[d].locked : Exists(i)'
      BY <1>1, <2>1 DEF DevicesInv, LocksAreHeld, Exists
    <2>3. \A d, e \in Callers : \A i \in DeviceIds :
              i \in call'[d].locked /\ i \in call'[e].locked => d = e
      <3> SUFFICES ASSUME NEW d \in Callers, NEW e \in Callers, NEW i \in DeviceIds,
                          i \in call'[d].locked, i \in call'[e].locked, d # e
                   PROVE  FALSE
        OBVIOUS
      <3>1. CASE d = c
        BY <1>1, <3>1 DEF LockedByOther
      <3>2. CASE e = c
        BY <1>1, <3>2 DEF LockedByOther
      <3>3. CASE d # c /\ e # c
        BY <1>1, <3>3 DEF DevicesInv, LocksAreHeld
      <3> QED BY <3>1, <3>2, <3>3
    <2>4. \A d \in Callers : call'[d].stage # "idle" /\ call'[d].exists
                             => call'[d].at \in call'[d].locked
      BY <1>1 DEF DevicesInv, LocksAreHeld
    <2> QED BY <2>2, <2>3, <2>4 DEF LocksAreHeld
  <1>5. OthersAreDoomed'
    <2> SUFFICES ASSUME NEW d \in Callers, call'[d].stage = "write", NEW m \in mirror \ patched,
                        m[2] = call'[d].token, m[1] # call'[d].owner
                 PROVE  \/ m \in call'[d].doomed
                        \/ \E i \in Installations \ call'[d].locked : Attached(m, i)'
      BY DEF OthersAreDoomed
    <2>1. \A i \in Installations : Attached(m, i)' <=> Attached(m, i)
      BY DEF Attached
    <2>2. CASE d = c
      BY <1>1, <2>2
    <2>3. CASE d # c
      BY <1>1, <2>1, <2>3 DEF DevicesInv, OthersAreDoomed
    <2> QED BY <2>2, <2>3
  <1> QED BY <1>2, <1>3, <1>4, <1>5 DEF DevicesInv

\* A row changes outside a registration: it does not vanish, and takes nothing away from what
\* the mirror still has.
LEMMA RowsKeepDevices ==
    ASSUME DevicesInv, DevicesTypeOK', HeartbeatsCount', TokensAreHeldOnce',
           \A c \in Callers :
              /\ call'[c].stage = call[c].stage /\ call'[c].at = call[c].at
              /\ call'[c].owner = call[c].owner /\ call'[c].token = call[c].token
              /\ call'[c].exists = call[c].exists /\ call'[c].locked = call[c].locked
              /\ call'[c].doomed = call[c].doomed,
           \A i \in DeviceIds : Exists(i) => Exists(i)',
           mirror' \ patched' \subseteq mirror \ patched,
           \A m \in mirror' \ patched' : \A i \in Installations : Attached(m, i) => Attached(m, i)'
    PROVE  DevicesInv'
  <1>1. LocksAreHeld'
    <2>1. \A c \in Callers : call[c].locked \subseteq DeviceIds
      BY DEF DevicesInv, DevicesTypeOK, Call
    <2> QED BY <2>1 DEF DevicesInv, LocksAreHeld
  <1>2. MirrorIsAttached'
    BY DEF DevicesInv, MirrorIsAttached
  <1>3. OthersAreDoomed'
    BY DEF DevicesInv, OthersAreDoomed
  <1> QED BY <1>1, <1>2, <1>3 DEF DevicesInv

LEMMA BeginKeepsDevices ==
    ASSUME DevicesInv, NEW c \in Callers, NEW i \in Installations, NEW e \in Owners,
           NEW t \in PushTokens \cup {NoPushToken}, NEW n \in 1 .. MaxRegisterAttempts,
           Begin(c, i, e, t, n), calls' \in 0 .. MaxRegisterCalls
    PROVE  DevicesInv'
  <1>1. i \in DeviceIds /\ device[i] \in Device
    BY DEF DeviceIds, DevicesInv, DevicesTypeOK
  <1>2. CASE Calls(c, NoCall) /\ answered' = answered \cup {i} /\ device[i].status = "active"
             /\ Fresh(device[i])
    <2>1. StateOf(device[i]) \in {"connected", "active"}
      BY <1>2 DEF StateOf, Fresh
    <2>2. answered' \subseteq Installations /\ HeartbeatsCount'
      BY <1>2, <2>1 DEF DevicesInv, DevicesTypeOK, HeartbeatsCount, Begin, StateOf
    <2> QED BY <1>2, <2>2, NoCallTyped, CallsKeepDevices DEF Begin
  <1>3. CASE /\ Calls(c, [stage |-> IF t = NoPushToken THEN "write" ELSE "take",
                         at |-> i, owner |-> e, token |-> t, exists |-> Exists(i),
                         locked |-> IF Exists(i) THEN {i} ELSE {}, doomed |-> {},
                         proven |-> TRUE, attempt |-> n])
             /\ UNCHANGED answered
    <2> DEFINE r == [stage |-> IF t = NoPushToken THEN "write" ELSE "take",
                     at |-> i, owner |-> e, token |-> t, exists |-> Exists(i),
                     locked |-> IF Exists(i) THEN {i} ELSE {}, doomed |-> {},
                     proven |-> TRUE, attempt |-> n]
    <2>1. r \in Call
      BY <1>1 DEF Call, Exists
    <2>2. answered' \subseteq Installations /\ HeartbeatsCount'
      BY <1>3 DEF DevicesInv, DevicesTypeOK, HeartbeatsCount, Begin, StateOf
    <2>3. \A j \in r.locked : Exists(j) /\ ~LockedByOther(j, c)
      BY DEF Begin
    <2>4. r.exists => r.at \in r.locked
      OBVIOUS
    <2>5. r.stage = "write" => \A m \in mirror : m[2] # r.token
      BY DevicesAssumption DEF DevicesInv, DevicesTypeOK
    <2>6. Calls(c, r)
      BY <1>3
    <2> HIDE DEF r
    <2> QED BY <2>1, <2>2, <2>3, <2>4, <2>5, <2>6, CallsKeepDevices DEF Begin
  <1> QED BY <1>2, <1>3 DEF Begin

\* A registration begins, takes the token, is tried again, or fails.
LEMMA RegistrationsKeepDevices ==
    ASSUME DevicesInv, NEW c \in Callers,
           \/ \E i \in Installations, e \in Owners, t \in PushTokens \cup {NoPushToken} :
                 RegisterDevice(c, i, e, t)
           \/ TakeToken(c) \/ RetryRegister(c) \/ RegisterFails(c)
    PROVE  DevicesInv'
  <1>1. calls \in 0 .. MaxRegisterCalls /\ MaxRegisterCalls \in Nat /\ call[c] \in Call
        /\ answered \subseteq Installations
    BY DevicesAssumption DEF DevicesInv, DevicesTypeOK
  <1>2. ASSUME NEW i \in Installations, NEW e \in Owners, NEW t \in PushTokens \cup {NoPushToken},
               RegisterDevice(c, i, e, t)
        PROVE  DevicesInv'
    <2>1. 1 \in 1 .. MaxRegisterAttempts
      BY DevicesAssumption
    <2>2. calls' \in 0 .. MaxRegisterCalls
      BY <1>1, <1>2 DEF RegisterDevice
    <2>3. PICK n \in 1 .. MaxRegisterAttempts : Begin(c, i, e, t, n)
      BY <1>2, <2>1 DEF RegisterDevice
    <2> QED BY <2>2, <2>3, BeginKeepsDevices
  <1>3. CASE RetryRegister(c)
    <2>1. /\ call[c].at \in Installations /\ call[c].owner \in Owners
          /\ call[c].token \in PushTokens \cup {NoPushToken}
          /\ call[c].attempt \in 1 .. MaxRegisterAttempts
      BY <1>1 DEF Call
    <2>2. call[c].attempt + 1 \in 1 .. MaxRegisterAttempts
      BY <1>3, <2>1, DevicesAssumption DEF RetryRegister
    <2>3. PICK i \in Installations, e \in Owners, t \in PushTokens \cup {NoPushToken},
               n \in 1 .. MaxRegisterAttempts : Begin(c, i, e, t, n)
      BY <1>3, <2>1, <2>2 DEF RetryRegister
    <2> QED BY <1>1, <1>3, <2>3, BeginKeepsDevices DEF RetryRegister
  <1>4. ASSUME UNCHANGED << answered, device >> PROVE HeartbeatsCount'
    BY <1>4 DEF DevicesInv, HeartbeatsCount, StateOf
  <1>5. CASE RegisterFails(c)
    BY <1>1, <1>4, <1>5, NoCallTyped, CallsKeepDevices DEF RegisterFails
  <1>6. CASE TakeToken(c)
    <2> DEFINE r == [call[c] EXCEPT !.stage = "write", !.locked = @ \cup Others(c),
                         !.doomed = {m \in mirror : m[2] = call[c].token /\ m[1] # call[c].owner}]
    <2>1. Others(c) \subseteq DeviceIds
      BY DEF Others, Holders
    <2>2. /\ r \in Call /\ r.stage = "write" /\ r.token = call[c].token
          /\ r.owner = call[c].owner /\ r.exists = call[c].exists /\ r.at = call[c].at
          /\ r.locked = call[c].locked \cup Others(c)
          /\ r.doomed = {m \in mirror : m[2] = call[c].token /\ m[1] # call[c].owner}
      BY <1>1, <2>1 DEF Call, DevicesInv, DevicesTypeOK
    <2>3. Calls(c, r)
      BY <1>6 DEF TakeToken
    <2> HIDE DEF r
    <2>4. \A i \in call[c].locked : Exists(i) /\ ~LockedByOther(i, c)
      BY <1>1 DEF DevicesInv, LocksAreHeld, LockedByOther, Call
    <2>5. \A i \in Others(c) : Exists(i) /\ ~LockedByOther(i, c)
      BY <1>6 DEF TakeToken, Others, Holders, DevicesInv, TokensAreHeldOnce, Exists
    <2>6. r.exists => r.at \in r.locked
      BY <1>6, <2>2 DEF DevicesInv, LocksAreHeld, TakeToken
    <2> QED BY <1>1, <1>4, <1>6, <2>2, <2>3, <2>4, <2>5, <2>6, CallsKeepDevices DEF TakeToken
  <1> QED BY <1>2, <1>3, <1>5, <1>6

LEMMA GoneTyped ==
    ASSUME NEW d \in Device
    PROVE  /\ Gone(d) \in Device /\ Gone(d).status = "disabled" /\ Gone(d).token = NoPushToken
           /\ Gone(d).owner = d.owner
  BY DEF Gone, Device

\* Signing out, dead tokens, older versions, time and passwords.
LEMMA OthersKeepDevices ==
    ASSUME DevicesInv,
           \/ \E i \in DeviceIds : SignOut(i) \/ \E t \in PushTokens : InvalidateToken(i, t)
           \/ \E t \in PushTokens : PruneToken(t)
           \/ \E e \in Owners, t \in PushTokens : UpdateNewfToken(e, t)
    PROVE  DevicesInv'
  <1>1. deviceEvents \in 0 .. MaxDeviceEvents /\ MaxDeviceEvents \in Nat
        /\ device \in [DeviceIds -> Device] /\ answered \subseteq Installations
        /\ Installations \subseteq DeviceIds
    BY DevicesAssumption DEF DevicesInv, DevicesTypeOK, DeviceIds
  <1>2. Happens => deviceEvents' \in 0 .. MaxDeviceEvents
    BY <1>1 DEF Happens
  <1>3. ASSUME NEW i \in DeviceIds, Happens, Disable(i), device[i].status = "active"
        PROVE  DevicesInv'
    <2>1. /\ device' \in [DeviceIds -> Device] /\ device'[i] = Gone(device[i])
          /\ \A j \in DeviceIds \ {i} : device'[j] = device[j]
      BY <1>1, <1>3, GoneTyped DEF Disable
    <2>2. device'[i].status = "disabled" /\ device'[i].token = NoPushToken
      BY <1>1, <2>1, GoneTyped
    <2>3. DevicesTypeOK'
      BY <1>1, <1>2, <1>3, <2>1 DEF Disable, DevicesInv, DevicesTypeOK
    <2>4. HeartbeatsCount'
      BY <1>1, <1>3, <2>1 DEF Disable, DevicesInv, HeartbeatsCount, StateOf
    <2>5. TokensAreHeldOnce'
      BY <2>1, <2>2 DEF DevicesInv, TokensAreHeldOnce
    <2>6. \A j \in DeviceIds : Exists(j) => Exists(j)'
      BY <2>1, <2>2 DEF Exists
    <2>7. \A m \in mirror' \ patched' : \A j \in Installations : Attached(m, j) => Attached(m, j)'
      <3> SUFFICES ASSUME NEW m \in mirror' \ patched', NEW j \in Installations, Attached(m, j)
                   PROVE  Attached(m, j)'
        OBVIOUS
      <3>1. m = << m[1], m[2] >>
        BY <1>3 DEF Disable, DevicesInv, DevicesTypeOK
      <3>2. j # i
        BY <1>3, <3>1 DEF Disable, Attached
      <3> QED BY <1>1, <2>1, <3>2 DEF Attached
    <2>8. mirror' \ patched' \subseteq mirror \ patched
      BY <1>3, <2>7 DEF Disable
    <2> QED BY <1>3, <2>3, <2>4, <2>5, <2>6, <2>7, <2>8, RowsKeepDevices DEF Disable
  <1>4. ASSUME UNCHANGED << device, call, answered, calls >>, Happens,
               mirror' \subseteq Owners \X PushTokens, patched' \subseteq Owners \X PushTokens,
               mirror' \ patched' \subseteq mirror \ patched
        PROVE  DevicesInv'
    <2>1. DevicesTypeOK'
      BY <1>2, <1>4 DEF DevicesInv, DevicesTypeOK
    <2>2. HeartbeatsCount' /\ TokensAreHeldOnce'
      BY <1>4 DEF DevicesInv, HeartbeatsCount, TokensAreHeldOnce, StateOf
    <2>3. \A j \in DeviceIds : Exists(j) => Exists(j)'
      BY <1>4 DEF Exists
    <2>4. \A m \in mirror' \ patched' : \A j \in Installations : Attached(m, j) => Attached(m, j)'
      BY <1>4 DEF Attached
    <2> QED BY <1>4, <2>1, <2>2, <2>3, <2>4, RowsKeepDevices
  <1>5. mirror \subseteq Owners \X PushTokens /\ patched \subseteq Owners \X PushTokens
    BY DEF DevicesInv, DevicesTypeOK
  <1>6. ASSUME NEW t \in PushTokens, PruneToken(t) PROVE DevicesInv'
    BY <1>4, <1>5, <1>6 DEF PruneToken
  <1>7. ASSUME NEW e \in Owners, NEW t \in PushTokens, UpdateNewfToken(e, t) PROVE DevicesInv'
    BY <1>4, <1>5, <1>7 DEF UpdateNewfToken
  <1> QED BY <1>3, <1>6, <1>7 DEF SignOut, InvalidateToken

LEMMA LegacyKeepsDevices ==
    ASSUME DevicesInv, NEW e \in Owners, NEW t \in PushTokens, RegisterLegacyToken(e, t)
    PROVE  DevicesInv'
  <1>1. PICK g \in LegacyIds :
           /\ Holders(t) = {g} \/ (Holders(t) = {} /\ ~Exists(g))
           /\ device' = [device EXCEPT ![g] = [owner |-> e, token |-> t, status |-> "active",
                                              seen |-> "throttled", proven |-> TRUE]]
    BY DEF RegisterLegacyToken
  <1> DEFINE row == [owner |-> e, token |-> t, status |-> "active",
                     seen |-> "throttled", proven |-> TRUE]
  <1>2. row \in Device /\ row.status = "active" /\ row.token = t /\ row.proven
        /\ row.seen = "throttled"
    BY DEF Device, Seen
  <1>3. device' = [device EXCEPT ![g] = row]
    BY <1>1
  <1> HIDE DEF row
  <1>4. /\ g \in DeviceIds /\ g \notin Installations /\ Installations \subseteq DeviceIds
        /\ device' \in [DeviceIds -> Device] /\ device'[g] = row
        /\ \A j \in DeviceIds \ {g} : device'[j] = device[j]
    BY <1>2, <1>3, DevicesAssumption DEF DeviceIds, DevicesInv, DevicesTypeOK
  <1>5. DevicesTypeOK'
    <2>1. deviceEvents' \in 0 .. MaxDeviceEvents
      BY DevicesAssumption DEF RegisterLegacyToken, Happens, DevicesInv, DevicesTypeOK
    <2> QED BY <1>4, <2>1 DEF RegisterLegacyToken, DevicesInv, DevicesTypeOK
  <1>6. HeartbeatsCount'
    BY <1>4 DEF RegisterLegacyToken, DevicesInv, DevicesTypeOK, HeartbeatsCount, StateOf
  <1>7. \A j \in DeviceIds \ {g} : device[j].token # t
    BY <1>1 DEF Holders
  <1>8. TokensAreHeldOnce'
    BY <1>2, <1>4, <1>7 DEF DevicesInv, TokensAreHeldOnce
  <1>9. \A j \in DeviceIds : Exists(j) => Exists(j)'
    BY <1>2, <1>4 DEF Exists
  <1>10. \A m \in mirror \ patched : \A j \in Installations : Attached(m, j) => Attached(m, j)'
    BY <1>4 DEF Attached
  <1> QED BY <1>5, <1>6, <1>8, <1>9, <1>10, RowsKeepDevices DEF RegisterLegacyToken

LEMMA TimeKeepsDevices ==
    ASSUME DevicesInv,
           (\E i \in DeviceIds : DeviceAges(i)) \/ \E e \in Owners : PasswordChanges(e)
    PROVE  DevicesInv'
  <1>1. deviceEvents \in 0 .. MaxDeviceEvents /\ MaxDeviceEvents \in Nat
        /\ device \in [DeviceIds -> Device] /\ call \in [Callers -> Call]
        /\ answered \subseteq Installations /\ Installations \subseteq DeviceIds
    BY DevicesAssumption DEF DevicesInv, DevicesTypeOK, DeviceIds
  <1>2. Happens => deviceEvents' \in 0 .. MaxDeviceEvents
    BY <1>1 DEF Happens
  <1>3. ASSUME UNCHANGED << mirror, patched, calls >>, Happens, answered' \subseteq answered,
               HeartbeatsCount',
               device' \in [DeviceIds -> Device], call' \in [Callers -> Call],
               \A i \in DeviceIds : /\ device'[i].owner = device[i].owner
                                    /\ device'[i].token = device[i].token
                                    /\ device'[i].status = device[i].status,
               \A c \in Callers :
                  /\ call'[c].stage = call[c].stage /\ call'[c].at = call[c].at
                  /\ call'[c].owner = call[c].owner /\ call'[c].token = call[c].token
                  /\ call'[c].exists = call[c].exists /\ call'[c].locked = call[c].locked
                  /\ call'[c].doomed = call[c].doomed
        PROVE  DevicesInv'
    <2>1. DevicesTypeOK'
      BY <1>2, <1>3 DEF DevicesInv, DevicesTypeOK
    <2>2. TokensAreHeldOnce'
      BY <1>3 DEF DevicesInv, TokensAreHeldOnce
    <2>3. \A j \in DeviceIds : Exists(j) => Exists(j)'
      BY <1>3 DEF Exists
    <2>4. \A m \in mirror' \ patched' : \A j \in Installations : Attached(m, j) => Attached(m, j)'
      BY <1>1, <1>3 DEF Attached
    <2> QED BY <1>3, <2>1, <2>2, <2>3, <2>4, RowsKeepDevices
  <1>4. ASSUME NEW i \in DeviceIds, DeviceAges(i) PROVE DevicesInv'
    <2>1. PICK s \in Seen : device' = [device EXCEPT ![i].seen = s]
      BY <1>1, <1>4 DEF DeviceAges, Seen
    <2>2. [device[i] EXCEPT !.seen = s] \in Device
      BY <1>1 DEF Device
    <2>3. /\ device' \in [DeviceIds -> Device]
          /\ device'[i] = [device[i] EXCEPT !.seen = s]
          /\ \A j \in DeviceIds \ {i} : device'[j] = device[j]
      BY <1>1, <2>1, <2>2
    <2>4. /\ device'[i].owner = device[i].owner /\ device'[i].token = device[i].token
          /\ device'[i].status = device[i].status /\ device'[i].proven = device[i].proven
          /\ device'[i].seen = s
      BY <1>1, <2>3 DEF Device
    <2>5. answered' \subseteq answered /\ (s = "late" => i \notin answered')
      BY <1>4, <2>4 DEF DeviceAges
    <2>6. HeartbeatsCount'
      <3> SUFFICES ASSUME NEW j \in answered'
                   PROVE  StateOf(device'[j]) \in {"connected", "active"}
        BY DEF HeartbeatsCount
      <3>1. StateOf(device[j]) \in {"connected", "active"}
        BY <2>5 DEF DevicesInv, HeartbeatsCount
      <3>2. CASE j = i
        <4>1. device[i].status = "active" /\ device[i].proven
          BY <3>1, <3>2 DEF StateOf
        <4> QED BY <2>4, <2>5, <3>2, <4>1 DEF StateOf, Seen
      <3>3. CASE j # i
        BY <1>1, <2>3, <2>5, <3>1, <3>3
      <3> QED BY <3>2, <3>3
    <2> QED BY <1>1, <1>3, <1>4, <2>3, <2>4, <2>5, <2>6 DEF DeviceAges
  <1>5. ASSUME NEW e \in Owners, PasswordChanges(e) PROVE DevicesInv'
    <2>1. \A i \in DeviceIds :
             /\ [device[i] EXCEPT !.proven = FALSE] \in Device
             /\ [device[i] EXCEPT !.proven = FALSE].owner = device[i].owner
             /\ [device[i] EXCEPT !.proven = FALSE].token = device[i].token
             /\ [device[i] EXCEPT !.proven = FALSE].status = device[i].status
      BY <1>1 DEF Device
    <2>2. \A c \in Callers :
             LET r == [call[c] EXCEPT !.proven = FALSE] IN
             /\ r \in Call
             /\ r.stage = call[c].stage /\ r.at = call[c].at /\ r.owner = call[c].owner
             /\ r.token = call[c].token /\ r.exists = call[c].exists
             /\ r.locked = call[c].locked /\ r.doomed = call[c].doomed
      BY <1>1 DEF Call
    <2>3. /\ device' \in [DeviceIds -> Device]
          /\ \A i \in DeviceIds : /\ device'[i].owner = device[i].owner
                                   /\ device'[i].token = device[i].token
                                   /\ device'[i].status = device[i].status
          /\ \A i \in DeviceIds : device[i].owner # e => device'[i] = device[i]
      BY <1>1, <1>5, <2>1 DEF PasswordChanges
    <2>4. /\ call' \in [Callers -> Call]
          /\ \A c \in Callers :
                /\ call'[c].stage = call[c].stage /\ call'[c].at = call[c].at
                /\ call'[c].owner = call[c].owner /\ call'[c].token = call[c].token
                /\ call'[c].exists = call[c].exists /\ call'[c].locked = call[c].locked
                /\ call'[c].doomed = call[c].doomed
      BY <1>1, <1>5, <2>2 DEF PasswordChanges
    <2>5. answered' \subseteq answered /\ HeartbeatsCount'
      BY <1>1, <1>5, <2>3 DEF PasswordChanges, DevicesInv, HeartbeatsCount
    <2> QED BY <1>3, <1>5, <2>3, <2>4, <2>5 DEF PasswordChanges
  <1> QED BY <1>4, <1>5

\* The writes of a registration.
LEMMA WriteKeepsDevices ==
    ASSUME DevicesInv, NEW c \in Callers, Write(c)
    PROVE  DevicesInv'
  <1> DEFINE r == call[c]
             row == [owner |-> r.owner, token |-> r.token, status |-> "active",
                     seen |-> "throttled", proven |-> r.proven]
  <1>1. /\ r \in Call /\ r.at \in Installations /\ r.at \in DeviceIds
        /\ Installations \subseteq DeviceIds /\ device \in [DeviceIds -> Device]
        /\ r.owner \in Owners /\ r.token \in PushTokens \cup {NoPushToken} /\ r.proven \in BOOLEAN
    BY DEF DevicesInv, DevicesTypeOK, Call, DeviceIds
  <1>2. row \in Device /\ row.owner = r.owner /\ row.token = r.token /\ row.status = "active"
        /\ row.seen = "throttled" /\ row.proven = r.proven
    BY <1>1 DEF Device, Seen
  <1>3. /\ device' = [i \in DeviceIds |->
             IF i = r.at THEN row ELSE IF i \in Others(c) THEN Gone(device[i]) ELSE device[i]]
        /\ mirror' = (mirror \ (r.doomed \cup Left(r))) \cup Added(r)
        /\ patched' = patched \ (r.doomed \cup Left(r) \cup Added(r))
        /\ r.stage = "write" /\ (r.exists \/ ~Exists(r.at)) /\ Others(c) \subseteq r.locked
    BY DEF Write, MirrorAfter, Collides
  <1> HIDE DEF row
  <1>4. r.at \notin Others(c) /\ Others(c) \subseteq DeviceIds
        /\ \A i \in DeviceIds : i \in Others(c) <=>
              r.token # NoPushToken /\ device[i].token = r.token /\ i # r.at
    BY DEF Others, Holders
  <1>5. /\ device' \in [DeviceIds -> Device] /\ device'[r.at] = row
        /\ \A i \in Others(c) : device'[i].status = "disabled" /\ device'[i].token = NoPushToken
        /\ \A i \in DeviceIds \ Others(c) : i # r.at => device'[i] = device[i]
    BY <1>1, <1>2, <1>3, <1>4, GoneTyped
  <1>6. /\ call' \in [Callers -> Call] /\ call'[c] = NoCall
        /\ \A d \in Callers \ {c} : call'[d] = call[d]
    BY NoCallTyped DEF Write, Calls, DevicesInv, DevicesTypeOK
  <1>7. DevicesTypeOK'
    <2>1. Added(r) \subseteq Owners \X PushTokens
      BY <1>1 DEF Added
    <2>2. answered' \subseteq Installations
      BY <1>1 DEF Write, DevicesInv, DevicesTypeOK
    <2> QED BY <1>3, <1>5, <1>6, <2>1, <2>2 DEF Write, DevicesInv, DevicesTypeOK
  <1>8. HeartbeatsCount'
    <2> SUFFICES ASSUME NEW i \in answered'
                 PROVE  StateOf(device'[i]) \in {"connected", "active"}
      BY DEF HeartbeatsCount
    <2>1. \/ i = r.at /\ r.proven
          \/ i \in answered /\ i \notin Others(c) /\ i # r.at
      BY DEF Write
    <2>2. CASE i = r.at /\ r.proven
      BY <1>2, <1>5, <2>2 DEF StateOf
    <2>3. CASE i \in answered /\ i \notin Others(c) /\ i # r.at
      BY <1>1, <1>5, <2>3 DEF DevicesInv, DevicesTypeOK, HeartbeatsCount
    <2> QED BY <2>1, <2>2, <2>3
  <1>9. TokensAreHeldOnce'
    <2>1. \A i \in DeviceIds : device'[i].token # NoPushToken =>
             /\ device'[i].status = "active"
             /\ i # r.at => device'[i].token # r.token /\ device'[i].token = device[i].token
      BY <1>1, <1>2, <1>4, <1>5 DEF DevicesInv, TokensAreHeldOnce
    <2> QED BY <1>2, <1>5, <2>1 DEF DevicesInv, TokensAreHeldOnce
  <1>10. \A i \in DeviceIds : Exists(i) => Exists(i)'
    BY <1>2, <1>5 DEF Exists
  <1>11. LocksAreHeld'
    <2>1. \A d \in Callers : call'[d].locked \subseteq DeviceIds
      BY <1>6 DEF Call
    <2> QED BY <1>6, <1>10, <2>1, NoCallTyped DEF DevicesInv, LocksAreHeld
  <1>0. PICK at \in Installations : at = r.at
    BY <1>1
  \* A row of the mirror is the one written, or stays with the installation it was due to.
  <1>12. ASSUME NEW m \in mirror' \ patched'
         PROVE  \/ m = << r.owner, r.token >> /\ r.token # NoPushToken /\ Attached(m, at)'
                \/ /\ m \in mirror \ patched /\ m \notin r.doomed
                   /\ \A i \in Installations : Attached(m, i) => Attached(m, i)'
    <2>1. m \in Added(r) \/ (m \in mirror \ patched /\ m \notin r.doomed /\ m \notin Left(r))
      BY <1>3
    <2>2. CASE m \in Added(r)
      BY <1>0, <1>2, <1>5, <2>2 DEF Added, Attached
    <2>3. CASE m \in mirror \ patched /\ m \notin r.doomed /\ m \notin Left(r) /\ m \notin Added(r)
      <3>1. m = << m[1], m[2] >> /\ m[2] \in PushTokens /\ m[2] # NoPushToken
        BY <2>3, DevicesAssumption DEF DevicesInv, DevicesTypeOK
      <3>2. ~(m[1] = r.owner /\ m[2] = r.token)
        BY <2>3, <3>1 DEF Added
      <3>3. ASSUME NEW i \in Installations, Attached(m, i) PROVE Attached(m, i)'
        <4>1. i # r.at
          <5> SUFFICES ASSUME i = r.at PROVE FALSE
            OBVIOUS
          <5>1. Exists(r.at) /\ device[r.at].owner = m[1] /\ device[r.at].token = m[2]
            BY <3>3 DEF Attached, Exists
          <5>2. r.exists
            BY <1>3, <5>1
          <5> QED BY <2>3, <3>1, <3>2, <5>1, <5>2 DEF Left
        <4>2. i \notin Others(c)
          <5> SUFFICES ASSUME i \in Others(c) PROVE FALSE
            OBVIOUS
          <5>1. m[2] = r.token /\ m[1] # r.owner
            BY <1>1, <1>4, <3>2, <3>3 DEF Attached
          <5>2. PICK j \in Installations \ r.locked : Attached(m, j)
            BY <1>3, <2>3, <5>1 DEF DevicesInv, OthersAreDoomed
          <5>3. j = i
            BY <1>1, <3>1, <3>3, <5>2 DEF Attached, DevicesInv, TokensAreHeldOnce
          <5> QED BY <1>3, <5>2, <5>3
        <4> QED BY <1>1, <1>5, <3>3, <4>1, <4>2 DEF Attached
      <3> QED BY <2>3, <3>3
    <2> QED BY <2>1, <2>2, <2>3
  <1>13. MirrorIsAttached'
    <2> SUFFICES ASSUME NEW m \in mirror' \ patched'
                 PROVE  \E i \in Installations : Attached(m, i)'
      BY DEF MirrorIsAttached
    <2> QED BY <1>0, <1>12 DEF DevicesInv, MirrorIsAttached
  <1>14. OthersAreDoomed'
    <2> SUFFICES ASSUME NEW d \in Callers, call'[d].stage = "write", NEW m \in mirror' \ patched',
                        m[2] = call'[d].token, m[1] # call'[d].owner
                 PROVE  \/ m \in call'[d].doomed
                        \/ \E i \in Installations \ call'[d].locked : Attached(m, i)'
      BY DEF OthersAreDoomed
    <2>1. d # c /\ call'[d] = call[d]
      BY <1>6, NoCallTyped
    <2>2. r.at \notin call[d].locked
      <3> SUFFICES ASSUME r.at \in call[d].locked PROVE FALSE
        OBVIOUS
      <3>1. Exists(r.at)
        BY DEF DevicesInv, LocksAreHeld
      <3>2. r.at \in r.locked
        BY <1>3, <3>1 DEF DevicesInv, LocksAreHeld
      <3> QED BY <1>1, <2>1, <3>2 DEF DevicesInv, LocksAreHeld
    <2>3. CASE Attached(m, at)'
      BY <1>0, <2>1, <2>2, <2>3
    <2>4. CASE /\ m \in mirror \ patched
               /\ \A i \in Installations : Attached(m, i) => Attached(m, i)'
      BY <2>1, <2>4 DEF DevicesInv, OthersAreDoomed
    <2> QED BY <1>12, <2>3, <2>4
  <1> QED BY <1>7, <1>8, <1>9, <1>11, <1>13, <1>14 DEF DevicesInv

LEMMA DevicesInvariant == DevicesSpec => []DevicesInv
  <1>1. DevicesInit => DevicesInv
    <2> SUFFICES ASSUME DevicesInit PROVE DevicesInv
      OBVIOUS
    <2>1. NoDevice \in Device /\ NoDevice.token = NoPushToken
      BY DEF NoDevice, Device, Seen
    <2>2. \A i \in DeviceIds : device[i] = NoDevice
      BY DEF DevicesInit
    <2>3. \A c \in Callers : call[c] = NoCall
      BY DEF DevicesInit
    <2>4. DevicesTypeOK
      BY <2>1, NoCallTyped, DevicesAssumption DEF DevicesInit, DevicesTypeOK
    <2>5. HeartbeatsCount /\ TokensAreHeldOnce /\ MirrorIsAttached
      BY <2>1, <2>2 DEF DevicesInit, HeartbeatsCount, TokensAreHeldOnce, MirrorIsAttached
    <2>6. LocksAreHeld /\ OthersAreDoomed
      BY <2>3, NoCallTyped DEF LocksAreHeld, OthersAreDoomed
    <2> QED BY <2>4, <2>5, <2>6 DEF DevicesInv
  <1>2. DevicesInv /\ [DevicesNext]_deviceVars => DevicesInv'
    <2>1. DevicesInv /\ UNCHANGED deviceVars => DevicesInv'
      BY DEF deviceVars, DevicesInv, DevicesTypeOK, HeartbeatsCount, TokensAreHeldOnce,
             LocksAreHeld, MirrorIsAttached, OthersAreDoomed, Attached, Exists
    <2> QED BY <2>1, RegistrationsKeepDevices, OthersKeepDevices, LegacyKeepsDevices,
               TimeKeepsDevices, WriteKeepsDevices DEF DevicesNext
  <1> QED BY <1>1, <1>2, PTL DEF DevicesSpec

\* Installations, mirror and calls keep their types; in particular a call gives up after the
\* attempts the code allows, for any number of callers (RegisterDevice).
THEOREM DevicesStayTyped == DevicesSpec => []DevicesTypeOK
  BY DevicesInvariant, PTL DEF DevicesInv

\* For any number of phones, callers and retries: an answered heartbeat keeps its session
\* usable (RegisterDevice, StateSQL).
THEOREM HeartbeatsAlwaysCount == DevicesSpec => []HeartbeatsCount
  <1>1. DevicesInv => HeartbeatsCount
    BY DEF DevicesInv
  <1> QED BY <1>1, DevicesInvariant, PTL

\* However registrations, sign-outs, dead tokens and older versions race, a token has one
\* installation, and the mirror has nobody else (RegisterDevice, SignOut, InvalidateToken).
THEOREM MirrorNamesTheOwner == DevicesSpec => []MirrorHasNoStranger
  <1>1. DevicesInv => MirrorHasNoStranger
    <2> SUFFICES ASSUME DevicesInv PROVE MirrorHasNoStranger
      OBVIOUS
    <2>1. ASSUME NEW t \in PushTokens PROVE Cardinality(Holders(t)) <= 1
      <3>1. t # NoPushToken
        BY DevicesAssumption
      <3>2. \A i, j \in Holders(t) : i = j
        BY <3>1 DEF Holders, DevicesInv, TokensAreHeldOnce
      <3>3. CASE Holders(t) = {}
        BY <3>3, FS_EmptySet
      <3>4. CASE Holders(t) # {}
        <4>1. PICK i \in Holders(t) : TRUE
          BY <3>4
        <4>2. Holders(t) = {i}
          BY <3>2, <4>1
        <4>3. Cardinality({i}) = 1
          BY FS_Singleton
        <4> QED BY <4>2, <4>3
      <3> QED BY <3>3, <3>4
    <2>2. ASSUME NEW m \in mirror \ patched
          PROVE  \E i \in DeviceIds : device[i].status = "active" /\ device[i].owner = m[1]
                                     /\ device[i].token = m[2]
      BY DEF DevicesInv, MirrorIsAttached, Attached, DeviceIds
    <2> QED BY <2>1, <2>2 DEF MirrorHasNoStranger
  <1> QED BY <1>1, DevicesInvariant, PTL

\* A registration only deletes from the mirror what another account has of its token.
DoomedAreOthers ==
    \A c \in Callers : \A m \in call[c].doomed :
        m[2] = call[c].token /\ m[1] # call[c].owner

LEMMA DoomedStayOthers ==
    ASSUME DevicesTypeOK, DoomedAreOthers, [DevicesNext]_deviceVars
    PROVE  DoomedAreOthers'
  <1>1. call \in [Callers -> Call]
    BY DEF DevicesTypeOK
  <1>2. ASSUME UNCHANGED call PROVE DoomedAreOthers'
    BY <1>2 DEF DoomedAreOthers
  <1>3. ASSUME NEW c \in Callers, NEW r, Calls(c, r),
               \A m \in r.doomed : m[2] = r.token /\ m[1] # r.owner
        PROVE  DoomedAreOthers'
    <2>1. call'[c] = r /\ \A d \in Callers \ {c} : call'[d] = call[d]
      BY <1>1, <1>3 DEF Calls
    <2> QED BY <1>3, <2>1 DEF DoomedAreOthers
  <1>4. ASSUME NEW c \in Callers, Calls(c, NoCall) PROVE DoomedAreOthers'
    BY <1>3, <1>4 DEF NoCall
  <1>5. ASSUME NEW c \in Callers, NEW i, NEW e, NEW t, NEW n, Begin(c, i, e, t, n)
        PROVE  DoomedAreOthers'
    BY <1>3, <1>4, <1>5 DEF Begin
  <1>6. ASSUME NEW c \in Callers, TakeToken(c) PROVE DoomedAreOthers'
    <2> DEFINE r == [call[c] EXCEPT !.stage = "write", !.locked = @ \cup Others(c),
                         !.doomed = {m \in mirror : m[2] = call[c].token /\ m[1] # call[c].owner}]
    <2>1. /\ r.token = call[c].token /\ r.owner = call[c].owner
          /\ r.doomed = {m \in mirror : m[2] = call[c].token /\ m[1] # call[c].owner}
      BY <1>1 DEF Call
    <2>2. Calls(c, r)
      BY <1>6 DEF TakeToken
    <2> HIDE DEF r
    <2> QED BY <1>3, <2>1, <2>2
  <1>7. ASSUME NEW e \in Owners, PasswordChanges(e) PROVE DoomedAreOthers'
    <2>1. ASSUME NEW c \in Callers
          PROVE  /\ call'[c].doomed = call[c].doomed /\ call'[c].token = call[c].token
                 /\ call'[c].owner = call[c].owner
      BY <1>1, <1>7 DEF PasswordChanges, Call
    <2> QED BY <2>1 DEF DoomedAreOthers
  <1>8. ASSUME NEW c \in Callers,
               \/ \E i \in Installations, e \in Owners, t \in PushTokens \cup {NoPushToken} :
                     RegisterDevice(c, i, e, t)
               \/ Write(c) \/ RetryRegister(c) \/ RegisterFails(c)
        PROVE  DoomedAreOthers'
    BY <1>4, <1>5, <1>8 DEF RegisterDevice, Write, RetryRegister, RegisterFails
  <1>9. CASE \/ \E i \in DeviceIds : \/ SignOut(i) \/ DeviceAges(i)
                                     \/ \E t \in PushTokens : InvalidateToken(i, t)
             \/ \E t \in PushTokens : PruneToken(t)
             \/ \E e \in Owners, t \in PushTokens : UpdateNewfToken(e, t) \/ RegisterLegacyToken(e, t)
             \/ UNCHANGED deviceVars
    BY <1>2, <1>9 DEF SignOut, InvalidateToken, Disable, DeviceAges, PruneToken, UpdateNewfToken,
                      RegisterLegacyToken, deviceVars
  <1> QED BY <1>6, <1>7, <1>8, <1>9 DEF DevicesNext

-----------------------------------------------------------------------------
(* Registrations as one step *)

RegistryStep == [Registry!RegistryNext]_(Registry!registryVars)

Names == mirror \ patched

\* What the registry has of the row i.
UseOf(i) == << i, device[i].owner, device[i].token >>

LEMMA InUseIs ==
    ASSUME NEW d
    PROVE  d \in InUse <=> \E i \in DeviceIds : device[i].status = "active" /\ d = UseOf(i)
  BY DEF InUse, UseOf

LEMMA UsedIs ==
    ASSUME NEW i \in DeviceIds
    PROVE  Registry!Used(i) = IF device[i].status = "active"
                              THEN {<< device[i].owner, device[i].token >>} ELSE {}
  <1>1. ASSUME NEW d \in InUse, d[1] = i
        PROVE  device[i].status = "active" /\ d[2] = device[i].owner /\ d[3] = device[i].token
    <2>1. PICK j \in DeviceIds : device[j].status = "active" /\ d = UseOf(j)
      BY InUseIs
    <2> QED BY <1>1, <2>1 DEF UseOf
  <1>2. device[i].status = "active" => UseOf(i) \in InUse /\ UseOf(i)[1] = i
        /\ UseOf(i)[2] = device[i].owner /\ UseOf(i)[3] = device[i].token
    BY InUseIs DEF UseOf
  <1> QED BY <1>1, <1>2 DEF Registry!Used

\* Rows and names as they were.
LEMMA RegistryStays ==
    ASSUME \A i \in DeviceIds : /\ device'[i].owner = device[i].owner
                                /\ device'[i].token = device[i].token
                                /\ device'[i].status = device[i].status,
           Names' = Names
    PROVE  RegistryStep
  <1>1. InUse' = InUse
    <2>1. \A d : d \in InUse' <=> d \in InUse
      BY DEF InUse
    <2> QED BY <2>1
  <1> QED BY <1>1 DEF RegistryStep, Registry!registryVars, Names

LEMMA WriteIsRegistration ==
    ASSUME DevicesInv, DoomedAreOthers, NEW c \in Callers, Write(c)
    PROVE  RegistryStep
  <1> DEFINE r == call[c]
             row == [owner |-> r.owner, token |-> r.token, status |-> "active",
                     seen |-> "throttled", proven |-> r.proven]
  <1>1. /\ r \in Call /\ r.at \in Installations /\ r.at \in DeviceIds
        /\ Installations \subseteq DeviceIds /\ device \in [DeviceIds -> Device]
        /\ r.owner \in Owners /\ r.token \in PushTokens \cup {NoPushToken}
        /\ mirror \subseteq Owners \X PushTokens
    BY DEF DevicesInv, DevicesTypeOK, Call, DeviceIds
  <1>2. row.owner = r.owner /\ row.token = r.token /\ row.status = "active"
    OBVIOUS
  <1>3. /\ device' = [i \in DeviceIds |->
             IF i = r.at THEN row ELSE IF i \in Others(c) THEN Gone(device[i]) ELSE device[i]]
        /\ mirror' = (mirror \ (r.doomed \cup Left(r))) \cup Added(r)
        /\ patched' = patched \ (r.doomed \cup Left(r) \cup Added(r))
        /\ r.stage = "write" /\ (r.exists \/ ~Exists(r.at)) /\ Others(c) \subseteq r.locked
    BY DEF Write, MirrorAfter, Collides
  <1> HIDE DEF row
  <1>4. r.at \notin Others(c) /\ Others(c) \subseteq DeviceIds
        /\ \A i \in DeviceIds : i \in Others(c) <=>
              r.token # NoPushToken /\ device[i].token = r.token /\ i # r.at
    BY DEF Others, Holders
  <1>5. /\ device'[r.at] = row
        /\ \A i \in Others(c) : device'[i].status = "disabled"
        /\ \A i \in DeviceIds \ Others(c) : i # r.at => device'[i] = device[i]
    BY <1>1, <1>3, <1>4, GoneTyped
  <1>6. Exists(r.at) => r.exists /\ r.at \in r.locked
    BY <1>3 DEF DevicesInv, LocksAreHeld
  <1>7. InUse' = {d \in InUse : d[1] # r.at /\ (d[3] = r.token => r.token = NoPushToken)}
                 \cup {<< r.at, r.owner, r.token >>}
    <2>1. ASSUME NEW d, NEW i \in DeviceIds, d = << i, device'[i].owner, device'[i].token >>,
                 device'[i].status = "active"
          PROVE  \/ d = << r.at, r.owner, r.token >>
                 \/ d \in InUse /\ d[1] # r.at /\ (d[3] = r.token => r.token = NoPushToken)
      <3>1. CASE i = r.at
        BY <1>2, <1>5, <2>1, <3>1
      <3>2. CASE i # r.at
        <4>1. i \notin Others(c) /\ device'[i] = device[i]
          BY <1>5, <2>1, <3>2
        <4>2. d \in InUse
          BY <2>1, <4>1, InUseIs DEF UseOf
        <4> QED BY <1>4, <2>1, <3>2, <4>1, <4>2
      <3> QED BY <3>1, <3>2
    <2>2. ASSUME NEW d \in InUse, d[1] # r.at, d[3] = r.token => r.token = NoPushToken
          PROVE  d \in InUse'
      <3>1. PICK i \in DeviceIds : device[i].status = "active" /\ d = UseOf(i)
        BY InUseIs
      <3>2. device'[i] = device[i]
        BY <1>4, <1>5, <2>2, <3>1 DEF UseOf
      <3> QED BY <3>1, <3>2 DEF InUse, UseOf
    <2>3. << r.at, r.owner, r.token >> \in InUse'
      BY <1>1, <1>2, <1>5 DEF InUse
    <2>4. \A d \in InUse' : \E i \in DeviceIds :
              d = << i, device'[i].owner, device'[i].token >> /\ device'[i].status = "active"
      BY DEF InUse
    <2> QED BY <2>1, <2>2, <2>3, <2>4
  \* What is deleted is what a registration at once would delete.
  <1>8. ASSUME NEW m \in Names, m \notin Added(r)
        PROVE  m \in r.doomed \cup Left(r) <=>
                  (m[2] = r.token /\ m[1] # r.owner) \/ m \in Registry!Used(r.at)
    <2>1. m = << m[1], m[2] >> /\ m[2] # NoPushToken
      BY <1>1, DevicesAssumption DEF Names
    <2>2. ~(m[1] = r.owner /\ m[2] = r.token)
      BY <1>8, <2>1 DEF Added
    <2>3. m \in r.doomed => m[2] = r.token /\ m[1] # r.owner
      BY DEF DoomedAreOthers
    <2>4. m \in Left(r) <=> m \in Registry!Used(r.at)
      <3>1. m \in Left(r) <=> /\ r.exists /\ device[r.at].token # NoPushToken
                              /\ m = << device[r.at].owner, device[r.at].token >>
        BY <2>2 DEF Left
      <3>2. m \in Registry!Used(r.at) <=> /\ device[r.at].status = "active"
                                          /\ m = << device[r.at].owner, device[r.at].token >>
        BY <1>1, UsedIs
      <3>3. device[r.at].token # NoPushToken => device[r.at].status = "active"
        BY <1>1 DEF DevicesInv, TokensAreHeldOnce
      <3>4. device[r.at].status = "active" => r.exists
        BY <1>6 DEF Exists
      <3> QED BY <2>1, <3>1, <3>2, <3>3, <3>4
    <2>5. ASSUME m[2] = r.token, m[1] # r.owner PROVE m \in r.doomed \cup Left(r)
      <3>1. CASE m \in r.doomed
        BY <3>1
      <3>2. CASE m \notin r.doomed
        <4>1. PICK i \in Installations \ r.locked : Attached(m, i)
          BY <1>3, <2>5, <3>2 DEF Names, DevicesInv, OthersAreDoomed
        <4>2. i = r.at
          BY <1>1, <1>3, <1>4, <2>1, <2>5, <4>1 DEF Attached
        <4> QED BY <1>6, <4>1, <4>2 DEF Attached, Exists
      <3> QED BY <3>1, <3>2
    <2> QED BY <2>3, <2>4, <2>5
  <1>9. Names' = ({m \in Names : m[2] = r.token => m[1] = r.owner} \ Registry!Used(r.at))
                 \cup Registry!With(r.owner, r.token)
    <2>1. Names' = (Names \ (r.doomed \cup Left(r))) \cup Added(r)
      BY <1>3 DEF Names
    <2>2. Registry!With(r.owner, r.token) = Added(r)
      BY DEF Registry!With, Added
    <2> QED BY <1>8, <2>1, <2>2
  <1>10. Registry!Registers(r.at, r.owner, r.token)
    BY <1>7, <1>9 DEF Registry!Registers, Names
  <1> QED BY <1>1, <1>10 DEF RegistryStep, Registry!RegistryNext

LEMMA DisableRetires ==
    ASSUME DevicesInv, NEW i \in DeviceIds, device[i].status = "active", Disable(i)
    PROVE  RegistryStep
  <1>1. device \in [DeviceIds -> Device]
    BY DEF DevicesInv, DevicesTypeOK
  <1>2. device'[i].status = "disabled" /\ \A j \in DeviceIds \ {i} : device'[j] = device[j]
    BY <1>1, GoneTyped DEF Disable
  <1>3. InUse' = {d \in InUse : d[1] # i}
    <2>1. \A d \in InUse' : \E j \in DeviceIds :
              d = << j, device'[j].owner, device'[j].token >> /\ device'[j].status = "active"
      BY DEF InUse
    <2>2. \A d \in InUse' : d \in InUse /\ d[1] # i
      BY <1>2, <2>1, InUseIs DEF UseOf
    <2>3. ASSUME NEW d \in InUse, d[1] # i PROVE d \in InUse'
      <3>1. PICK j \in DeviceIds : device[j].status = "active" /\ d = UseOf(j)
        BY InUseIs
      <3>2. device'[j] = device[j]
        BY <1>2, <2>3, <3>1 DEF UseOf
      <3> QED BY <3>1, <3>2 DEF InUse, UseOf
    <2> QED BY <2>2, <2>3
  <1>4. Names' = Names \ Registry!Used(i)
    BY UsedIs DEF Names, Disable
  <1>5. UseOf(i) \in InUse /\ UseOf(i)[1] = i
    BY InUseIs DEF UseOf
  <1>6. Registry!Retires(i)
    BY <1>3, <1>4, <1>5 DEF Registry!Retires, Names
  <1> QED BY <1>6 DEF RegistryStep, Registry!RegistryNext, DeviceIds

LEMMA LegacyIsAdopted ==
    ASSUME DevicesInv, NEW e \in Owners, NEW t \in PushTokens, RegisterLegacyToken(e, t)
    PROVE  RegistryStep
  <1> DEFINE row == [owner |-> e, token |-> t, status |-> "active",
                     seen |-> "throttled", proven |-> TRUE]
  <1>1. PICK g \in LegacyIds :
           /\ Holders(t) = {g} \/ (Holders(t) = {} /\ ~Exists(g))
           /\ device' = [device EXCEPT ![g] = row]
    BY DEF RegisterLegacyToken
  <1>2. row.owner = e /\ row.token = t /\ row.status = "active"
    OBVIOUS
  <1> HIDE DEF row
  <1>3. device \in [DeviceIds -> Device] /\ g \in DeviceIds
    BY DEF DevicesInv, DevicesTypeOK, DeviceIds
  <1>4. device'[g] = row /\ \A j \in DeviceIds \ {g} : device'[j] = device[j]
    BY <1>1, <1>3
  <1>5. \A d \in InUse : (d[3] = t => d[1] = g) /\ (d[1] = g => d[3] = t)
    <2> SUFFICES ASSUME NEW j \in DeviceIds, device[j].status = "active"
                 PROVE  (device[j].token = t => j = g) /\ (j = g => device[j].token = t)
      BY InUseIs DEF UseOf
    <2> QED BY <1>1 DEF Holders, Exists
  <1>6. ASSUME NEW m \in Names PROVE m[2] # t
    <2>1. PICK i \in Installations : Attached(m, i)
      BY DEF Names, DevicesInv, MirrorIsAttached
    <2>2. i \in DeviceIds /\ i # g
      BY DevicesAssumption DEF DeviceIds
    <2> QED BY <1>1, <2>1, <2>2 DEF Attached, Holders
  <1>7. InUse' = {d \in InUse : d[1] # g} \cup {<< g, e, t >>}
    <2>1. \A d \in InUse' : \E j \in DeviceIds :
              d = << j, device'[j].owner, device'[j].token >> /\ device'[j].status = "active"
      BY DEF InUse
    <2>2. \A d \in InUse' : d = << g, e, t >> \/ (d \in InUse /\ d[1] # g)
      BY <1>2, <1>4, <2>1, InUseIs DEF UseOf
    <2>3. ASSUME NEW d \in InUse, d[1] # g PROVE d \in InUse'
      <3>1. PICK j \in DeviceIds : device[j].status = "active" /\ d = UseOf(j)
        BY InUseIs
      <3>2. device'[j] = device[j]
        BY <1>4, <2>3, <3>1 DEF UseOf
      <3> QED BY <3>1, <3>2 DEF InUse, UseOf
    <2>4. << g, e, t >> \in InUse'
      BY <1>2, <1>3, <1>4 DEF InUse
    <2> QED BY <2>2, <2>3, <2>4
  <1>8. Registry!Adopts(g, e, t)
    BY <1>5, <1>6, <1>7 DEF Registry!Adopts, RegisterLegacyToken, Names
  <1> QED BY <1>8 DEF RegistryStep, Registry!RegistryNext

LEMMA NextIsRegistryStep ==
    ASSUME DevicesInv, DoomedAreOthers, [DevicesNext]_deviceVars
    PROVE  RegistryStep
  <1>1. /\ device \in [DeviceIds -> Device] /\ mirror \subseteq Owners \X PushTokens
    BY DEF DevicesInv, DevicesTypeOK
  <1>2. ASSUME UNCHANGED << device, mirror, patched >> PROVE RegistryStep
    BY <1>2, RegistryStays DEF Names
  <1>3. ASSUME NEW c \in Callers,
               \/ \E i \in Installations, e \in Owners, t \in PushTokens \cup {NoPushToken} :
                     RegisterDevice(c, i, e, t)
               \/ TakeToken(c) \/ RetryRegister(c) \/ RegisterFails(c)
        PROVE  RegistryStep
    BY <1>2, <1>3 DEF RegisterDevice, TakeToken, RetryRegister, RegisterFails, Begin
  <1>4. ASSUME NEW i \in DeviceIds, SignOut(i) \/ \E t \in PushTokens : InvalidateToken(i, t)
        PROVE  RegistryStep
    BY <1>4, DisableRetires DEF SignOut, InvalidateToken
  <1>5. ASSUME NEW i \in DeviceIds, DeviceAges(i) PROVE RegistryStep
    <2>1. PICK s : device' = [device EXCEPT ![i].seen = s]
      BY <1>5 DEF DeviceAges
    <2>2. \A j \in DeviceIds : /\ device'[j].owner = device[j].owner
                               /\ device'[j].token = device[j].token
                               /\ device'[j].status = device[j].status
      BY <1>1, <2>1 DEF Device
    <2> QED BY <1>5, <2>2, RegistryStays DEF DeviceAges, Names
  <1>6. ASSUME NEW t \in PushTokens, PruneToken(t) PROVE RegistryStep
    <2>1. Names' = {m \in Names : m[2] # t} /\ InUse' = InUse
      BY <1>6 DEF PruneToken, Names, InUse
    <2>2. Registry!Forgets(t)
      BY <2>1 DEF Registry!Forgets, Names
    <2> QED BY <2>2 DEF RegistryStep, Registry!RegistryNext
  <1>7. ASSUME NEW e \in Owners, NEW t \in PushTokens, UpdateNewfToken(e, t) PROVE RegistryStep
    <2>1. Names' = Names
      BY <1>7 DEF UpdateNewfToken, Names
    <2> QED BY <1>7, <2>1, RegistryStays DEF UpdateNewfToken
  <1>8. ASSUME NEW e \in Owners, PasswordChanges(e) PROVE RegistryStep
    <2>1. \A j \in DeviceIds : /\ device'[j].owner = device[j].owner
                               /\ device'[j].token = device[j].token
                               /\ device'[j].status = device[j].status
      BY <1>1, <1>8 DEF PasswordChanges, Device
    <2> QED BY <1>8, <2>1, RegistryStays DEF PasswordChanges, Names
  <1>9. CASE UNCHANGED deviceVars
    BY <1>2, <1>9 DEF deviceVars
  <1> QED BY <1>3, <1>4, <1>5, <1>6, <1>7, <1>8, <1>9, WriteIsRegistration, LegacyIsAdopted
          DEF DevicesNext

\* For any number of phones, accounts, tokens, callers and retries, the statements, locks and
\* collisions of a registration amount to one step of the registry, and nothing else gives a
\* token to anybody (Service.register, SignOut, InvalidateToken, RegisterLegacyToken).
THEOREM RegistrationsActAtOnce == DevicesSpec => RegistrationsAreAtomic
  <1>1. DevicesInit => Registry!RegistryInit /\ DoomedAreOthers
    <2> SUFFICES ASSUME DevicesInit PROVE Registry!RegistryInit /\ DoomedAreOthers
      OBVIOUS
    <2>1. \A c \in Callers : call[c].doomed = {}
      BY DEF DevicesInit, NoCall
    <2>2. \A i \in DeviceIds : device[i].status = "none"
      BY DEF DevicesInit, NoDevice
    <2>3. InUse = {}
      BY <2>2 DEF InUse
    <2> QED BY <2>1, <2>3 DEF DevicesInit, Registry!RegistryInit, DoomedAreOthers
  <1>2. DevicesInv => DevicesTypeOK
    BY DEF DevicesInv
  <1>3. DevicesTypeOK /\ DoomedAreOthers /\ [DevicesNext]_deviceVars => DoomedAreOthers'
    BY DoomedStayOthers
  <1>4. DevicesInv /\ DoomedAreOthers /\ [DevicesNext]_deviceVars
        => [Registry!RegistryNext]_(Registry!registryVars)
    BY NextIsRegistryStep DEF RegistryStep
  <1> QED BY <1>1, <1>2, <1>3, <1>4, DevicesInvariant, PTL
          DEF DevicesSpec, RegistrationsAreAtomic, Registry!RegistrySpec

\* What the registry promises, step by step.
LEMMA RegistryStaysOK ==
    ASSUME Registry!RegistryOK, [Registry!RegistryNext]_(Registry!registryVars)
    PROVE  Registry!RegistryOK'
  <1> DEFINE N == mirror \ patched
  <1>0. /\ \A d, f \in InUse : d[1] = f[1] \/ (d[3] = f[3] /\ d[3] # NoPushToken) => d = f
        /\ N \subseteq Owners \X PushTokens
        /\ \A m \in N : \E d \in InUse : m = << d[2], d[3] >>
    BY DEF Registry!RegistryOK
  <1>1. ASSUME NEW i \in Installations, NEW e \in Owners, NEW t \in PushTokens \cup {NoPushToken},
               Registry!Registers(i, e, t)
        PROVE  Registry!RegistryOK'
    <2>1. /\ InUse' = {d \in InUse : d[1] # i /\ (d[3] = t => t = NoPushToken)} \cup {<< i, e, t >>}
          /\ N' = ({m \in N : m[2] = t => m[1] = e} \ Registry!Used(i)) \cup Registry!With(e, t)
      BY <1>1 DEF Registry!Registers
    <2>2. ASSUME NEW d \in InUse', NEW f \in InUse', d[1] = f[1] \/ (d[3] = f[3] /\ d[3] # NoPushToken)
          PROVE  d = f
      BY <1>0, <2>1, <2>2
    <2>3. Registry!With(e, t) \subseteq Owners \X PushTokens
      BY <1>1 DEF Registry!With
    <2>4. \E d \in InUse' : << e, t >> = << d[2], d[3] >>
      <3>1. << i, e, t >>[2] = e /\ << i, e, t >>[3] = t /\ << i, e, t >> \in InUse'
        BY <2>1
      <3> QED BY <3>1
    <2>5. ASSUME NEW m \in N' PROVE \E d \in InUse' : m = << d[2], d[3] >>
      <3>1. CASE m \in Registry!With(e, t)
        BY <2>4, <3>1 DEF Registry!With
      <3>2. CASE m \in N /\ (m[2] = t => m[1] = e) /\ m \notin Registry!Used(i)
        <4>1. PICK d \in InUse : m = << d[2], d[3] >>
          BY <1>0, <3>2
        <4>2. d[1] # i
          BY <3>2, <4>1 DEF Registry!Used
        <4>3. CASE d[3] = t
          <5>1. m[2] = d[3] /\ m[1] = d[2]
            BY <4>1
          <5>2. m = << e, t >>
            BY <3>2, <4>1, <4>3, <5>1
          <5> QED BY <2>4, <5>2
        <4>4. CASE d[3] # t
          BY <2>1, <4>1, <4>2, <4>4
        <4> QED BY <4>3, <4>4
      <3> QED BY <2>1, <3>1, <3>2
    <2> QED BY <1>0, <2>1, <2>2, <2>3, <2>5 DEF Registry!RegistryOK
  <1>2. ASSUME NEW i, Registry!Retires(i) PROVE Registry!RegistryOK'
    <2>1. InUse' = {d \in InUse : d[1] # i} /\ N' = N \ Registry!Used(i)
      BY <1>2 DEF Registry!Retires
    <2>2. ASSUME NEW m \in N' PROVE \E d \in InUse' : m = << d[2], d[3] >>
      <3>1. PICK d \in InUse : m = << d[2], d[3] >>
        BY <1>0, <2>1
      <3>2. d[1] # i
        BY <2>1, <3>1 DEF Registry!Used
      <3> QED BY <2>1, <3>1, <3>2
    <2> QED BY <1>0, <2>1, <2>2 DEF Registry!RegistryOK
  <1>3. ASSUME NEW t, Registry!Forgets(t) PROVE Registry!RegistryOK'
    BY <1>0, <1>3 DEF Registry!Forgets, Registry!RegistryOK
  <1>4. ASSUME NEW g, NEW e, NEW t, Registry!Adopts(g, e, t) PROVE Registry!RegistryOK'
    <2>1. /\ InUse' = {d \in InUse : d[1] # g} \cup {<< g, e, t >>} /\ N' = N
          /\ \A d \in InUse : (d[3] = t => d[1] = g) /\ (d[1] = g => d[3] = t)
          /\ \A m \in N : m[2] # t
      BY <1>4 DEF Registry!Adopts
    <2>2. ASSUME NEW m \in N PROVE \E d \in InUse' : m = << d[2], d[3] >>
      <3>1. PICK d \in InUse : m = << d[2], d[3] >>
        BY <1>0
      <3> QED BY <2>1, <3>1
    <2>3. ASSUME NEW d \in InUse', NEW f \in InUse', d[1] = f[1] \/ (d[3] = f[3] /\ d[3] # NoPushToken)
          PROVE  d = f
      BY <1>0, <2>1, <2>3
    <2> QED BY <1>0, <2>1, <2>2, <2>3 DEF Registry!RegistryOK
  <1>5. CASE UNCHANGED Registry!registryVars
    BY <1>0, <1>5 DEF Registry!registryVars, Registry!RegistryOK
  <1> QED BY <1>1, <1>2, <1>3, <1>4, <1>5 DEF Registry!RegistryNext

\* The registry of tokens is right whatever races: an installation has one account, a token one
\* installation, and an account is named with a token only while it uses it (Service.register).
THEOREM RegistryStaysRight == DevicesSpec => []Registry!RegistryOK
  <1>1. Registry!RegistryInit => Registry!RegistryOK
    BY DEF Registry!RegistryInit, Registry!RegistryOK
  <1> QED BY <1>1, RegistryStaysOK, RegistrationsActAtOnce, PTL
          DEF RegistrationsAreAtomic, Registry!RegistrySpec

-----------------------------------------------------------------------------
(* The catalogue of reservations and its tree *)

\* Rows are numbered as they are made; a row is below an older one, and an item in a
\* category that is there.
RowsAreOrdered ==
    /\ \A r \in categories \cup items : r.id <= rowsMade /\ r.parent < r.id
    /\ \A i, j \in items : i.id = j.id => i.parent = j.parent
    /\ \A i \in items : i.parent \in IdsOf(categories) \cup {TopLevel}
    /\ \A e \in Editors : edit[e].row <= rowsMade

\* Of what was there when the tree began the tree holds every category that is left, and
\* the category of every item that is left.
CategoriesAreRead ==
    tree.step # "none" =>
        /\ \A k \in tree.categories : k.parent < k.id
        /\ \A x \in tree.since : x <= rowsMade
        /\ \A k \in categories : k.id \in tree.since => k \in tree.categories
        /\ \A i \in items : i.id \in tree.since =>
              i.parent \in IdsOf(tree.categories) \cup {TopLevel}

ItemsAreRead ==
    tree.step \in {"items"} \cup TreeEnds =>
        /\ \A i \in items : i.id \in tree.since /\ i.parent # TopLevel =>
              \E j \in tree.placed : j.id = i.id
        /\ \A j \in tree.placed :
              /\ j.parent \in IdsOf(tree.categories) /\ j.parent # TopLevel /\ j.id <= rowsMade
              /\ \A i \in items : i.id = j.id => i.parent = j.parent

LooseAreRead ==
    /\ tree.step # "shown" => tree.loose = {}
    /\ tree.step = "shown" =>
        /\ \A i \in items : i.id \in tree.since /\ i.parent = TopLevel => i.id \in IdsOf(tree.loose)
        /\ IdsOf(tree.placed) \cap IdsOf(tree.loose) = {}

CatalogueInv ==
    CatalogueTypeOK /\ RowsAreOrdered /\ CategoriesAreRead /\ ItemsAreRead /\ LooseAreRead

LEMMA NoEditTyped == NoEdit \in Edit /\ NoEdit.row = 0
  BY CatalogueAssumption DEF NoEdit, Edit, TopLevel

LEMMA NoTreeTyped ==
    NoTree \in [step : {"none", "categories", "items"} \cup TreeEnds,
                categories : SUBSET Category, placed : SUBSET Item, loose : SUBSET Item,
                since : SUBSET Ids]
  BY DEF NoTree

LEMMA CatalogueStarts == CatalogueInit => CatalogueInv
  <1> SUFFICES ASSUME CatalogueInit PROVE CatalogueInv
    OBVIOUS
  <1>1. tree.step = "none" /\ tree.loose = {}
    BY DEF CatalogueInit, NoTree
  <1> QED BY <1>1, NoEditTyped, NoTreeTyped, CatalogueAssumption
       DEF CatalogueInit, CatalogueInv, CatalogueTypeOK, RowsAreOrdered, CategoriesAreRead,
           ItemsAreRead, LooseAreRead, TreeEnds

\* What a call must do to the rows: one may be new, an item that stays stays in its
\* category, and a category that leaves has no item.
LEMMA RowsOfTheStep ==
    ASSUME CatalogueInv, CatalogueTypeOK', tree' = tree,
           rowsMade' \in {rowsMade, rowsMade + 1},
           \A k \in categories' : k \in categories \/ (k.id = rowsMade + 1 /\ k.id = rowsMade'
                                                       /\ k.parent <= rowsMade),
           \A i \in items' : \/ \E j \in items : i.id = j.id /\ i.parent = j.parent
                             \/ i.id = rowsMade + 1 /\ i.id = rowsMade' /\ i.parent <= rowsMade,
           \A i, j \in items' : i.id = j.id /\ i.id = rowsMade + 1 => i = j,
           \A i \in items' : i.parent \in IdsOf(categories') \cup {TopLevel},
           \A e \in Editors : edit'[e].row <= rowsMade'
    PROVE  CatalogueInv'
  <1>1. rowsMade \in Nat /\ \A r \in categories \cup items : r.id \in Nat /\ r.parent \in Nat
    BY DEF CatalogueInv, CatalogueTypeOK, Category, Item, Ids
  <1>2. \A i \in items : i.id # rowsMade + 1
    BY <1>1 DEF CatalogueInv, RowsAreOrdered
  <1>3. RowsAreOrdered'
    <2>0. /\ rowsMade' \in Nat
          /\ \A r \in categories' \cup items' : r.id \in Nat /\ r.parent \in Nat
      BY <1>1 DEF CatalogueTypeOK, Category, Item, Ids
    <2>1. ASSUME NEW i \in items' PROVE i.id <= rowsMade' /\ i.parent < i.id
      <3>1. CASE i.id = rowsMade + 1 /\ i.id = rowsMade' /\ i.parent <= rowsMade
        BY <1>1, <2>0, <3>1
      <3>2. CASE \E j \in items : i.id = j.id /\ i.parent = j.parent
        BY <1>1, <2>0, <3>2 DEF CatalogueInv, RowsAreOrdered
      <3> QED BY <3>1, <3>2
    <2>2. ASSUME NEW k \in categories' PROVE k.id <= rowsMade' /\ k.parent < k.id
      <3>1. CASE k.id = rowsMade + 1 /\ k.id = rowsMade' /\ k.parent <= rowsMade
        BY <1>1, <2>0, <3>1
      <3>2. CASE k \in categories
        BY <1>1, <2>0, <3>2 DEF CatalogueInv, RowsAreOrdered
      <3> QED BY <3>1, <3>2
    <2>3. ASSUME NEW i \in items', NEW j \in items', i.id = j.id PROVE i.parent = j.parent
      BY <1>2, <2>3 DEF CatalogueInv, RowsAreOrdered
    <2> QED BY <2>1, <2>2, <2>3 DEF RowsAreOrdered
  <1>4. \A x \in tree.since : tree.step # "none" => x <= rowsMade /\ x # rowsMade + 1
    BY <1>1 DEF CatalogueInv, CategoriesAreRead, CatalogueTypeOK, Ids
  <1>5. CategoriesAreRead'
    <2>1. SUFFICES ASSUME tree.step # "none" PROVE CategoriesAreRead'
      BY DEF CategoriesAreRead
    <2>2. ASSUME NEW x \in tree.since PROVE x <= rowsMade'
      BY <1>1, <1>4, <2>1 DEF CatalogueInv, CatalogueTypeOK, Ids
    <2>3. ASSUME NEW k \in categories', k.id \in tree.since PROVE k \in tree.categories
      BY <1>4, <2>1, <2>3 DEF CatalogueInv, CategoriesAreRead
    <2>4. ASSUME NEW i \in items', i.id \in tree.since
          PROVE  i.parent \in IdsOf(tree.categories) \cup {TopLevel}
      BY <1>4, <2>1, <2>4 DEF CatalogueInv, CategoriesAreRead
    <2> QED BY <2>1, <2>2, <2>3, <2>4 DEF CatalogueInv, CategoriesAreRead
  <1>6. ItemsAreRead'
    <2>1. SUFFICES ASSUME tree.step \in {"items"} \cup TreeEnds PROVE ItemsAreRead'
      BY DEF ItemsAreRead
    <2>2. ASSUME NEW i \in items', i.id \in tree.since, i.parent # TopLevel
          PROVE  \E j \in tree.placed : j.id = i.id
      <3>1. tree.step # "none" /\ i.id # rowsMade + 1
        BY <1>4, <2>1, <2>2 DEF TreeEnds
      <3>2. PICK j \in items : i.id = j.id /\ i.parent = j.parent
        BY <3>1
      <3> QED BY <2>1, <2>2, <3>2 DEF CatalogueInv, ItemsAreRead
    <2>3. ASSUME NEW j \in tree.placed, NEW i \in items', i.id = j.id PROVE i.parent = j.parent
      <3>1. j.id \in Nat /\ j.id <= rowsMade
        BY <2>1 DEF CatalogueInv, ItemsAreRead, CatalogueTypeOK, Item, Ids
      <3>2. i.id # rowsMade + 1
        BY <1>1, <2>3, <3>1
      <3> QED BY <2>1, <2>3, <3>2 DEF CatalogueInv, ItemsAreRead
    <2>4. \A j \in tree.placed : j.id \in Nat /\ j.id <= rowsMade'
      BY <1>1, <2>1 DEF CatalogueInv, ItemsAreRead, CatalogueTypeOK, Item, Ids
    <2> QED BY <2>1, <2>2, <2>3, <2>4 DEF CatalogueInv, ItemsAreRead
  <1>7. LooseAreRead'
    <2>1. SUFFICES ASSUME tree.step = "shown" PROVE LooseAreRead'
      BY DEF CatalogueInv, LooseAreRead
    <2>2. ASSUME NEW i \in items', i.id \in tree.since, i.parent = TopLevel
          PROVE  i.id \in IdsOf(tree.loose)
      BY <1>4, <2>1, <2>2 DEF CatalogueInv, LooseAreRead
    <2> QED BY <2>1, <2>2 DEF CatalogueInv, LooseAreRead
  <1> QED BY <1>3, <1>5, <1>6, <1>7 DEF CatalogueInv

LEMMA EditAfter ==
    ASSUME CatalogueInv, NEW e \in Editors, NEW new \in Edit, new.row <= rowsMade,
           edit' = [edit EXCEPT ![e] = new]
    PROVE  edit' \in [Editors -> Edit] /\ \A d \in Editors : edit'[d].row <= rowsMade
  BY DEF CatalogueInv, CatalogueTypeOK, RowsAreOrdered

\* A call that only goes on to its next statement.
LEMMA EditKeeps ==
    ASSUME CatalogueInv, NEW e \in Editors, NEW new \in Edit, new.row <= rowsMade,
           edit' = [edit EXCEPT ![e] = new],
           UNCHANGED << houses, categories, items, tree, rowsMade >>
    PROVE  CatalogueInv'
  <1>1. CatalogueTypeOK'
    BY EditAfter DEF CatalogueInv, CatalogueTypeOK
  <1>2. RowsAreOrdered'
    BY EditAfter DEF CatalogueInv, RowsAreOrdered
  <1> QED BY <1>1, <1>2 DEF CatalogueInv, CategoriesAreRead, ItemsAreRead, LooseAreRead

LEMMA NextEdit ==
    ASSUME CatalogueInv, NEW row \in {TopLevel} \cup IdsOf(categories) \cup IdsOf(items),
           NEW house \in Houses,
           NEW op \in {"none", "category", "item", "dropcategory", "dropitem", "switch"}
    PROVE  LET new == [op |-> op, row |-> row, house |-> house] IN new \in Edit /\ new.row <= rowsMade
  <1>1. row \in 0 .. MaxRows /\ row <= rowsMade
    BY CatalogueAssumption
       DEF CatalogueInv, CatalogueTypeOK, RowsAreOrdered, Category, Item, Ids, IdsOf, TopLevel
  <1> QED BY <1>1 DEF Edit

LEMMA CreatesKeeps ==
    ASSUME CatalogueInv, NEW e \in Editors, NEW op \in {"category", "item"}, Creates(e, op)
    PROVE  CatalogueInv'
  <1>1. \E row \in {TopLevel} \cup IdsOf(categories), h \in Houses : EditStep(e, op, row, h)
    BY DEF Creates, IdsOf, CatalogueInv, CatalogueTypeOK, Category
  <1>2. PICK row \in {TopLevel} \cup IdsOf(categories), h \in Houses : EditStep(e, op, row, h)
    BY <1>1
  <1>3. PICK new : new = [op |-> op, row |-> row, house |-> h]
    OBVIOUS
  <1>4. new \in Edit /\ new.row <= rowsMade
    BY <1>3, NextEdit
  <1> QED BY <1>2, <1>3, <1>4, EditKeeps DEF EditStep, Creates

LEMMA EndsKeeps ==
    ASSUME CatalogueInv, NEW e \in Editors, EditEnds(e)
    PROVE  edit' \in [Editors -> Edit] /\ \A d \in Editors : edit'[d].row <= rowsMade
  <1>1. NoEdit.row <= rowsMade
    BY NoEditTyped DEF CatalogueInv, CatalogueTypeOK
  <1> QED BY <1>1, NoEditTyped, EditAfter DEF EditEnds

LEMMA CreateCategoryKeeps ==
    ASSUME CatalogueInv, NEW e \in Editors, CreateCategory(e) PROVE CatalogueInv'
  <1>1. PICK row \in 0 .. MaxRows, h \in Houses : row = edit[e].row /\ h = edit[e].house
    BY DEF CatalogueInv, CatalogueTypeOK, Edit
  <1>2. PICK k : k = [id |-> rowsMade + 1, parent |-> row, house |-> h]
    OBVIOUS
  <1>3. k \in Category /\ k.id = rowsMade + 1 /\ k.parent = row /\ row <= rowsMade
    BY <1>1, <1>2, CatalogueAssumption
       DEF CatalogueInv, CatalogueTypeOK, RowsAreOrdered, CreateCategory, Category, Ids
  <1>4. \/ categories' = categories \cup {k} /\ rowsMade' = rowsMade + 1
        \/ UNCHANGED << categories, rowsMade >>
    BY <1>1, <1>2 DEF CreateCategory
  <1>5. /\ rowsMade' \in 0 .. MaxRows
        /\ edit' \in [Editors -> Edit] /\ \A d \in Editors : edit'[d].row <= rowsMade'
    <2>1. edit' \in [Editors -> Edit] /\ \A d \in Editors : edit'[d].row <= rowsMade
      BY EndsKeeps DEF CreateCategory
    <2>2. rowsMade \in 0 .. MaxRows /\ rowsMade < MaxRows
      BY DEF CatalogueInv, CatalogueTypeOK, CreateCategory
    <2>3. \A d \in Editors : edit'[d].row \in Nat
      BY <2>1 DEF Edit
    <2> QED BY <1>4, <2>1, <2>2, <2>3, CatalogueAssumption
  <1>6. CatalogueTypeOK'
    BY <1>3, <1>4, <1>5 DEF CatalogueInv, CatalogueTypeOK, CreateCategory
  <1>7. IdsOf(categories) \subseteq IdsOf(categories')
    BY <1>4 DEF IdsOf
  <1>8. rowsMade \in Nat /\ \A i \in items : i.id # rowsMade + 1
    BY DEF CatalogueInv, CatalogueTypeOK, RowsAreOrdered, Item, Ids
  <1>9. items' = items /\ tree' = tree
    BY DEF CreateCategory
  <1>10. \A i \in items' : i.parent \in IdsOf(categories') \cup {TopLevel}
    BY <1>7, <1>9 DEF CatalogueInv, RowsAreOrdered
  <1> QED BY <1>3, <1>4, <1>5, <1>6, <1>8, <1>9, <1>10, RowsOfTheStep

LEMMA CreateItemKeeps ==
    ASSUME CatalogueInv, NEW e \in Editors, CreateItem(e) PROVE CatalogueInv'
  <1>1. PICK row \in 0 .. MaxRows, h \in Houses : row = edit[e].row /\ h = edit[e].house
    BY DEF CatalogueInv, CatalogueTypeOK, Edit
  <1>2. PICK kind \in Kinds \ {"none"} :
            \/ /\ items' = items \cup {[id |-> rowsMade + 1, parent |-> row, house |-> h,
                                        kind |-> kind, open |-> "none"]}
               /\ rowsMade' = rowsMade + 1 /\ row \in IdsOf(categories) \cup {TopLevel}
            \/ UNCHANGED << items, rowsMade >>
    BY <1>1 DEF CreateItem, Kinds
  <1>3. PICK i : i = [id |-> rowsMade + 1, parent |-> row, house |-> h, kind |-> kind, open |-> "none"]
    OBVIOUS
  <1>4. i \in Item /\ i.id = rowsMade + 1 /\ i.parent = row /\ row <= rowsMade
    BY <1>1, <1>2, <1>3, CatalogueAssumption
       DEF CatalogueInv, CatalogueTypeOK, RowsAreOrdered, CreateItem, Item, Ids, Kinds
  <1>5. \/ /\ items' = items \cup {i} /\ rowsMade' = rowsMade + 1
           /\ row \in IdsOf(categories) \cup {TopLevel}
        \/ UNCHANGED << items, rowsMade >>
    BY <1>2, <1>3
  <1>6. /\ rowsMade' \in 0 .. MaxRows
        /\ edit' \in [Editors -> Edit] /\ \A d \in Editors : edit'[d].row <= rowsMade'
    <2>1. edit' \in [Editors -> Edit] /\ \A d \in Editors : edit'[d].row <= rowsMade
      BY EndsKeeps DEF CreateItem
    <2>2. rowsMade \in 0 .. MaxRows /\ rowsMade < MaxRows
      BY DEF CatalogueInv, CatalogueTypeOK, CreateItem
    <2>3. \A d \in Editors : edit'[d].row \in Nat
      BY <2>1 DEF Edit
    <2> QED BY <1>5, <2>1, <2>2, <2>3, CatalogueAssumption
  <1>7. CatalogueTypeOK'
    BY <1>4, <1>5, <1>6 DEF CatalogueInv, CatalogueTypeOK, CreateItem
  <1>8. rowsMade \in Nat /\ \A j \in items : j.id # rowsMade + 1
    BY DEF CatalogueInv, CatalogueTypeOK, RowsAreOrdered, Item, Ids
  <1>9. categories' = categories /\ tree' = tree
    BY DEF CreateItem
  <1>10. \A j \in items' : j.parent \in IdsOf(categories') \cup {TopLevel}
    BY <1>4, <1>5, <1>9 DEF CatalogueInv, RowsAreOrdered
  <1> QED BY <1>4, <1>5, <1>6, <1>7, <1>8, <1>9, <1>10, RowsOfTheStep

\* The rows a call leaves when it makes none: items keep their numbers and categories.
LEMMA RowsStay ==
    ASSUME CatalogueInv, CatalogueTypeOK', UNCHANGED << tree, rowsMade >>,
           categories' \subseteq categories,
           \A i \in items' : \E j \in items : i.id = j.id /\ i.parent = j.parent,
           \A i \in items' : i.parent \in IdsOf(categories') \cup {TopLevel},
           \A e \in Editors : edit'[e].row <= rowsMade
    PROVE  CatalogueInv'
  <1>1. rowsMade \in Nat /\ \A i \in items : i.id # rowsMade + 1
    BY DEF CatalogueInv, CatalogueTypeOK, RowsAreOrdered, Item, Ids
  <1> QED BY <1>1, RowsOfTheStep

LEMMA BookKeeps ==
    ASSUME CatalogueInv, NEW i \in items, Book(i) PROVE CatalogueInv'
  <1>1. PICK b : b = [i EXCEPT !.open = IF @ = "none" THEN i.kind ELSE "none"]
    OBVIOUS
  <1>2. b \in Item /\ b.id = i.id /\ b.parent = i.parent
    BY <1>1 DEF CatalogueInv, CatalogueTypeOK, Item, Kinds
  <1>3. items' = (items \ {i}) \cup {b} /\ UNCHANGED << houses, categories, edit, tree, rowsMade >>
    BY <1>1 DEF Book
  <1>4. CatalogueTypeOK'
    BY <1>2, <1>3 DEF CatalogueInv, CatalogueTypeOK
  <1> QED BY <1>2, <1>3, <1>4, RowsStay DEF CatalogueInv, RowsAreOrdered

LEMMA StartsKeeps ==
    ASSUME CatalogueInv, NEW e \in Editors, NEW op \in {"dropcategory", "dropitem", "switch"},
           \E r \in categories \cup items : EditStep(e, op, r.id, r.house),
           UNCHANGED << houses, categories, items, tree, rowsMade >>
    PROVE  CatalogueInv'
  <1>1. PICK r \in categories \cup items : EditStep(e, op, r.id, r.house)
    OBVIOUS
  <1>2. PICK new : new = [op |-> op, row |-> r.id, house |-> r.house]
    OBVIOUS
  <1>3. r.id \in IdsOf(categories) \cup IdsOf(items) /\ r.house \in Houses
    BY DEF IdsOf, CatalogueInv, CatalogueTypeOK, Category, Item
  <1>4. new \in Edit /\ new.row <= rowsMade
    BY <1>2, <1>3, NextEdit
  <1> QED BY <1>1, <1>2, <1>4, EditKeeps DEF EditStep

LEMMA DeleteReservationCategoryKeeps ==
    ASSUME CatalogueInv, NEW e \in Editors, DeleteReservationCategory(e) PROVE CatalogueInv'
  <1>1. CASE EditIdle(e)  /\ UNCHANGED << houses, categories, items, tree, rowsMade >>
             /\ \E k \in categories : EditStep(e, "dropcategory", k.id, k.house)
    BY <1>1, StartsKeeps
  <1>2. CASE /\ categories' = {c \in categories : \/ c.id # edit[e].row
                                                  \/ \E i \in items : i.parent = edit[e].row}
             /\ EditEnds(e) /\ UNCHANGED << houses, items, tree, rowsMade >>
    <2>1. edit' \in [Editors -> Edit] /\ \A d \in Editors : edit'[d].row <= rowsMade
      BY <1>2, EndsKeeps
    <2>2. CatalogueTypeOK'
      BY <1>2, <2>1 DEF CatalogueInv, CatalogueTypeOK
    <2>3. ASSUME NEW i \in items PROVE i.parent \in IdsOf(categories') \cup {TopLevel}
      BY <1>2 DEF CatalogueInv, RowsAreOrdered, IdsOf
    <2> QED BY <1>2, <2>1, <2>2, <2>3, RowsStay
  <1> QED BY <1>1, <1>2 DEF DeleteReservationCategory

LEMMA DeleteReservationItemKeeps ==
    ASSUME CatalogueInv, NEW e \in Editors, DeleteReservationItem(e) PROVE CatalogueInv'
  <1>1. CASE EditIdle(e) /\ UNCHANGED << houses, categories, items, tree, rowsMade >>
             /\ \E i \in items : EditStep(e, "dropitem", i.id, i.house)
    BY <1>1, StartsKeeps
  <1>2. CASE /\ items' = {i \in items : i.id # edit[e].row}
             /\ EditEnds(e) /\ UNCHANGED << houses, categories, tree, rowsMade >>
    <2>1. edit' \in [Editors -> Edit] /\ \A d \in Editors : edit'[d].row <= rowsMade
      BY <1>2, EndsKeeps
    <2>2. CatalogueTypeOK'
      BY <1>2, <2>1 DEF CatalogueInv, CatalogueTypeOK
    <2> QED BY <1>2, <2>1, <2>2, RowsStay DEF CatalogueInv, RowsAreOrdered
  <1> QED BY <1>1, <1>2 DEF DeleteReservationItem

LEMMA UpdateReservationItemKeeps ==
    ASSUME CatalogueInv, NEW e \in Editors, UpdateReservationItem(e) PROVE CatalogueInv'
  <1>1. CASE EditIdle(e) /\ UNCHANGED << houses, categories, items, tree, rowsMade >>
             /\ \E i \in items : EditStep(e, "switch", i.id, i.house)
    BY <1>1, StartsKeeps
  <1>2. CASE /\ items' = {IF i.id = edit[e].row THEN [i EXCEPT !.kind = Other(@)] ELSE i
                            : i \in items}
             /\ EditEnds(e) /\ UNCHANGED << houses, categories, tree, rowsMade >>
    <2>1. edit' \in [Editors -> Edit] /\ \A d \in Editors : edit'[d].row <= rowsMade
      BY <1>2, EndsKeeps
    <2>2. ASSUME NEW i \in items'
          PROVE  i \in Item /\ \E j \in items : i.id = j.id /\ i.parent = j.parent
      <3>1. PICK j \in items : i = IF j.id = edit[e].row THEN [j EXCEPT !.kind = Other(@)] ELSE j
        BY <1>2
      <3>2. j \in Item
        BY DEF CatalogueInv, CatalogueTypeOK
      <3>3. [j EXCEPT !.kind = Other(@)] \in Item
        BY <3>2 DEF Item, Kinds, Other
      <3>4. i.id = j.id /\ i.parent = j.parent
        BY <3>1, <3>2 DEF Item
      <3> QED BY <3>1, <3>2, <3>3, <3>4
    <2>3. CatalogueTypeOK'
      BY <1>2, <2>1, <2>2 DEF CatalogueInv, CatalogueTypeOK
    <2> QED BY <1>2, <2>1, <2>2, <2>3, RowsStay DEF CatalogueInv, RowsAreOrdered
  <1> QED BY <1>1, <1>2 DEF UpdateReservationItem

LEMMA DeleteHouseKeeps ==
    ASSUME CatalogueInv, NEW h \in houses, DeleteHouse(h) PROVE CatalogueInv'
  <1>1. CatalogueTypeOK'
    BY DEF DeleteHouse, CatalogueInv, CatalogueTypeOK
  <1> QED BY <1>1 DEF DeleteHouse, CatalogueInv, RowsAreOrdered, CategoriesAreRead, ItemsAreRead,
                      LooseAreRead

LEMMA TreeCategoriesKeeps ==
    ASSUME CatalogueInv, TreeCategories PROVE CatalogueInv'
  <1>1. /\ tree' = [NoTree EXCEPT !.step = "categories", !.categories = categories,
                                  !.since = Present]
        /\ UNCHANGED << houses, categories, items, edit, rowsMade >>
    BY DEF TreeCategories
  <1>2. /\ tree'.step = "categories" /\ tree'.categories = categories /\ tree'.since = Present
        /\ tree'.loose = {}
    BY <1>1 DEF NoTree
  <1>3. Present \subseteq Ids /\ \A x \in Present : x <= rowsMade
    BY DEF Present, IdsOf, CatalogueInv, CatalogueTypeOK, RowsAreOrdered, Category, Item
  <1>4. CatalogueTypeOK'
    BY <1>1, <1>3, NoTreeTyped DEF CatalogueInv, CatalogueTypeOK
  <1>5. RowsAreOrdered'
    BY <1>1 DEF CatalogueInv, RowsAreOrdered
  <1>6. CategoriesAreRead'
    BY <1>1, <1>2, <1>3 DEF CatalogueInv, RowsAreOrdered, CategoriesAreRead
  <1> QED BY <1>2, <1>4, <1>5, <1>6 DEF CatalogueInv, ItemsAreRead, LooseAreRead, TreeEnds

LEMMA TreeItemsKeeps ==
    ASSUME CatalogueInv, TreeItems PROVE CatalogueInv'
  <1>1. /\ tree.step = "categories"
        /\ tree' = [tree EXCEPT !.step = "items",
                                !.placed = {i \in items : i.parent \in IdsOf(tree.categories)}]
        /\ UNCHANGED << houses, categories, items, edit, rowsMade >>
    BY DEF TreeItems
  <1>2. /\ tree'.step = "items" /\ tree'.since = tree.since
        /\ tree'.categories = tree.categories /\ tree'.loose = tree.loose
        /\ tree'.placed = {i \in items : i.parent \in IdsOf(tree.categories)}
    BY <1>1 DEF CatalogueInv, CatalogueTypeOK
  <1>3. CatalogueTypeOK'
    BY <1>1 DEF CatalogueInv, CatalogueTypeOK
  <1>4. RowsAreOrdered'
    BY <1>1 DEF CatalogueInv, RowsAreOrdered
  <1>5. CategoriesAreRead'
    BY <1>1, <1>2 DEF CatalogueInv, CategoriesAreRead
  <1>6. \A k \in tree.categories : k.id # TopLevel
    BY DEF CatalogueInv, CatalogueTypeOK, Category, Ids, TopLevel
  <1>7. ItemsAreRead'
    <2>1. ASSUME NEW i \in items, i.id \in tree.since, i.parent # TopLevel
          PROVE  i \in tree'.placed
      BY <1>1, <1>2, <2>1 DEF CatalogueInv, CategoriesAreRead
    <2>2. ASSUME NEW j \in tree'.placed
          PROVE  /\ j.parent \in IdsOf(tree.categories) /\ j.parent # TopLevel /\ j.id <= rowsMade
                 /\ \A i \in items : i.id = j.id => i.parent = j.parent
      BY <1>2, <1>6 DEF CatalogueInv, RowsAreOrdered, IdsOf
    <2> QED BY <1>1, <1>2, <2>1, <2>2 DEF ItemsAreRead
  <1> QED BY <1>1, <1>2, <1>3, <1>4, <1>5, <1>7 DEF CatalogueInv, LooseAreRead

LEMMA TreeLooseKeeps ==
    ASSUME CatalogueInv, TreeLoose PROVE CatalogueInv'
  <1>1. /\ tree.step = "items"
        /\ tree' = [tree EXCEPT !.step = "shown", !.loose = {i \in items : i.parent = TopLevel}]
        /\ UNCHANGED << houses, categories, items, edit, rowsMade >>
    BY DEF TreeLoose
  <1>2. /\ tree'.step = "shown" /\ tree'.since = tree.since
        /\ tree'.categories = tree.categories /\ tree'.placed = tree.placed
        /\ tree'.loose = {i \in items : i.parent = TopLevel}
    BY <1>1 DEF CatalogueInv, CatalogueTypeOK
  <1>3. CatalogueTypeOK'
    BY <1>1 DEF CatalogueInv, CatalogueTypeOK, TreeEnds
  <1>4. RowsAreOrdered'
    BY <1>1 DEF CatalogueInv, RowsAreOrdered
  <1>5. CategoriesAreRead'
    BY <1>1, <1>2 DEF CatalogueInv, CategoriesAreRead
  <1>6. ItemsAreRead'
    BY <1>1, <1>2 DEF CatalogueInv, ItemsAreRead
  <1>7. LooseAreRead'
    <2>1. ASSUME NEW i \in items, i.parent = TopLevel PROVE i.id \in IdsOf(tree'.loose)
      BY <1>2, <2>1 DEF IdsOf
    <2>2. ASSUME NEW j \in tree.placed, NEW i \in tree'.loose, i.id = j.id PROVE FALSE
      BY <1>1, <1>2, <2>2 DEF CatalogueInv, ItemsAreRead
    <2> QED BY <1>1, <1>2, <2>1, <2>2 DEF LooseAreRead, IdsOf
  <1> QED BY <1>3, <1>4, <1>5, <1>6, <1>7 DEF CatalogueInv

LEMMA LooseFailsKeeps ==
    ASSUME CatalogueInv, LooseFails PROVE CatalogueInv'
  <1>1. /\ tree.step = "items" /\ tree' = [tree EXCEPT !.step = "short"]
        /\ UNCHANGED << houses, categories, items, edit, rowsMade >>
    BY DEF LooseFails
  <1>2. /\ tree'.step = "short" /\ tree'.since = tree.since
        /\ tree'.categories = tree.categories /\ tree'.placed = tree.placed
        /\ tree'.loose = tree.loose
    BY <1>1 DEF CatalogueInv, CatalogueTypeOK
  <1>3. CatalogueTypeOK'
    BY <1>1 DEF CatalogueInv, CatalogueTypeOK, TreeEnds
  <1>4. RowsAreOrdered'
    BY <1>1 DEF CatalogueInv, RowsAreOrdered
  <1>5. CategoriesAreRead' /\ ItemsAreRead'
    BY <1>1, <1>2 DEF CatalogueInv, CategoriesAreRead, ItemsAreRead
  <1>6. LooseAreRead'
    BY <1>1, <1>2 DEF CatalogueInv, LooseAreRead
  <1> QED BY <1>3, <1>4, <1>5, <1>6 DEF CatalogueInv

\* Categories below older ones all hang from a root.
LEMMA EveryCategoryHasAPlace ==
    ASSUME NEW known,
           \A k \in known : k.id \in Nat /\ k.parent < k.id
    PROVE  categoryToMap(known) = known
  <1> SUFFICES ASSUME NEW S \in SUBSET known,
                      \A c \in known : IsRoot(c, known) \/ c.parent \in IdsOf(S) => c \in S
               PROVE  known \subseteq S
    BY DEF categoryToMap
  <1> SUFFICES ASSUME known \ S # {} PROVE FALSE
    OBVIOUS
  <1>0. PICK T : T = IdsOf(known \ S) /\ T # {}
    <2>1. PICK c : c \in known \ S
      OBVIOUS
    <2>2. c.id \in IdsOf(known \ S)
      BY <2>1 DEF IdsOf
    <2> QED BY <2>2
  <1>1. PICK R : R = OpToRel(<, Nat)
    OBVIOUS
  <1>2. IsWellFoundedOn(R, Nat)
    BY <1>1, NatLessThanWellFounded
  <1>3. T \subseteq Nat
    BY <1>0 DEF IdsOf
  <1>4. PICK x \in T : \A y \in T : << y, x >> \notin R
    BY <1>0, <1>2, <1>3, WFMin
  <1>5. PICK c \in known \ S : c.id = x
    BY <1>0 DEF IdsOf
  <1>6. PICK p \in known : p.id = c.parent /\ p \notin S
    BY <1>5 DEF IsRoot, IdsOf
  <1>7. p.id \in T /\ p.id \in Nat /\ x \in Nat /\ p.id < x
    BY <1>0, <1>5, <1>6 DEF IdsOf
  <1>8. << p.id, x >> \in R
    BY <1>1, <1>7 DEF OpToRel
  <1> QED BY <1>4, <1>7, <1>8

LEMMA CatalogueMoves ==
    ASSUME CatalogueInv, [CatalogueNext]_catalogueVars PROVE CatalogueInv'
  <1>1. ASSUME NEW e \in Editors,
               \/ CreateReservationCategory(e) \/ CreateReservationItem(e)
               \/ CreateCategory(e) \/ CreateItem(e)
        PROVE  CatalogueInv'
    BY <1>1, CreatesKeeps, CreateCategoryKeeps, CreateItemKeeps
       DEF CreateReservationCategory, CreateReservationItem
  <1>2. ASSUME NEW e \in Editors,
               \/ DeleteReservationCategory(e) \/ DeleteReservationItem(e)
               \/ UpdateReservationItem(e)
        PROVE  CatalogueInv'
    BY <1>2, DeleteReservationCategoryKeeps, DeleteReservationItemKeeps,
       UpdateReservationItemKeeps
  <1>3. CASE TreeCategories \/ TreeItems \/ TreeLoose \/ LooseFails
    BY <1>3, TreeCategoriesKeeps, TreeItemsKeeps, TreeLooseKeeps, LooseFailsKeeps
  <1>4. CASE UNCHANGED catalogueVars
    BY <1>4 DEF catalogueVars, CatalogueInv, CatalogueTypeOK, RowsAreOrdered, CategoriesAreRead,
                ItemsAreRead, LooseAreRead
  <1> QED BY <1>1, <1>2, <1>3, <1>4, BookKeeps, DeleteHouseKeeps DEF CatalogueNext

LEMMA CatalogueShows == CatalogueInv => TreeShowsEverything
  <1> SUFFICES ASSUME CatalogueInv, tree.step \in TreeEnds PROVE TreeShowsEverything
    BY DEF TreeShowsEverything
  <1> DEFINE unread == {i \in items : tree.step = "short" /\ i.parent = TopLevel}
  <1>1. categoryToMap(tree.categories) = tree.categories
    <2>1. \A k \in tree.categories : k.id \in Nat /\ k.parent < k.id
      BY DEF CatalogueInv, CatalogueTypeOK, CategoriesAreRead, Category, Ids, TreeEnds
    <2> QED BY <2>1, EveryCategoryHasAPlace
  <1>2. {i \in tree.placed : i.parent \in IdsOf(tree.categories)} = tree.placed
    BY DEF CatalogueInv, ItemsAreRead
  <1>3. ASSUME NEW k \in categories, k.id \in tree.since PROVE k.id \in IdsOf(tree.categories)
    BY <1>3 DEF CatalogueInv, CategoriesAreRead, IdsOf, TreeEnds
  <1>4. ASSUME NEW i \in items, i.id \in tree.since
        PROVE  i.id \in IdsOf(tree.placed) \cup IdsOf(tree.loose) \cup IdsOf(unread)
    BY <1>4 DEF CatalogueInv, ItemsAreRead, LooseAreRead, IdsOf, TreeEnds
  <1>5. tree.since \cap Present \subseteq
            IdsOf(tree.categories) \cup IdsOf(tree.placed) \cup IdsOf(tree.loose) \cup IdsOf(unread)
    BY <1>3, <1>4 DEF Present, IdsOf
  <1>6. IdsOf(tree.placed) \cap IdsOf(tree.loose) = {}
    BY DEF CatalogueInv, LooseAreRead, IdsOf
  <1> QED BY <1>1, <1>2, <1>5, <1>6 DEF TreeShowsEverything

\* Rows, calls under way and the tree being read keep their shape, whatever the
\* administrators do at the same time.
THEOREM CatalogueStaysTyped == CatalogueSpec => []CatalogueTypeOK
  <1>1. CatalogueInv => CatalogueTypeOK
    BY DEF CatalogueInv
  <1> QED BY <1>1, CatalogueStarts, CatalogueMoves, PTL DEF CatalogueSpec

\* Whatever is created, deleted or booked between the three statements of the tree of the
\* administration, it shows everything that was there all along, each in one place, but the
\* items without a category if they could not be read (GetReservationTree).
THEOREM TreesShowEverything == CatalogueSpec => []TreeShowsEverything
  BY CatalogueStarts, CatalogueMoves, CatalogueShows, PTL DEF CatalogueSpec

-----------------------------------------------------------------------------
(* The age of what the buses are shown by *)

\* A snapshot is of a feed that was published, and was fetched within a tick while the feed was
\* recent, if the feed says when it was published.
SnapshotIsOf(s) ==
    s.feed # 0 =>
        /\ s.fetchedAt \in Times /\ s.fetchedAt <= clock
        /\ \/ feeds[s.feed].says \in Unstamped
           \/ s.fetchedAt - feeds[s.feed].at <= MaxStale + 1

\* The snapshot that is kept has a feed, and a fetch under way began within a tick.
FeedsAreRecent ==
    /\ rtCache # NoSnapshot => rtCache.feed # 0
    /\ SnapshotIsOf(rtCache)
    /\ fetching.running =>
          fetching.begun \in Times /\ fetching.begun <= clock /\ clock - fetching.begun <= 1
    /\ \A r \in Riders : rider[r].now <= clock

\* A feed that bears a timestamp is not older at a time than an answer allows.
RecentFeed(now, f) == feeds[f].says \in Unstamped \/ now - feeds[f].at <= 2 * MaxStale

BusInv == BusTypeOK /\ FeedsAreRecent /\ AnswersAreFresh

LEMMA NumbersOfBuses ==
    /\ Times \subseteq Int /\ 0 \in Int /\ None \in Int
    /\ MaxStale \in Nat /\ TTL \in Nat /\ TTL > 0 /\ TTL <= MaxStale
    /\ MaxFeeds \in Nat /\ MaxFetchTrouble \in Nat /\ FirstTick \in Nat /\ LastTick \in Nat
    /\ FirstTick <= LastTick /\ FirstFeed \in Int
  BY BusAssumption DEF Times, None

LEMMA FeedsTyped ==
    ASSUME BusTypeOK
    PROVE  /\ Len(feeds) \in Nat /\ Len(feeds) >= 1
           /\ \A i \in 1 .. Len(feeds) : feeds[i].at \in Int
  <1>1. PICK S : S = [at : Times \cup {FirstFeed}, says : Announcements]
    OBVIOUS
  <1>2. feeds \in Seq(S) /\ Len(feeds) >= 1
    BY <1>1 DEF BusTypeOK
  <1>3. \A i \in 1 .. Len(feeds) : feeds[i] \in S
    BY <1>2
  <1>4. \A f \in S : f.at \in Int
    BY <1>1, NumbersOfBuses
  <1> QED BY <1>2, <1>3, <1>4

LEMMA NoSnapshotTyped == BusTypeOK => SnapshotTyped(NoSnapshot)
  BY FeedsTyped DEF NoSnapshot, SnapshotTyped, None

\* The answer a request gives on a snapshot that is recent at its time.
LEMMA AnswerIsFresh ==
    ASSUME BusInv, NEW now \in Times \cup {0}, NEW s, SnapshotTyped(s), SnapshotIsOf(s),
           s.feed # 0 => now - s.fetchedAt < MaxStale
    PROVE  /\ AnswerTyped(Answer(now, s)) /\ Answer(now, s).now = now
           /\ Answer(now, s).feed # 0 =>
                 /\ now - Answer(now, s).fetchedAt < MaxStale
                 /\ RecentFeed(now, Answer(now, s).feed)
  <1> DEFINE rows == mergeDepartures(findNextDepartures(now),
                         filterFutureLiveDepartures(s.rows, now), now)
  <1>1. PICK a : a = [step |-> "answered", now |-> now, given |-> clock, feed |-> s.feed,
                      fetchedAt |-> s.fetchedAt, rows |-> rows]
    OBVIOUS
  <1>2. Answer(now, s) = a
    BY <1>1 DEF Answer
  <1> HIDE DEF rows
  <1>3. AnswerTyped(a) /\ a.now = now /\ a.feed = s.feed /\ a.fetchedAt = s.fetchedAt
    BY <1>1 DEF AnswerTyped, SnapshotTyped, BusInv, BusTypeOK
  <1>4. ASSUME s.feed # 0
        PROVE  now - s.fetchedAt < MaxStale /\ RecentFeed(now, s.feed)
    <2>1. s.feed \in 1 .. Len(feeds)
      BY <1>4, FeedsTyped DEF SnapshotTyped, BusInv
    <2>2. feeds[s.feed].at \in Int /\ s.fetchedAt \in Int /\ now \in Int
      BY <1>4, <2>1, FeedsTyped, NumbersOfBuses DEF BusInv, SnapshotIsOf
    <2> QED BY <1>4, <2>2, NumbersOfBuses DEF SnapshotIsOf, RecentFeed
  <1> QED BY <1>2, <1>3, <1>4

\* What a step must do to the feeds, the snapshot and the riders that it leaves alone.
LEMMA RidersKeep ==
    ASSUME BusInv, feeds' = feeds, clock' = clock,
           NEW R \in SUBSET Riders,
           rider' = [r \in Riders |-> IF r \in R THEN rider'[r] ELSE rider[r]],
           \A r \in R : /\ AnswerTyped(rider'[r]) /\ rider'[r].now <= clock
                        /\ rider'[r].step = "answered" /\ rider'[r].feed # 0 =>
                              /\ rider'[r].now - rider'[r].fetchedAt < MaxStale
                              /\ RecentFeed(rider'[r].now, rider'[r].feed),
           SnapshotTyped(rtCache)', SnapshotIsOf(rtCache)',
           rtCache' # NoSnapshot => rtCache'.feed # 0,
           fetching' \in [running : BOOLEAN, begun : Times \cup {0}],
           fetching'.running =>
               fetching'.begun \in Times /\ fetching'.begun <= clock /\ clock - fetching'.begun <= 1,
           timetable' \subseteq parseStopTimes, fetchTrouble' \in 0 .. MaxFetchTrouble
    PROVE  BusInv'
  <1>1. \A r \in Riders : \/ rider'[r] = rider[r]
                          \/ r \in R
    OBVIOUS
  <1>2. \A r \in Riders : AnswerTyped(rider[r])' /\ rider'[r].now <= clock
    BY <1>1 DEF BusInv, BusTypeOK, FeedsAreRecent, AnswerTyped
  <1>3. BusTypeOK'
    BY <1>2 DEF BusInv, BusTypeOK
  <1>4. FeedsAreRecent'
    BY <1>2 DEF FeedsAreRecent
  <1>5. AnswersAreFresh'
    BY <1>1 DEF BusInv, AnswersAreFresh, RecentFeed
  <1> QED BY <1>3, <1>4, <1>5 DEF BusInv

\* An answer, or a request that goes on, is what a step leaves of a rider.
RiderLeft(a) ==
    /\ AnswerTyped(a) /\ a.now <= clock
    /\ a.step = "answered" /\ a.feed # 0 =>
          a.now - a.fetchedAt < MaxStale /\ RecentFeed(a.now, a.feed)

LEMMA FreshAnswer ==
    ASSUME BusInv, NEW now \in Times \cup {0}, now <= clock, FreshSnapshot(clock)
    PROVE  RiderLeft(Answer(now, rtCache))
  <1>1. rtCache.feed # 0 /\ rtCache.fetchedAt \in Times /\ clock - rtCache.fetchedAt < TTL
    BY DEF FreshSnapshot, BusInv, FeedsAreRecent, SnapshotIsOf
  <1>2. clock \in Int /\ now \in Int /\ rtCache.fetchedAt \in Int
    BY <1>1, NumbersOfBuses DEF BusInv, BusTypeOK
  <1>3. now - rtCache.fetchedAt < MaxStale
    BY <1>1, <1>2, NumbersOfBuses
  <1>4. SnapshotTyped(rtCache) /\ SnapshotIsOf(rtCache)
    BY DEF BusInv, BusTypeOK, FeedsAreRecent
  <1> QED BY <1>3, <1>4, AnswerIsFresh DEF RiderLeft

\* A step of one rider that may start a fetch.
LEMMA RiderKeeps ==
    ASSUME BusInv, NEW r \in Riders, NEW a, RiderLeft(a), rider' = [rider EXCEPT ![r] = a],
           UNCHANGED << clock, timetable, feeds, rtCache, fetchTrouble >>,
           fetching' = fetching \/ fetching' = [running |-> TRUE, begun |-> clock]
    PROVE  BusInv'
  <1>1. rider' = [q \in Riders |-> IF q \in {r} THEN rider'[q] ELSE rider[q]] /\ rider'[r] = a
    BY DEF BusInv, BusTypeOK
  <1>2. clock \in Times /\ clock \in Int
    BY NumbersOfBuses DEF BusInv, BusTypeOK
  <1>3. /\ fetching' \in [running : BOOLEAN, begun : Times \cup {0}]
        /\ fetching'.running =>
               fetching'.begun \in Times /\ fetching'.begun <= clock /\ clock - fetching'.begun <= 1
    <2>1. CASE fetching' = fetching
      BY <2>1 DEF BusInv, BusTypeOK, FeedsAreRecent
    <2>2. CASE fetching' = [running |-> TRUE, begun |-> clock]
      BY <1>2, <2>2
    <2> QED BY <2>1, <2>2
  <1>4. /\ SnapshotTyped(rtCache)' /\ SnapshotIsOf(rtCache)'
        /\ rtCache' # NoSnapshot => rtCache'.feed # 0
    BY DEF BusInv, BusTypeOK, FeedsAreRecent, SnapshotTyped, SnapshotIsOf
  <1>5. timetable' \subseteq parseStopTimes /\ fetchTrouble' \in 0 .. MaxFetchTrouble
    BY DEF BusInv, BusTypeOK
  <1>6. \A q \in {r} : RiderLeft(rider'[q])
    BY <1>1
  <1>7. \A q \in {r} :
            /\ AnswerTyped(rider'[q]) /\ rider'[q].now <= clock
            /\ rider'[q].step = "answered" /\ rider'[q].feed # 0 =>
                  /\ rider'[q].now - rider'[q].fetchedAt < MaxStale
                  /\ RecentFeed(rider'[q].now, rider'[q].feed)
    BY <1>6 DEF RiderLeft
  <1>8. feeds' = feeds /\ clock' = clock /\ {r} \in SUBSET Riders
    OBVIOUS
  <1> QED BY <1>1, <1>3, <1>4, <1>5, <1>7, <1>8, RidersKeep

LEMMA AskKeeps ==
    ASSUME BusInv, NEW r \in Riders, Ask(r) PROVE BusInv'
  <1>1. clock \in Times /\ clock <= clock
    BY NumbersOfBuses DEF BusInv, BusTypeOK
  <1>2. CASE FreshSnapshot(clock)
    <2>1. PICK a : a = Answer(clock, rtCache)
      OBVIOUS
    <2>2. rider' = [rider EXCEPT ![r] = a] /\ UNCHANGED << clock, timetable, feeds, rtCache, fetchTrouble >>
          /\ fetching' = fetching
      BY <1>2, <2>1 DEF Ask
    <2>3. RiderLeft(a)
      BY <1>1, <1>2, <2>1, FreshAnswer
    <2> QED BY <2>2, <2>3, RiderKeeps
  <1>3. CASE ~FreshSnapshot(clock)
    <2>1. PICK a : a = [Quiet EXCEPT !.step = "missed", !.now = clock]
      OBVIOUS
    <2>2. rider' = [rider EXCEPT ![r] = a] /\ UNCHANGED << clock, timetable, feeds, rtCache, fetchTrouble >>
          /\ fetching' = fetching
      BY <1>3, <2>1 DEF Ask
    <2>3. RiderLeft(a)
      <3>1. 0 \in 0 .. Len(feeds)
        BY FeedsTyped DEF BusInv
      <3>2. /\ a = [step |-> a.step, now |-> a.now, given |-> a.given, feed |-> a.feed,
                    fetchedAt |-> a.fetchedAt, rows |-> a.rows]
            /\ a.step = "missed" /\ a.now = clock /\ a.given = 0 /\ a.feed = 0
            /\ a.fetchedAt = None
        BY <2>1 DEF Quiet
      <3>3. AnswerTyped(a)
        BY <1>1, <3>1, <3>2 DEF AnswerTyped
      <3> QED BY <1>1, <3>2, <3>3 DEF RiderLeft
    <2> QED BY <2>2, <2>3, RiderKeeps
  <1> QED BY <1>2, <1>3

LEMMA ShareFetchKeeps ==
    ASSUME BusInv, NEW r \in Riders, ShareFetch(r) PROVE BusInv'
  <1>1. AnswerTyped(rider[r]) /\ rider[r].now <= clock
    BY DEF BusInv, BusTypeOK, FeedsAreRecent
  <1>2. CASE ~fetching.running /\ FreshSnapshot(clock)
    <2>1. PICK a : a = Answer(rider[r].now, rtCache)
      OBVIOUS
    <2>2. rider' = [rider EXCEPT ![r] = a] /\ UNCHANGED << clock, timetable, feeds, rtCache, fetchTrouble >>
          /\ fetching' = fetching
      BY <1>2, <2>1 DEF ShareFetch
    <2>3. RiderLeft(a)
      BY <1>1, <1>2, <2>1, FreshAnswer DEF AnswerTyped
    <2> QED BY <2>2, <2>3, RiderKeeps
  <1>3. CASE ~(~fetching.running /\ FreshSnapshot(clock))
    <2>1. PICK a : a = [rider[r] EXCEPT !.step = "waiting"]
      OBVIOUS
    <2>2. rider' = [rider EXCEPT ![r] = a] /\ UNCHANGED << clock, timetable, feeds, rtCache, fetchTrouble >>
          /\ (fetching' = fetching \/ fetching' = [running |-> TRUE, begun |-> clock])
      BY <1>3, <2>1 DEF ShareFetch
    <2>3. RiderLeft(a)
      <3>1. /\ a = [step |-> "waiting", now |-> rider[r].now, given |-> rider[r].given,
                    feed |-> rider[r].feed, fetchedAt |-> rider[r].fetchedAt,
                    rows |-> rider[r].rows]
        BY <1>1, <2>1 DEF AnswerTyped
      <3>2. AnswerTyped(a) /\ a.step # "answered" /\ a.now = rider[r].now
        BY <1>1, <3>1 DEF AnswerTyped
      <3> QED BY <1>1, <3>2 DEF RiderLeft
    <2> QED BY <2>2, <2>3, RiderKeeps
  <1> QED BY <1>2, <1>3

LEMMA FallBackKeeps ==
    ASSUME BusInv, NEW r \in Riders, FallBack(r) PROVE BusInv'
  <1>1. AnswerTyped(rider[r]) /\ rider[r].now <= clock
    BY DEF BusInv, BusTypeOK, FeedsAreRecent
  <1>2. PICK now \in Times \cup {0} : now = rider[r].now
    BY <1>1 DEF AnswerTyped
  <1>3. PICK s : s = IF MayServe(now) THEN rtCache ELSE NoSnapshot
    OBVIOUS
  <1>4. SnapshotTyped(s) /\ SnapshotIsOf(s) /\ (s.feed # 0 => now - s.fetchedAt < MaxStale)
    <2>1. CASE MayServe(now)
      BY <1>3, <2>1 DEF MayServe, BusInv, BusTypeOK, FeedsAreRecent
    <2>2. CASE ~MayServe(now)
      <3>1. s = NoSnapshot /\ NoSnapshot.feed = 0
        BY <1>3, <2>2 DEF NoSnapshot
      <3> QED BY <3>1, NoSnapshotTyped DEF SnapshotIsOf, BusInv
    <2> QED BY <2>1, <2>2
  <1>5. PICK a : a = Answer(now, s)
    OBVIOUS
  <1>6. RiderLeft(a)
    BY <1>1, <1>2, <1>4, <1>5, AnswerIsFresh DEF RiderLeft
  <1>7. rider' = [rider EXCEPT ![r] = a]
        /\ UNCHANGED << clock, timetable, feeds, rtCache, fetchTrouble >> /\ fetching' = fetching
    BY <1>2, <1>3, <1>5 DEF FallBack
  <1> QED BY <1>6, <1>7, RiderKeeps

\* A fetch that ends well gives everyone who waits the feed it read.
LEMMA FetchEndsKeeps ==
    ASSUME BusInv, FetchEnds PROVE BusInv'
  <1>1. PICK s : s = [feed |-> Len(feeds), rows |-> ReadFeed(Last(feeds), fetching.begun),
                      fetchedAt |-> clock]
    OBVIOUS
  <1>2. /\ fetching.running /\ ~Stale(Last(feeds), fetching.begun)
        /\ rtCache' = s /\ fetching' = NoFetch
        /\ rider' = [r \in Riders |-> IF r \in Waiting THEN Answer(rider[r].now, s)
                                      ELSE rider[r]]
        /\ UNCHANGED << clock, timetable, feeds, fetchTrouble >>
    BY <1>1 DEF FetchEnds
  <1>3. /\ s.feed = Len(feeds) /\ s.fetchedAt = clock /\ clock \in Times
        /\ Len(feeds) \in Nat /\ Len(feeds) >= 1 /\ s.feed # 0
    BY <1>1, FeedsTyped DEF BusInv, BusTypeOK
  <1>4. /\ clock \in Int /\ fetching.begun \in Int /\ clock - fetching.begun <= 1
        /\ feeds[Len(feeds)].at \in Int
    <2>1. Len(feeds) \in 1 .. Len(feeds)
      BY <1>3
    <2>2. feeds[Len(feeds)].at \in Int
      BY <2>1, FeedsTyped DEF BusInv
    <2>3. fetching.begun \in Times /\ clock - fetching.begun <= 1
      BY <1>2 DEF BusInv, FeedsAreRecent
    <2> QED BY <1>3, <2>2, <2>3, NumbersOfBuses
  <1>5. feeds[Len(feeds)].says \in Unstamped \/ fetching.begun - feeds[Len(feeds)].at <= MaxStale
    BY <1>2, <1>4, NumbersOfBuses DEF Stale, Last
  <1>6. SnapshotTyped(s)
    BY <1>1, <1>3 DEF SnapshotTyped
  <1>7. SnapshotIsOf(s)
    BY <1>3, <1>4, <1>5, NumbersOfBuses DEF SnapshotIsOf
  <1>8. \A r \in Waiting : RiderLeft(Answer(rider[r].now, s))
    <2> SUFFICES ASSUME NEW r \in Waiting
                 PROVE  RiderLeft(Answer(rider[r].now, s))
      OBVIOUS
    <2>1. AnswerTyped(rider[r]) /\ rider[r].now <= clock
      BY DEF Waiting, BusInv, BusTypeOK, FeedsAreRecent
    <2>2. PICK now \in Times \cup {0} : now = rider[r].now
      BY <2>1 DEF AnswerTyped
    <2>3. now - s.fetchedAt < MaxStale
      <3>1. now \in Int /\ MaxStale > 0 /\ MaxStale \in Int
        BY NumbersOfBuses
      <3> QED BY <1>3, <1>4, <2>1, <2>2, <3>1
    <2> QED BY <1>6, <1>7, <2>1, <2>2, <2>3, AnswerIsFresh DEF RiderLeft
  <1>9. \A r \in Waiting : RiderLeft(rider'[r])
    BY <1>2, <1>8 DEF Waiting
  <1>10. /\ SnapshotTyped(rtCache)' /\ SnapshotIsOf(rtCache)'
         /\ rtCache' # NoSnapshot => rtCache'.feed # 0
    BY <1>2, <1>3, <1>6, <1>7 DEF SnapshotTyped, SnapshotIsOf
  <1>11. /\ fetching' \in [running : BOOLEAN, begun : Times \cup {0}]
         /\ ~fetching'.running
    BY <1>2 DEF NoFetch
  <1>12. Waiting \in SUBSET Riders
         /\ rider' = [r \in Riders |-> IF r \in Waiting THEN rider'[r] ELSE rider[r]]
    BY <1>2 DEF Waiting
  <1>13. timetable' \subseteq parseStopTimes /\ fetchTrouble' \in 0 .. MaxFetchTrouble
    BY <1>2 DEF BusInv, BusTypeOK
  <1> QED BY <1>2, <1>9, <1>10, <1>11, <1>12, <1>13, RidersKeep DEF RiderLeft

LEMMA FetchFailsKeeps ==
    ASSUME BusInv, FetchFails PROVE BusInv'
  <1>1. /\ fetching' = NoFetch
        /\ rider' = [r \in Riders |-> IF r \in Waiting THEN [rider[r] EXCEPT !.step = "failed"]
                                      ELSE rider[r]]
        /\ UNCHANGED << clock, timetable, feeds, rtCache >>
    BY DEF FetchFails
  <1>2. fetchTrouble' \in 0 .. MaxFetchTrouble
    BY NumbersOfBuses DEF FetchFails, BusInv, BusTypeOK
  <1>3. \A r \in Waiting : RiderLeft(rider'[r])
    <2> SUFFICES ASSUME NEW r \in Waiting PROVE RiderLeft(rider'[r])
      OBVIOUS
    <2>1. AnswerTyped(rider[r]) /\ rider[r].now <= clock /\ r \in Riders
      BY DEF Waiting, BusInv, BusTypeOK, FeedsAreRecent
    <2>2. rider'[r] = [rider[r] EXCEPT !.step = "failed"]
      BY <1>1, <2>1
    <2> QED BY <2>1, <2>2 DEF AnswerTyped, RiderLeft
  <1>4. /\ SnapshotTyped(rtCache)' /\ SnapshotIsOf(rtCache)'
        /\ rtCache' # NoSnapshot => rtCache'.feed # 0
    BY <1>1 DEF BusInv, BusTypeOK, FeedsAreRecent, SnapshotTyped, SnapshotIsOf
  <1>5. /\ fetching' \in [running : BOOLEAN, begun : Times \cup {0}]
        /\ ~fetching'.running
    BY <1>1 DEF NoFetch
  <1>6. Waiting \in SUBSET Riders
        /\ rider' = [r \in Riders |-> IF r \in Waiting THEN rider'[r] ELSE rider[r]]
    BY <1>1 DEF Waiting
  <1>7. timetable' \subseteq parseStopTimes
    BY <1>1 DEF BusInv, BusTypeOK
  <1> QED BY <1>1, <1>2, <1>3, <1>4, <1>5, <1>6, <1>7, RidersKeep DEF RiderLeft

LEMMA PublishKeeps ==
    ASSUME BusInv, NEW says \in Announcements, Publish(says) PROVE BusInv'
  <1>1. PICK S : S = [at : Times \cup {FirstFeed}, says : Announcements]
    OBVIOUS
  <1>2. PICK f : f = [at |-> clock, says |-> says]
    OBVIOUS
  <1>3. /\ feeds \in Seq(S) /\ Len(feeds) \in Nat /\ Len(feeds) >= 1 /\ f \in S
        /\ feeds' = Append(feeds, f) /\ Len(feeds) < MaxFeeds
        /\ UNCHANGED << clock, timetable, rtCache, fetching, rider, fetchTrouble >>
    BY <1>1, <1>2, FeedsTyped DEF BusInv, BusTypeOK, Publish
  <1>4. /\ feeds' \in Seq(S) /\ Len(feeds') = Len(feeds) + 1
        /\ \A i \in 1 .. Len(feeds) : feeds'[i] = feeds[i]
    BY <1>3
  <1>5. Len(feeds') \in 1 .. MaxFeeds + 1 /\ 0 .. Len(feeds) \subseteq 0 .. Len(feeds')
    BY <1>3, <1>4, NumbersOfBuses
  <1>6. SnapshotTyped(rtCache)' /\ \A r \in Riders : AnswerTyped(rider[r])'
    BY <1>3, <1>5 DEF BusInv, BusTypeOK, SnapshotTyped, AnswerTyped
  <1>7. BusTypeOK'
    BY <1>1, <1>3, <1>4, <1>5, <1>6 DEF BusInv, BusTypeOK
  <1>8. SnapshotIsOf(rtCache)'
    BY <1>3, <1>4 DEF BusInv, BusTypeOK, SnapshotTyped, FeedsAreRecent, SnapshotIsOf
  <1>9. FeedsAreRecent'
    BY <1>3, <1>8 DEF BusInv, FeedsAreRecent
  <1>10. AnswersAreFresh'
    BY <1>3, <1>4 DEF BusInv, BusTypeOK, AnswerTyped, AnswersAreFresh
  <1> QED BY <1>7, <1>9, <1>10 DEF BusInv

LEMMA TimePassesKeeps ==
    ASSUME BusInv, TimePasses PROVE BusInv'
  <1>1. /\ clock' = clock + 1 /\ clock' \in Times /\ clock \in Int
        /\ UNCHANGED << timetable, feeds, rtCache, fetching, rider, fetchTrouble >>
    BY BusAssumption DEF TimePasses, BusInv, BusTypeOK, Times
  <1>2. SnapshotTyped(rtCache)' /\ \A r \in Riders : AnswerTyped(rider[r])'
    BY <1>1 DEF BusInv, BusTypeOK, SnapshotTyped, AnswerTyped
  <1>3. BusTypeOK'
    BY <1>1, <1>2 DEF BusInv, BusTypeOK
  <1>4. SnapshotIsOf(rtCache)'
    <2> SUFFICES ASSUME rtCache.feed # 0
                 PROVE  /\ rtCache.fetchedAt \in Times /\ rtCache.fetchedAt <= clock'
                        /\ \/ feeds[rtCache.feed].says \in Unstamped
                           \/ rtCache.fetchedAt - feeds[rtCache.feed].at <= MaxStale + 1
      BY <1>1 DEF SnapshotIsOf
    <2>1. /\ rtCache.fetchedAt \in Times /\ rtCache.fetchedAt <= clock
          /\ \/ feeds[rtCache.feed].says \in Unstamped
             \/ rtCache.fetchedAt - feeds[rtCache.feed].at <= MaxStale + 1
      BY DEF BusInv, FeedsAreRecent, SnapshotIsOf
    <2>2. rtCache.fetchedAt \in Int
      BY <2>1, NumbersOfBuses
    <2> QED BY <1>1, <2>1, <2>2
  <1>5. fetching.running =>
            fetching.begun \in Times /\ fetching.begun <= clock' /\ clock' - fetching.begun <= 1
    BY <1>1, NumbersOfBuses DEF BusInv, FeedsAreRecent, TimePasses
  <1>6. \A r \in Riders : rider[r].now \in Int /\ rider[r].now <= clock'
    <2> SUFFICES ASSUME NEW r \in Riders
                 PROVE  rider[r].now \in Int /\ rider[r].now <= clock'
      OBVIOUS
    <2>1. rider[r].now \in Times \cup {0} /\ rider[r].now <= clock
      BY DEF BusInv, BusTypeOK, AnswerTyped, FeedsAreRecent
    <2>2. rider[r].now \in Int
      BY <2>1, NumbersOfBuses
    <2> QED BY <1>1, <2>1, <2>2
  <1>7. FeedsAreRecent'
    BY <1>1, <1>4, <1>5, <1>6 DEF BusInv, FeedsAreRecent
  <1>8. AnswersAreFresh'
    BY <1>1 DEF BusInv, AnswersAreFresh
  <1> QED BY <1>3, <1>7, <1>8 DEF BusInv

LEMMA RefreshKeeps ==
    ASSUME BusInv, Refresh PROVE BusInv'
  BY DEF BusInv, Refresh, BusTypeOK, SnapshotTyped, AnswerTyped, FeedsAreRecent, SnapshotIsOf,
         AnswersAreFresh

LEMMA BusStutterKeeps ==
    ASSUME BusInv, UNCHANGED busVars PROVE BusInv'
  BY DEF BusInv, busVars, BusTypeOK, SnapshotTyped, AnswerTyped, FeedsAreRecent, SnapshotIsOf,
         AnswersAreFresh

LEMMA BusInitHolds == BusInit => BusInv
  <1> SUFFICES ASSUME BusInit PROVE BusInv
    OBVIOUS
  <1>1. PICK S : S = [at : Times \cup {FirstFeed}, says : Announcements]
    OBVIOUS
  <1>2. clock = FirstTick /\ clock \in Times
    BY BusAssumption DEF BusInit, Times
  <1>3. PICK says \in Announcements : feeds = << [at |-> FirstFeed, says |-> says] >>
    BY DEF BusInit
  <1>4. [at |-> FirstFeed, says |-> says] \in S
    BY <1>1
  <1>5. feeds \in Seq(S) /\ Len(feeds) = 1
    BY <1>3, <1>4
  <1>6. rtCache = NoSnapshot /\ SnapshotTyped(rtCache) /\ rtCache.feed = 0
    BY <1>5 DEF BusInit, NoSnapshot, SnapshotTyped, None
  <1>7. rider = [r \in Riders |-> Quiet] /\ AnswerTyped(Quiet) /\ Quiet.now = 0 /\ Quiet.step = "idle"
    BY <1>5 DEF BusInit, Quiet, AnswerTyped, None
  <1>8. BusTypeOK
    BY <1>1, <1>2, <1>5, <1>6, <1>7, NumbersOfBuses DEF BusInit, BusTypeOK, NoFetch
  <1>9. FeedsAreRecent
    BY <1>2, <1>6, <1>7, NumbersOfBuses DEF BusInit, FeedsAreRecent, SnapshotIsOf, NoFetch
  <1> QED BY <1>7, <1>8, <1>9 DEF BusInv, AnswersAreFresh

LEMMA BusInvariant == BusSpec => []BusInv
  <1>1. BusInv /\ [BusNext]_busVars => BusInv'
    BY AskKeeps, ShareFetchKeeps, FallBackKeeps, FetchEndsKeeps, FetchFailsKeeps, PublishKeeps,
       TimePassesKeeps, RefreshKeeps, BusStutterKeeps DEF BusNext, RiderStep
  <1> QED BY BusInitHolds, <1>1, PTL DEF BusSpec

\* The bus times stay typed, for any timetable, feeds and requests (gtfs_realtime.go).
THEOREM BusesStayTyped == BusSpec => []BusTypeOK
  BY BusInvariant, PTL DEF BusInv

\* No passenger is ever shown times by a feed that is older than the code allows, but one that
\* does not say how old it is, however the requests share a fetch, miss it or fall back on what
\* they had (getRealtimeDepartures, feedHeaderTime).
THEOREM AnswersStayFresh == BusSpec => []AnswersAreFresh
  BY BusInvariant, PTL DEF BusInv

-----------------------------------------------------------------------------
(* The parts together *)

\* Whatever runs, every part behaves as it does alone: what is proved of it holds of all.
THEOREM PartsRunAlone ==
    CommunitySpec => /\ RemindersSpec /\ SyncSpec /\ GallerySpec /\ EventsSpec /\ ClubsSpec
                     /\ AccountsSpec /\ DevicesSpec /\ BusSpec /\ CatalogueSpec
  <1>1. CommunityInit => /\ RemindersInit /\ SyncInit /\ GalleryInit /\ EventsInit /\ ClubsInit
                         /\ AccountsInit /\ DevicesInit /\ BusInit /\ CatalogueInit
    BY DEF CommunityInit
  <1>2. [CommunityNext]_communityVars =>
            /\ [RemindersNext]_reminderVars /\ [SyncNext]_syncVars /\ [GalleryNext]_galleryVars
            /\ [EventsNext]_eventVars /\ [ClubsNext]_clubVars /\ [AccountsNext]_accountVars
            /\ [DevicesNext]_deviceVars /\ [BusNext]_busVars /\ [CatalogueNext]_catalogueVars
    <2>1. CASE UNCHANGED communityVars
      BY <2>1 DEF communityVars
    <2>2. CASE CommunityNext
      BY <2>2 DEF CommunityNext, Only
    <2> QED BY <2>1, <2>2
  <1> QED BY <1>1, <1>2, PTL
          DEF CommunitySpec, RemindersSpec, SyncSpec, GallerySpec, EventsSpec, ClubsSpec,
              AccountsSpec, DevicesSpec, BusSpec, CatalogueSpec

\* Every variable of every part keeps its type, for any people, callers, rows and replicas.
THEOREM CommunityStaysTyped == CommunitySpec => []TypesOK
  <1> DEFINE AllTyped ==
         /\ RemindersTypeOK /\ SyncTypeOK /\ GalleryTypeOK /\ EventsTypeOK /\ ClubsTypeOK
         /\ AccountsTypeOK /\ DevicesTypeOK /\ BusTypeOK /\ CatalogueTypeOK
  <1>1. AllTyped /\ area \in Areas => TypesOK
    BY DEF TypesOK, Areas
  <1>2. CommunitySpec => [](area \in Areas)
    <2>1. CommunityInit => area \in Areas
      BY DEF CommunityInit
    <2>2. area \in Areas /\ [CommunityNext]_communityVars => (area \in Areas)'
      BY DEF CommunityNext, Only, communityVars
    <2> QED BY <2>1, <2>2, PTL DEF CommunitySpec
  <1> QED BY <1>1, <1>2, PartsRunAlone, RemindersStayTyped, SyncStaysTyped, GalleryStaysTyped,
             EventsStayTyped, ClubsStayTyped, AccountsTyped, DevicesStayTyped, BusesStayTyped,
             CatalogueStaysTyped, PTL

\* What is checked of the parts on small instances, but for how the rows of the buses are merged,
\* holds for all people, callers, rows, replicas and bounds.
THEOREM CommunityIsSafe ==
    CommunitySpec => /\ [](TypesOK /\ RemindedOnce /\ IndexCatchesUp)
                     /\ [](AnswersAreCurrent /\ WalkSeesEachOnce)
                     /\ [](CreatorsCanDelete /\ EventRemindedOnce /\ ResponsiblesAreMembers)
                     /\ [](OneStanding /\ CodesAreUsedOnce)
                     /\ [](HeartbeatsCount /\ MirrorHasNoStranger)
                     /\ [](AnswersAreFresh /\ TreeShowsEverything)
                     /\ EventsKeepTheOutbox /\ RegistrationsAreAtomic
  BY PartsRunAlone, CommunityStaysTyped, RemindersSentOnce, IndexAlwaysCatchesUp,
     AnswersStayCurrent, WalksSeeEachOnce, CreatorsKeepTheirEvents, EventsRemindedOnce,
     ResponsiblesStayMembers, StandingKept, CodesSpentOnce, HeartbeatsAlwaysCount,
     MirrorNamesTheOwner, AnswersStayFresh, TreesShowEverything, EventsImplementTheOutbox,
     RegistrationsActAtOnce, PTL

=============================================================================
