--------------------------- MODULE WaitlistProofs ---------------------------
(* What holds of the waiting list for all users, requests and schedulers. *)
EXTENDS Waitlist, TLAPS

\* The transactions that book start from a resource nobody holds.
LEMMA BookingKeepsOne ==
    ASSUME NEW p \in Calls, Reserve(p) \/ CreateReservation(p), OneBooking
    PROVE  OneBooking'
BY DEF Reserve, CreateReservation, OneBooking, isFree

\* The statements that release only take holders away.
LEMMA ReleaseKeepsOne ==
    ASSUME NEW p \in Calls, Cancel(p) \/ Revoke(p) \/ (\E u \in Users : EndReservation(p, u)),
           OneBooking
    PROVE  OneBooking'
BY DEF Cancel, Revoke, EndReservation, OneBooking, isFree

\* No other step touches the reservations.
LEMMA CallKeepsOne ==
    ASSUME NEW p \in Calls, CallStep(p), OneBooking
    PROVE  OneBooking'
<1>1. CASE Reserve(p) \/ CreateReservation(p)
  BY <1>1, BookingKeepsOne
<1>2. CASE Cancel(p) \/ Revoke(p)
  BY <1>2, ReleaseKeepsOne
<1>3. CASE Join(p) \/ ForgetInterest(p) \/ Remove(p) \/ Load(p) \/ AdminAdvance(p) \/ SkipFirst(p)
  BY <1>3 DEF Join, ForgetInterest, Remove, Load, AdminAdvance, SkipFirst, list, OneBooking
<1>4. CASE notifyNext(p) \/ announceAvailable(p) \/ TakeBack(p)
  BY <1>4 DEF notifyNext, announceAvailable, TakeBack, OneBooking
<1> QED BY <1>1, <1>2, <1>3, <1>4 DEF CallStep

LEMMA NextKeepsOne ==
    ASSUME OneBooking, [Next]_vars
    PROVE  OneBooking'
<1>1. ASSUME NEW p \in Requests, NewRequest(p) PROVE OneBooking'
  <2>1. CASE \E u \in Users : EndReservation(p, u)
    BY <2>1, ReleaseKeepsOne DEF Calls
  <2>2. CASE \/ \E op \in UserRequest, u \in Users : Begin(p, op, u)
             \/ \E op \in AdminRequest : Begin(p, op, None)
    BY <2>2 DEF Begin, list, OneBooking
  <2>3. CASE \E i \in Entries : AdminRemove(p, i)
    BY <2>3 DEF AdminRemove, OneBooking
  <2> QED BY <1>1, <2>1, <2>2, <2>3 DEF NewRequest
<1>2. ASSUME NEW p \in Schedulers, SchedulerStep(p) PROVE OneBooking'
  <2>1. CASE CallStep(p)
    BY <2>1, CallKeepsOne DEF Calls
  <2>2. CASE Tick(p) \/ ExpireWaitlistTurns(p) \/ expireTurn(p)
    BY <2>2 DEF Tick, ExpireWaitlistTurns, expireTurn, list, OneBooking
  <2>3. CASE \E i \in call[p].todo : LoadTurn(p, i)
    BY <2>3 DEF LoadTurn, list, OneBooking
  <2> QED BY <1>2, <2>1, <2>2, <2>3 DEF SchedulerStep
<1>3. ASSUME NEW p \in Calls, Stops(p) \/ AnnounceFails(p) PROVE OneBooking'
  BY <1>3 DEF Stops, AnnounceFails, list, OneBooking
<1>4. CASE Environment
  BY <1>4 DEF Environment, SlotStarts, SetStatus, ReachChanges, DeleteAccount, TurnRunsOut,
              list, OneBooking
<1>5. CASE UNCHANGED vars
  BY <1>5 DEF vars, OneBooking
<1>6. ASSUME NEW p \in Requests, CallStep(p) PROVE OneBooking'
  BY <1>6, CallKeepsOne DEF Calls
<1> QED BY <1>1, <1>2, <1>3, <1>4, <1>5, <1>6 DEF Next

\* However many requests race, and whatever they read before the lock, at most
\* one of them books the resource (reservation_repository.go:579).
THEOREM BookedOnce == Spec => []OneBooking
<1>1. Init => OneBooking
  BY DEF Init, OneBooking
<1>2. OneBooking /\ [Next]_vars => OneBooking'
  BY NextKeepsOne
<1> QED BY <1>1, <1>2, PTL DEF Spec

-----------------------------------------------------------------------------
(* Types.  First what the three ways to change the queue do to it, and the  *)
(* two ways a call goes on to what is known of the calls.                   *)

QueueOK ==
    /\ queue \in [Ids -> Entry]
    /\ \A i \in Ids : queue[i].user = None => queue[i] = NoEntry
    /\ \A i, j \in Entries : queue[i].user = queue[j].user => i = j
CallsOK ==
    /\ call \in [Calls -> Call]
    /\ \A p \in Calls : call[p].pc \in UserRequest \cup {"forget"} => call[p].who \in Users
RestOK ==
    /\ slot \in BOOLEAN /\ active \in BOOLEAN /\ past \in BOOLEAN
    /\ holders \subseteq Users /\ reach \subseteq Users
    /\ excuse \subseteq {"stopped", "reach", "other"}
    /\ trouble \in 0 .. MaxTrouble

LEMMA TypeParts == TypeOK <=> QueueOK /\ CallsOK /\ RestOK
BY DEF TypeOK, QueueOK, CallsOK, RestOK

LEMMA TypePartsNext == QueueOK' /\ CallsOK' /\ RestOK' => TypeOK'
BY DEF TypeOK, QueueOK, CallsOK, RestOK

\* An UPDATE leaves who is where, and everybody else's turn.
LEMMA MarkedIs ==
    ASSUME QueueOK, NEW i \in Entries, NEW t \in Turn, NEW b \in BOOLEAN, queue' = Marked(i, t, b)
    PROVE  /\ QueueOK'
           /\ Entries' = Entries
           /\ \A j \in Ids : queue'[j].user = queue[j].user /\ queue'[j].ahead = queue[j].ahead
           /\ \A j \in Ids : j # i => queue'[j] = queue[j]
           /\ queue'[i].turn = t /\ queue'[i].told = b
<1> DEFINE row == [queue[i] EXCEPT !.turn = t, !.told = b]
<1>1. i \in Ids /\ queue[i] \in Entry
  BY DEF Entries, QueueOK
<1>2. /\ row \in Entry /\ row.user = queue[i].user /\ row.ahead = queue[i].ahead
      /\ row.turn = t /\ row.told = b
  BY <1>1 DEF Entry
<1>3. queue' = [queue EXCEPT ![i] = row]
  BY DEF Marked
<1> HIDE DEF row
<1>4. queue'[i] = row /\ \A j \in Ids : j # i => queue'[j] = queue[j]
  BY <1>1, <1>3 DEF QueueOK
<1>5. queue' \in [Ids -> Entry]
  BY <1>1, <1>2, <1>3 DEF QueueOK
<1>6. \A j \in Ids : queue'[j].user = queue[j].user /\ queue'[j].ahead = queue[j].ahead
  BY <1>2, <1>4
<1>7. Entries' = Entries
  BY <1>6 DEF Entries
<1>8. \A j \in Ids : queue'[j].user = None => queue'[j] = NoEntry
  <2>1. queue[i].user # None
    BY DEF Entries
  <2> QED BY <1>4, <1>6, <2>1 DEF QueueOK
<1>9. \A j, k \in Entries' : queue'[j].user = queue'[k].user => j = k
  BY <1>6, <1>7 DEF QueueOK, Entries
<1> QED BY <1>2, <1>4, <1>5, <1>6, <1>7, <1>8, <1>9 DEF QueueOK

\* A DELETE leaves the others their person, their turn and their order.
LEMMA WithoutIs ==
    ASSUME QueueOK, NEW S, queue' = Without(S)
    PROVE  /\ QueueOK'
           /\ Entries' = Entries \ S
           /\ \A j \in Ids : j \in S => queue'[j] = NoEntry
           /\ \A j \in Ids : j \notin S =>
                  /\ queue'[j].user = queue[j].user /\ queue'[j].turn = queue[j].turn
                  /\ queue'[j].told = queue[j].told /\ queue'[j].ahead = queue[j].ahead \ S
<1>1. ASSUME NEW j \in Ids, j \in S PROVE queue'[j] = NoEntry
  BY <1>1 DEF Without
<1>2. NoEntry \in Entry /\ NoEntry.user = None
  BY DEF NoEntry, Entry, Turn
<1>3. ASSUME NEW j \in Ids, j \notin S
      PROVE  /\ queue'[j] \in Entry
             /\ queue'[j].user = queue[j].user /\ queue'[j].turn = queue[j].turn
             /\ queue'[j].told = queue[j].told /\ queue'[j].ahead = queue[j].ahead \ S
  <2>1. queue'[j] = [queue[j] EXCEPT !.ahead = queue[j].ahead \ S]
    BY <1>3 DEF Without
  <2>2. queue[j] \in Entry
    BY DEF QueueOK
  <2> QED BY <2>1, <2>2 DEF Entry
<1>4. queue' \in [Ids -> Entry]
  <2>1. queue' = [j \in Ids |-> queue'[j]]
    BY DEF Without
  <2>2. \A j \in Ids : queue'[j] \in Entry
    BY <1>1, <1>2, <1>3
  <2> QED BY <2>1, <2>2
<1>5. Entries' = Entries \ S
  BY <1>1, <1>2, <1>3 DEF Entries
<1>6. ASSUME NEW j \in Ids, queue'[j].user = None PROVE queue'[j] = NoEntry
  <2>1. CASE j \in S
    BY <1>1, <2>1
  <2>2. CASE j \notin S
    <3>1. queue[j] = NoEntry
      BY <1>3, <1>6, <2>2 DEF QueueOK
    <3>2. queue'[j] = [NoEntry EXCEPT !.ahead = NoEntry.ahead \ S]
      BY <2>2, <3>1 DEF Without
    <3> QED BY <3>2 DEF NoEntry
  <2> QED BY <2>1, <2>2
<1>7. \A j, k \in Entries' : queue'[j].user = queue'[k].user => j = k
  BY <1>3, <1>5 DEF QueueOK, Entries
<1> QED BY <1>1, <1>3, <1>4, <1>5, <1>6, <1>7 DEF QueueOK

\* A newcomer stands behind everybody.
LEMMA NewcomerIs ==
    ASSUME QueueOK, NEW u \in Users, EntriesOf(u) = {}, NEW i \in FreshIds,
           queue' = [queue EXCEPT ![i] = Newcomer(u)]
    PROVE  /\ QueueOK'
           /\ i \in Ids \ Entries
           /\ Entries' = Entries \cup {i}
           /\ queue'[i] = Newcomer(u)
           /\ \A j \in Ids : j # i => queue'[j] = queue[j]
<1>1. i \in Ids \ Entries
  BY DEF FreshIds, FreeIds
<1>2. u # None
  BY NoneAssumption
<1>3. /\ Newcomer(u) \in Entry /\ Newcomer(u).user = u
  <2>1. Entries \in SUBSET Ids
    BY DEF Entries
  <2> QED BY <2>1 DEF Newcomer, Entry, Turn
<1>4. queue'[i] = Newcomer(u) /\ \A j \in Ids : j # i => queue'[j] = queue[j]
  BY <1>1 DEF QueueOK
<1>5. queue' \in [Ids -> Entry]
  BY <1>1, <1>3 DEF QueueOK
<1>6. Entries' = Entries \cup {i}
  BY <1>1, <1>2, <1>3, <1>4 DEF Entries
<1>7. \A j \in Ids : queue'[j].user = None => queue'[j] = NoEntry
  BY <1>2, <1>3, <1>4 DEF QueueOK
<1>8. \A j, k \in Entries' : queue'[j].user = queue'[k].user => j = k
  BY <1>3, <1>4, <1>6 DEF QueueOK, Entries, EntriesOf
<1> QED BY <1>1, <1>4, <1>5, <1>6, <1>7, <1>8 DEF QueueOK

LEMMA GoesIs ==
    ASSUME CallsOK, NEW p \in Calls, NEW pc \in Pc \ (UserRequest \cup {"forget"}), Goes(p, pc)
    PROVE  /\ CallsOK'
           /\ call'[p].pc = pc /\ call'[p].open = call[p].open
           /\ \A q \in Calls : q # p => call'[q] = call[q]
<1> DEFINE c == [Idle EXCEPT !.pc = pc, !.open = call[p].open, !.todo = call[p].todo]
<1>1. call[p] \in Call
  BY DEF CallsOK
<1>2. c \in Call /\ c.pc = pc /\ c.open = call[p].open
  BY <1>1 DEF Call, Idle
<1>3. call' = [call EXCEPT ![p] = c]
  BY DEF Goes
<1> HIDE DEF c
<1>4. call' \in [Calls -> Call] /\ call'[p] = c /\ \A q \in Calls : q # p => call'[q] = call[q]
  BY <1>2, <1>3 DEF CallsOK
<1> QED BY <1>2, <1>4 DEF CallsOK

LEMMA EndsIs ==
    ASSUME CallsOK, NEW p \in Calls, Ends(p)
    PROVE  /\ CallsOK'
           /\ call'[p].pc \in {"idle", "next"}
           /\ \A q \in Calls : q # p => call'[q] = call[q]
<1> DEFINE c == IF call[p].todo = {} THEN Idle ELSE [Idle EXCEPT !.pc = "next", !.todo = call[p].todo]
<1>1. call[p] \in Call
  BY DEF CallsOK
<1>2. c \in Call /\ c.pc \in {"idle", "next"}
  BY <1>1 DEF Call, Idle, Pc
<1>3. call' = [call EXCEPT ![p] = c]
  BY DEF Ends
<1> HIDE DEF c
<1>4. call' \in [Calls -> Call] /\ call'[p] = c /\ \A q \in Calls : q # p => call'[q] = call[q]
  BY <1>2, <1>3 DEF CallsOK
<1> QED BY <1>2, <1>4 DEF CallsOK, UserRequest

\* The other ways set the call to a value of its own.
LEMMA CallSet ==
    ASSUME CallsOK, NEW p \in Calls, NEW c \in Call,
           c.pc \in UserRequest \cup {"forget"} => c.who \in Users,
           call' = [call EXCEPT ![p] = c]
    PROVE  /\ CallsOK'
           /\ call'[p] = c
           /\ \A q \in Calls : q # p => call'[q] = call[q]
<1>1. call' \in [Calls -> Call] /\ call'[p] = c /\ \A q \in Calls : q # p => call'[q] = call[q]
  BY DEF CallsOK
<1> QED BY <1>1 DEF CallsOK

LEMMA IdleIs == Idle \in Call /\ Idle.pc = "idle"
BY DEF Idle, Call, Pc

LEMMA TroubleIs ==
    ASSUME RestOK, NEW why \in {"stopped", "reach", "other"}, Trouble(why)
    PROVE  /\ excuse' \subseteq {"stopped", "reach", "other"} /\ trouble' \in 0 .. MaxTrouble
           /\ excuse \subseteq excuse' /\ why \in excuse'
<1>1. trouble' \in 0 .. MaxTrouble
  BY BoundAssumption DEF Trouble, RestOK
<1> QED BY <1>1 DEF Trouble, RestOK

\* The steps of a call that change the queue and go on or end.
LEMMA CallTyped ==
    ASSUME TypeOK, NEW p \in Calls, CallStep(p)
    PROVE  TypeOK'
<1>0. QueueOK /\ CallsOK /\ RestOK
  BY TypeParts
<1> USE DEF At
<1>1. call[p] \in Call
  BY <1>0 DEF CallsOK
<1>2. Entries \subseteq Ids
  BY DEF Entries
<1>3. CASE Join(p)
  <2>1. call[p].who \in Users
    BY <1>0, <1>3 DEF Join, CallsOK, UserRequest
  <2>2. QueueOK'
    <3>1. CASE UNCHANGED queue
      BY <1>0, <3>1 DEF QueueOK, Entries
    <3>2. CASE /\ EntriesOf(call[p].who) = {}
               /\ \E i \in FreshIds : queue' = [queue EXCEPT ![i] = Newcomer(call[p].who)]
      BY <1>0, <2>1, <3>2, NewcomerIs
    <3> QED BY <1>3, <3>1, <3>2 DEF Join
  <2>3. CallsOK'
    BY <1>0, <1>3, EndsIs DEF Join
  <2>4. RestOK'
    BY <1>0, <1>3 DEF Join, RestOK, item, outer
  <2> QED BY <2>2, <2>3, <2>4, TypePartsNext
<1>4. CASE Reserve(p)
  <2>1. call[p].who \in Users
    BY <1>0, <1>4 DEF Reserve, CallsOK, UserRequest
  <2>2. QueueOK'
    <3>1. CASE UNCHANGED queue
      BY <1>0, <3>1 DEF QueueOK, Entries
    <3>2. CASE queue' = Without(EntriesOf(call[p].who))
      BY <1>0, <3>2, WithoutIs
    <3> QED BY <1>4, <3>1, <3>2 DEF Reserve
  <2>3. CallsOK'
    BY <1>0, <1>4, EndsIs DEF Reserve
  <2>4. RestOK'
    BY <1>0, <1>4, <2>1 DEF Reserve, RestOK, item, outer
  <2> QED BY <2>2, <2>3, <2>4, TypePartsNext
<1>5. CASE CreateReservation(p)
  <2>1. call[p].who \in Users
    BY <1>0, <1>5 DEF CreateReservation, CallsOK, UserRequest
  <2>2. QueueOK'
    BY <1>0, <1>5 DEF CreateReservation, QueueOK, Entries
  <2>3. CallsOK'
    <3>1. CASE Ends(p)
      BY <1>0, <3>1, EndsIs
    <3>2. CASE call' = [call EXCEPT ![p].pc = "forget"]
      <4> DEFINE c == [call[p] EXCEPT !.pc = "forget"]
      <4>1. c \in Call /\ c.who \in Users
        BY <1>1, <2>1 DEF Call, Pc
      <4>2. call' = [call EXCEPT ![p] = c]
        BY <3>2
      <4> HIDE DEF c
      <4> QED BY <1>0, <4>1, <4>2, CallSet
    <3> QED BY <1>5, <3>1, <3>2 DEF CreateReservation
  <2>4. RestOK'
    BY <1>0, <1>5, <2>1 DEF CreateReservation, RestOK, item, outer
  <2> QED BY <2>2, <2>3, <2>4, TypePartsNext
<1>6. CASE ForgetInterest(p) \/ Remove(p)
  <2>1. QueueOK'
    BY <1>0, <1>6, WithoutIs DEF ForgetInterest, Remove
  <2>2. CallsOK'
    <3>1. CASE Ends(p)
      BY <1>0, <3>1, EndsIs
    <3>2. CASE Goes(p, "notify")
      BY <1>0, <3>2, GoesIs DEF Pc, UserRequest
    <3> QED BY <1>6, <3>1, <3>2 DEF ForgetInterest, Remove
  <2>3. RestOK'
    BY <1>0, <1>6 DEF ForgetInterest, Remove, RestOK, item, outer
  <2> QED BY <2>1, <2>2, <2>3, TypePartsNext
<1>7. CASE Cancel(p) \/ Revoke(p)
  <2>1. QueueOK'
    BY <1>0, <1>7 DEF Cancel, Revoke, QueueOK, Entries
  <2>2. CallsOK'
    <3>1. CASE Ends(p)
      BY <1>0, <3>1, EndsIs
    <3>2. CASE Goes(p, "notify")
      BY <1>0, <3>2, GoesIs DEF Pc, UserRequest
    <3> QED BY <1>7, <3>1, <3>2 DEF Cancel, Revoke
  <2>3. RestOK'
    BY <1>0, <1>7 DEF Cancel, Revoke, RestOK, item, outer
  <2> QED BY <2>1, <2>2, <2>3, TypePartsNext
<1>8. CASE Load(p)
  <2>1. QueueOK' /\ RestOK'
    BY <1>0, <1>8 DEF Load, QueueOK, RestOK, Entries, item, outer, list
  <2>2. CallsOK'
    <3> DEFINE c == [call[p] EXCEPT !.pc = "notify", !.open = active]
    <3>1. c \in Call /\ c.pc = "notify"
      BY <1>0, <1>1 DEF Call, Pc, RestOK
    <3>2. call' = [call EXCEPT ![p] = c]
      BY <1>8 DEF Load
    <3> HIDE DEF c
    <3> QED BY <1>0, <3>1, <3>2, CallSet DEF UserRequest
  <2> QED BY <2>1, <2>2, TypePartsNext
<1>9. CASE AdminAdvance(p) \/ SkipFirst(p)
  <2>1. QueueOK'
    <3>1. CASE AdminAdvance(p)
      BY <1>0, <3>1 DEF AdminAdvance, QueueOK, Entries, list
    <3>2. CASE SkipFirst(p)
      BY <1>0, <3>2, WithoutIs DEF SkipFirst
    <3> QED BY <1>9, <3>1, <3>2
  <2>2. CallsOK'
    <3>1. CASE Ends(p)
      BY <1>0, <3>1, EndsIs
    <3>2. CASE Goes(p, "notify") \/ Goes(p, "skip")
      BY <1>0, <3>2, GoesIs DEF Pc, UserRequest
    <3> QED BY <1>9, <3>1, <3>2 DEF AdminAdvance, SkipFirst
  <2>3. RestOK'
    BY <1>0, <1>9 DEF AdminAdvance, SkipFirst, RestOK, item, outer, list
  <2> QED BY <2>1, <2>2, <2>3, TypePartsNext
<1>10. CASE notifyNext(p)
  <2>1. RestOK'
    BY <1>0, <1>10 DEF notifyNext, RestOK, item, outer
  <2>2. CASE UNCHANGED queue /\ Ends(p)
    <3>1. QueueOK' /\ CallsOK'
      BY <1>0, <2>2, EndsIs DEF QueueOK, Entries
    <3> QED BY <2>1, <3>1, TypePartsNext
  <2>3. CASE \E i \in FirstInLine(Candidates) :
                /\ queue' = Marked(i, "running", FALSE)
                /\ call' = [call EXCEPT ![p] =
                       [Idle EXCEPT !.pc = "announce", !.entry = i, !.todo = call[p].todo]]
    <3>1. PICK i \in FirstInLine(Candidates) :
                /\ queue' = Marked(i, "running", FALSE)
                /\ call' = [call EXCEPT ![p] =
                       [Idle EXCEPT !.pc = "announce", !.entry = i, !.todo = call[p].todo]]
      BY <2>3
    <3>2. i \in Entries
      BY DEF FirstInLine, First, Candidates
    <3>3. QueueOK'
      BY <1>0, <3>1, <3>2, MarkedIs DEF Turn
    <3>4. CallsOK'
      <4> DEFINE c == [Idle EXCEPT !.pc = "announce", !.entry = i, !.todo = call[p].todo]
      <4>1. c \in Call /\ c.pc = "announce"
        BY <1>1, <1>2, <3>2 DEF Call, Idle, Pc
      <4>2. call' = [call EXCEPT ![p] = c]
        BY <3>1
      <4> HIDE DEF c
      <4> QED BY <1>0, <4>1, <4>2, CallSet DEF UserRequest
    <3> QED BY <2>1, <3>3, <3>4, TypePartsNext
  <2> QED BY <1>10, <2>2, <2>3 DEF notifyNext
<1>11. CASE announceAvailable(p) \/ TakeBack(p)
  <2>1. QueueOK'
    <3>1. CASE queue' = queue
      BY <1>0, <3>1 DEF QueueOK, Entries
    <3> DEFINE i == call[p].entry
    <3>2. CASE i \in Entries /\ queue' = Marked(i, queue[i].turn, HasTurn(i))
      <4>1. queue[i].turn \in Turn /\ HasTurn(i) \in BOOLEAN
        BY <1>0, <1>2, <3>2 DEF QueueOK, Entry, HasTurn
      <4> HIDE DEF i
      <4> QED BY <1>0, <3>2, <4>1, MarkedIs
    <3>3. CASE i \in Entries /\ queue' = Marked(i, "none", FALSE)
      <4> HIDE DEF i
      <4> QED BY <1>0, <3>3, MarkedIs DEF Turn
    <3> QED BY <1>11, <3>1, <3>2, <3>3 DEF announceAvailable, TakeBack
  <2>2. CallsOK'
    BY <1>0, <1>11, EndsIs DEF announceAvailable, TakeBack
  <2>3. RestOK'
    BY <1>0, <1>11 DEF announceAvailable, TakeBack, RestOK, item, outer
  <2> QED BY <2>1, <2>2, <2>3, TypePartsNext
<1> QED BY <1>3, <1>4, <1>5, <1>6, <1>7, <1>8, <1>9, <1>10, <1>11 DEF CallStep

LEMMA NextTyped == TypeOK /\ [Next]_vars => TypeOK'
<1> SUFFICES ASSUME TypeOK, [Next]_vars PROVE TypeOK'
  OBVIOUS
<1>0. QueueOK /\ CallsOK /\ RestOK
  BY TypeParts
<1> USE DEF At
<1>1. ASSUME NEW p \in Requests, NewRequest(p) PROVE TypeOK'
  <2>0. p \in Calls
    BY DEF Calls
  <2>1. ASSUME NEW op \in UserRequest \cup AdminRequest, NEW u \in Users \cup {None}, Begin(p, op, u),
               op \in UserRequest => u \in Users
        PROVE  TypeOK'
    <3> DEFINE c == [Idle EXCEPT !.pc = op, !.who = u, !.open = active]
    <3>1. c \in Call /\ c.pc = op /\ c.who = u
      BY <1>0 DEF Call, Idle, Pc, RestOK
    <3>2. call' = [call EXCEPT ![p] = c]
      BY <2>1 DEF Begin
    <3>3. op \in UserRequest \cup {"forget"} => u \in Users
      BY <2>1 DEF AdminRequest
    <3> HIDE DEF c
    <3>4. CallsOK'
      BY <1>0, <2>0, <3>1, <3>2, <3>3, CallSet
    <3>5. QueueOK' /\ RestOK'
      BY <1>0, <2>1 DEF Begin, QueueOK, RestOK, Entries, item, outer, list
    <3> QED BY <3>4, <3>5, TypePartsNext
  <2>2. ASSUME NEW u \in Users, EndReservation(p, u) PROVE TypeOK'
    <3>1. QueueOK' /\ RestOK'
      BY <1>0, <2>2 DEF EndReservation, QueueOK, RestOK, Entries, item, outer
    <3>2. CallsOK'
      BY <1>0, <2>0, <2>2, GoesIs DEF EndReservation, Pc, UserRequest
    <3> QED BY <3>1, <3>2, TypePartsNext
  <2>3. ASSUME NEW i \in Entries, AdminRemove(p, i) PROVE TypeOK'
    <3>1. QueueOK'
      BY <1>0, <2>3, WithoutIs DEF AdminRemove
    <3>2. CallsOK'
      <4>1. CASE UNCHANGED call
        BY <1>0, <4>1 DEF CallsOK
      <4>2. CASE Goes(p, "load")
        BY <1>0, <2>0, <4>2, GoesIs DEF Pc, UserRequest
      <4> QED BY <2>3, <4>1, <4>2 DEF AdminRemove
    <3>3. RestOK'
      BY <1>0, <2>3 DEF AdminRemove, RestOK, item, outer
    <3> QED BY <3>1, <3>2, <3>3, TypePartsNext
  <2> QED BY <1>1, <2>1, <2>2, <2>3 DEF NewRequest, AdminRequest, UserRequest
<1>2. ASSUME NEW p \in Schedulers, SchedulerStep(p) PROVE TypeOK'
  <2>0. p \in Calls /\ call[p] \in Call
    BY <1>0 DEF Calls, CallsOK
  <2>1. CASE CallStep(p)
    BY <2>0, <2>1, CallTyped
  <2>2. CASE Tick(p)
    <3>1. QueueOK'
      <4>1. CASE queue' = queue
        BY <1>0, <4>1 DEF QueueOK, Entries
      <4>2. CASE queue' = Without(Entries)
        BY <1>0, <4>2, WithoutIs
      <4> QED BY <2>2, <4>1, <4>2 DEF Tick
    <3>2. CallsOK'
      BY <1>0, <2>0, <2>2, GoesIs DEF Tick, Pc, UserRequest
    <3>3. RestOK'
      BY <1>0, <2>2 DEF Tick, RestOK, item, outer
    <3> QED BY <3>1, <3>2, <3>3, TypePartsNext
  <2>3. CASE ExpireWaitlistTurns(p)
    <3>1. QueueOK' /\ RestOK'
      BY <1>0, <2>3 DEF ExpireWaitlistTurns, QueueOK, RestOK, Entries, item, outer, list
    <3>2. CallsOK'
      <4> DEFINE ids == {i \in Entries : queue[i].turn = "over"}
                 c == IF ids = {} THEN Idle ELSE [Idle EXCEPT !.pc = "next", !.todo = ids]
      <4>1. ids \in SUBSET Ids
        BY DEF Entries
      <4>2. call' = [call EXCEPT ![p] = c]
        BY <2>3 DEF ExpireWaitlistTurns
      <4> HIDE DEF ids
      <4>3. c \in Call /\ c.pc \in {"idle", "next"}
        BY <4>1 DEF Call, Idle, Pc
      <4> HIDE DEF c
      <4> QED BY <1>0, <2>0, <4>2, <4>3, CallSet DEF UserRequest
    <3> QED BY <3>1, <3>2, TypePartsNext
  <2>4. ASSUME NEW i \in call[p].todo, LoadTurn(p, i) PROVE TypeOK'
    <3>1. QueueOK' /\ RestOK'
      BY <1>0, <2>4 DEF LoadTurn, QueueOK, RestOK, Entries, item, outer, list
    <3>2. CallsOK'
      <4> DEFINE rest == call[p].todo \ {i}
                 c == IF i \in Entries
                      THEN [Idle EXCEPT !.pc = "expire", !.open = active, !.entry = i, !.todo = rest]
                      ELSE IF rest = {} THEN Idle ELSE [Idle EXCEPT !.pc = "next", !.todo = rest]
      <4>1. rest \in SUBSET Ids /\ i \in Ids
        BY <2>0 DEF Call
      <4>2. call' = [call EXCEPT ![p] = c]
        BY <2>4 DEF LoadTurn
      <4> HIDE DEF rest
      <4>3. c \in Call /\ c.pc \in {"idle", "next", "expire"}
        BY <1>0, <4>1 DEF Call, Idle, Pc, RestOK
      <4> HIDE DEF c
      <4> QED BY <1>0, <2>0, <4>2, <4>3, CallSet DEF UserRequest
    <3> QED BY <3>1, <3>2, TypePartsNext
  <2>5. CASE expireTurn(p)
    <3>1. RestOK'
      BY <1>0, <2>5 DEF expireTurn, RestOK, item, outer
    <3>2. QueueOK'
      <4>1. CASE UNCHANGED queue
        BY <1>0, <4>1 DEF QueueOK, Entries
      <4>2. CASE queue' = Without({call[p].entry})
        BY <1>0, <4>2, WithoutIs
      <4>3. CASE Held(p) /\ queue' = Marked(call[p].entry, "none", FALSE)
        BY <1>0, <4>3, MarkedIs DEF Held, Turn
      <4> QED BY <2>5, <4>1, <4>2, <4>3 DEF expireTurn
    <3>3. CallsOK'
      <4>1. CASE Ends(p)
        BY <1>0, <2>0, <4>1, EndsIs
      <4>2. CASE Goes(p, "notify")
        BY <1>0, <2>0, <4>2, GoesIs DEF Pc, UserRequest
      <4> QED BY <2>5, <4>1, <4>2 DEF expireTurn
    <3> QED BY <3>1, <3>2, <3>3, TypePartsNext
  <2> QED BY <1>2, <2>1, <2>2, <2>3, <2>4, <2>5 DEF SchedulerStep
<1>3. ASSUME NEW p \in Calls, Stops(p) PROVE TypeOK'
  <2>1. CallsOK'
    BY <1>0, <1>3, IdleIs, CallSet DEF Stops, UserRequest
  <2>2. QueueOK' /\ RestOK'
    BY <1>0, <1>3, TroubleIs DEF Stops, QueueOK, RestOK, Entries, item, list
  <2> QED BY <2>1, <2>2, TypePartsNext
<1>4. ASSUME NEW p \in Calls, AnnounceFails(p) PROVE TypeOK'
  <2>1. CallsOK'
    <3> DEFINE c == [call[p] EXCEPT !.pc = "unannounce"]
    <3>1. c \in Call /\ c.pc = "unannounce"
      BY <1>0 DEF CallsOK, Call, Pc
    <3>2. call' = [call EXCEPT ![p] = c]
      BY <1>4 DEF AnnounceFails
    <3> HIDE DEF c
    <3> QED BY <1>0, <3>1, <3>2, CallSet DEF UserRequest
  <2>2. QueueOK' /\ RestOK'
    BY <1>0, <1>4, TroubleIs DEF AnnounceFails, QueueOK, RestOK, Entries, item, list
  <2> QED BY <2>1, <2>2, TypePartsNext
<1>5. CASE Environment
  <2>1. CASE SlotStarts \/ SetStatus \/ \E u \in Users : ReachChanges(u)
    <3>1. CallsOK' /\ QueueOK'
      BY <1>0, <2>1 DEF SlotStarts, SetStatus, ReachChanges, CallsOK, QueueOK, Entries, list
    <3>2. RestOK'
      BY <1>0, <2>1, TroubleIs DEF SlotStarts, SetStatus, ReachChanges, RestOK, item, outer, list
    <3> QED BY <3>1, <3>2, TypePartsNext
  <2>2. ASSUME NEW u \in Users, DeleteAccount(u) PROVE TypeOK'
    <3>1. QueueOK'
      BY <1>0, <2>2, WithoutIs DEF DeleteAccount
    <3>2. CallsOK' /\ RestOK'
      BY <1>0, <2>2, TroubleIs DEF DeleteAccount, CallsOK, RestOK, item
    <3> QED BY <3>1, <3>2, TypePartsNext
  <2>3. ASSUME NEW i \in Entries, TurnRunsOut(i) PROVE TypeOK'
    <3>1. queue[i].told \in BOOLEAN
      BY <1>0 DEF QueueOK, Entries, Entry
    <3>2. QueueOK'
      BY <1>0, <2>3, <3>1, MarkedIs DEF TurnRunsOut, Turn
    <3>3. CallsOK' /\ RestOK'
      BY <1>0, <2>3 DEF TurnRunsOut, CallsOK, RestOK, item, outer
    <3> QED BY <3>2, <3>3, TypePartsNext
  <2> QED BY <1>5, <2>1, <2>2, <2>3 DEF Environment
<1>6. CASE UNCHANGED vars
  BY <1>6, <1>0, TypePartsNext DEF vars, QueueOK, CallsOK, RestOK, Entries
<1>7. ASSUME NEW p \in Requests, CallStep(p) PROVE TypeOK'
  BY <1>7, CallTyped DEF Calls
<1> QED BY <1>1, <1>2, <1>3, <1>4, <1>5, <1>6, <1>7 DEF Next

LEMMA InitTyped == Init => TypeOK
<1> SUFFICES ASSUME Init PROVE TypeOK
  OBVIOUS
<1>1. NoEntry \in Entry /\ NoEntry.user = None
  BY DEF NoEntry, Entry, Turn
<1>2. QueueOK
  BY <1>1 DEF Init, QueueOK, Entries
<1>3. CallsOK
  BY IdleIs DEF Init, CallsOK, UserRequest
<1>4. RestOK
  <2>1. 0 \in 0 .. MaxTrouble
    BY BoundAssumption
  <2> QED BY <2>1 DEF Init, RestOK
<1> QED BY <1>2, <1>3, <1>4, TypeParts

\* Whatever is asked of it and whatever fails, the queue holds nobody twice
\* (UNIQUE in 00041_reservation_reminders_waitlist.sql) and no row outlives its entry.
THEOREM WaitlistTyped == Spec => []TypeOK
BY InitTyped, NextTyped, PTL DEF Spec

-----------------------------------------------------------------------------
(* Turns.  The rows know their order, and as long as nobody's devices       *)
(* change, a turn is only held by the first person who can be reached.      *)

InLine ==
    /\ \A i \in Entries : queue[i].ahead \subseteq Entries
    /\ \A i, j \in Entries : i # j => i \in queue[j].ahead \/ j \in queue[i].ahead
    /\ "reach" \notin excuse => \A i \in Entries : HasTurn(i) => i \in First(Candidates)

LEMMA LineSame ==
    ASSUME InLine, queue' = queue, excuse \subseteq excuse', reach' = reach \/ "reach" \in excuse'
    PROVE  InLine'
<1>1. Entries' = Entries
  BY DEF Entries
<1>2. ASSUME reach' = reach PROVE First(Candidates)' = First(Candidates)
  BY <1>1, <1>2 DEF First, Candidates
<1> QED BY <1>1, <1>2 DEF InLine, HasTurn

LEMMA LineMarked ==
    ASSUME QueueOK, InLine, NEW i \in Entries, NEW t \in Turn, NEW b \in BOOLEAN,
           queue' = Marked(i, t, b), reach' = reach, excuse \subseteq excuse',
           t = "none" \/ HasTurn(i) \/ i \in First(Candidates)
    PROVE  InLine'
<1>1. /\ Entries' = Entries
      /\ \A j \in Ids : queue'[j].user = queue[j].user /\ queue'[j].ahead = queue[j].ahead
      /\ \A j \in Ids : j # i => queue'[j] = queue[j]
      /\ queue'[i].turn = t
  BY MarkedIs
<1>2. Entries \subseteq Ids
  BY DEF Entries
<1>3. First(Candidates)' = First(Candidates)
  BY <1>1, <1>2 DEF First, Candidates
<1>4. \A j \in Entries : HasTurn(j)' => HasTurn(j) \/ j \in First(Candidates)
  BY <1>1, <1>2 DEF HasTurn
<1> QED BY <1>1, <1>2, <1>3, <1>4 DEF InLine

LEMMA LineWithout ==
    ASSUME QueueOK, InLine, NEW S, queue' = Without(S), reach' = reach, excuse \subseteq excuse'
    PROVE  InLine'
<1>1. /\ Entries' = Entries \ S
      /\ \A j \in Ids : j \notin S =>
                  /\ queue'[j].user = queue[j].user /\ queue'[j].turn = queue[j].turn
                  /\ queue'[j].ahead = queue[j].ahead \ S
  BY WithoutIs
<1>2. Entries \subseteq Ids
  BY DEF Entries
<1>3. \A i \in Entries' : HasTurn(i)' => HasTurn(i)
  BY <1>1, <1>2 DEF HasTurn
<1>4. Candidates' = Candidates \ S
  BY <1>1, <1>2 DEF Candidates
<1>5. \A i \in Entries' : i \in First(Candidates) => i \in First(Candidates)'
  <2>1. \A i \in Candidates' : queue'[i].ahead \subseteq queue[i].ahead
    BY <1>1, <1>2 DEF Candidates
  <2> QED BY <1>1, <1>4, <2>1 DEF First
<1>6. \A i \in Entries' : queue'[i].ahead \subseteq Entries'
  BY <1>1, <1>2 DEF InLine
<1>7. \A i, j \in Entries' : i # j => i \in queue'[j].ahead \/ j \in queue'[i].ahead
  BY <1>1, <1>2 DEF InLine
<1> QED BY <1>1, <1>3, <1>5, <1>6, <1>7 DEF InLine

LEMMA LineNewcomer ==
    ASSUME QueueOK, InLine, NEW u \in Users, EntriesOf(u) = {}, NEW i \in FreshIds,
           queue' = [queue EXCEPT ![i] = Newcomer(u)], reach' = reach, excuse \subseteq excuse'
    PROVE  InLine'
<1>1. /\ i \in Ids \ Entries
      /\ Entries' = Entries \cup {i}
      /\ queue'[i] = Newcomer(u)
      /\ \A j \in Ids : j # i => queue'[j] = queue[j]
  BY NewcomerIs
<1>2. Entries \subseteq Ids
  BY DEF Entries
<1>3. Newcomer(u).turn = "none" /\ Newcomer(u).ahead = Entries
  BY DEF Newcomer
<1>4. \A j \in Entries : queue'[j] = queue[j]
  BY <1>1, <1>2
<1>5. \A j \in Entries' : HasTurn(j)' => j \in Entries /\ HasTurn(j)
  BY <1>1, <1>3, <1>4 DEF HasTurn
<1>6. Candidates' \subseteq Candidates \cup {i}
  BY <1>1, <1>4 DEF Candidates
<1>7. \A j \in Entries : j \in First(Candidates) => j \in First(Candidates)'
  <2> SUFFICES ASSUME NEW j \in Entries, j \in First(Candidates) PROVE j \in First(Candidates)'
    OBVIOUS
  <2>1. j \in Candidates'
    BY <1>1, <1>4 DEF First, Candidates
  <2>2. i \notin queue'[j].ahead
    BY <1>1, <1>4 DEF InLine
  <2>3. \A k \in Candidates' : k \notin queue'[j].ahead
    BY <1>4, <1>6, <2>2 DEF First
  <2> QED BY <2>1, <2>3 DEF First
<1>8. \A j \in Entries' : queue'[j].ahead \subseteq Entries'
  BY <1>1, <1>3, <1>4 DEF InLine
<1>9. \A j, k \in Entries' : j # k => j \in queue'[k].ahead \/ k \in queue'[j].ahead
  BY <1>1, <1>3, <1>4 DEF InLine
<1> QED BY <1>5, <1>7, <1>8, <1>9 DEF InLine

LEMMA CallInLine ==
    ASSUME TypeOK, InLine, NEW p \in Calls, CallStep(p)
    PROVE  InLine'
<1>0. QueueOK /\ CallsOK /\ RestOK
  BY TypeParts
<1>1. excuse \subseteq excuse' /\ reach' = reach
  BY DEF CallStep, Join, Reserve, CreateReservation, ForgetInterest, Remove, Cancel, Revoke, Load,
         AdminAdvance, SkipFirst, notifyNext, announceAvailable, TakeBack, outer
<1>2. CASE UNCHANGED queue
  BY <1>1, <1>2, LineSame
<1>3. CASE Join(p) /\ ~UNCHANGED queue
  <2>1. call[p].who \in Users
    BY <1>0, <1>3 DEF Join, At, CallsOK, UserRequest
  <2>2. /\ EntriesOf(call[p].who) = {}
        /\ \E i \in FreshIds : queue' = [queue EXCEPT ![i] = Newcomer(call[p].who)]
    BY <1>3 DEF Join
  <2> QED BY <1>0, <1>1, <2>1, <2>2, LineNewcomer
<1>4. CASE Reserve(p) \/ ForgetInterest(p) \/ Remove(p) \/ SkipFirst(p)
  <2>1. UNCHANGED queue \/ \E S : queue' = Without(S)
    BY <1>4 DEF Reserve, ForgetInterest, Remove, SkipFirst
  <2> QED BY <1>0, <1>1, <1>2, <2>1, LineWithout
<1>5. CASE notifyNext(p) /\ ~UNCHANGED queue
  <2>1. PICK i \in First(Candidates) : queue' = Marked(i, "running", FALSE)
    BY <1>5 DEF notifyNext, FirstInLine
  <2>2. i \in Entries
    BY DEF First, Candidates
  <2> QED BY <1>0, <1>1, <2>1, <2>2, LineMarked DEF Turn
<1>6. CASE announceAvailable(p) /\ ~UNCHANGED queue
  <2> DEFINE i == call[p].entry
  <2>1. i \in Entries /\ queue' = Marked(i, queue[i].turn, HasTurn(i))
    BY <1>6 DEF announceAvailable
  <2> HIDE DEF i
  <2>2. queue[i].turn \in Turn /\ HasTurn(i) \in BOOLEAN
    BY <1>0, <2>1 DEF QueueOK, Entries, Entry, HasTurn
  <2>3. queue[i].turn = "none" \/ HasTurn(i)
    BY DEF HasTurn
  <2> QED BY <1>0, <1>1, <2>1, <2>2, <2>3, LineMarked
<1>7. CASE TakeBack(p) /\ ~UNCHANGED queue
  <2> DEFINE i == call[p].entry
  <2>1. i \in Entries /\ queue' = Marked(i, "none", FALSE)
    BY <1>7 DEF TakeBack
  <2> HIDE DEF i
  <2> QED BY <1>0, <1>1, <2>1, LineMarked DEF Turn
<1>8. CASE CreateReservation(p) \/ Cancel(p) \/ Revoke(p) \/ Load(p) \/ AdminAdvance(p)
  BY <1>2, <1>8 DEF CreateReservation, Cancel, Revoke, Load, AdminAdvance, list
<1> QED BY <1>2, <1>3, <1>4, <1>5, <1>6, <1>7, <1>8 DEF CallStep

LEMMA NextInLine == TypeOK /\ InLine /\ [Next]_vars => InLine'
<1> SUFFICES ASSUME TypeOK, InLine, [Next]_vars PROVE InLine'
  OBVIOUS
<1>0. QueueOK /\ CallsOK /\ RestOK
  BY TypeParts
<1>1. ASSUME NEW p \in Requests, NewRequest(p) PROVE InLine'
  <2>1. CASE \/ \E op \in UserRequest, u \in Users : Begin(p, op, u)
             \/ \E op \in AdminRequest : Begin(p, op, None)
             \/ \E u \in Users : EndReservation(p, u)
    BY <2>1, LineSame DEF Begin, EndReservation, list, outer
  <2>2. ASSUME NEW i \in Entries, AdminRemove(p, i) PROVE InLine'
    BY <1>0, <2>2, LineWithout DEF AdminRemove, outer
  <2> QED BY <1>1, <2>1, <2>2 DEF NewRequest
<1>2. ASSUME NEW p \in Schedulers, SchedulerStep(p) PROVE InLine'
  <2>1. CASE CallStep(p)
    BY <2>1, CallInLine DEF Calls
  <2>2. CASE Tick(p)
    BY <1>0, <2>2, LineSame, LineWithout DEF Tick, outer
  <2>3. CASE ExpireWaitlistTurns(p) \/ \E i \in call[p].todo : LoadTurn(p, i)
    BY <2>3, LineSame DEF ExpireWaitlistTurns, LoadTurn, list, outer
  <2>4. CASE expireTurn(p)
    <3>1. CASE UNCHANGED queue
      BY <2>4, <3>1, LineSame DEF expireTurn, outer
    <3>2. CASE queue' = Without({call[p].entry})
      BY <1>0, <2>4, <3>2, LineWithout DEF expireTurn, outer
    <3>3. CASE Held(p) /\ queue' = Marked(call[p].entry, "none", FALSE)
      BY <1>0, <2>4, <3>3, LineMarked DEF expireTurn, Held, Turn, outer
    <3> QED BY <2>4, <3>1, <3>2, <3>3 DEF expireTurn
  <2> QED BY <1>2, <2>1, <2>2, <2>3, <2>4 DEF SchedulerStep
<1>3. ASSUME NEW p \in Calls, Stops(p) \/ AnnounceFails(p) PROVE InLine'
  BY <1>3, LineSame DEF Stops, AnnounceFails, Trouble, list
<1>4. CASE Environment
  <2>1. CASE SlotStarts \/ SetStatus \/ \E u \in Users : ReachChanges(u)
    BY <2>1, LineSame DEF SlotStarts, SetStatus, ReachChanges, Trouble, list, outer
  <2>2. ASSUME NEW u \in Users, DeleteAccount(u) PROVE InLine'
    BY <1>0, <2>2, LineWithout DEF DeleteAccount, Trouble
  <2>3. ASSUME NEW i \in Entries, TurnRunsOut(i) PROVE InLine'
    <3>1. queue[i].told \in BOOLEAN /\ "over" \in Turn /\ HasTurn(i)
      BY <1>0, <2>3 DEF QueueOK, Entries, Entry, TurnRunsOut, Turn, HasTurn
    <3> QED BY <1>0, <2>3, <3>1, LineMarked DEF TurnRunsOut, outer
  <2> QED BY <1>4, <2>1, <2>2, <2>3 DEF Environment
<1>5. CASE UNCHANGED vars
  BY <1>5, LineSame DEF vars
<1>6. ASSUME NEW p \in Requests, CallStep(p) PROVE InLine'
  BY <1>6, CallInLine DEF Calls
<1> QED BY <1>1, <1>2, <1>3, <1>4, <1>5, <1>6 DEF Next

LEMMA InitInLine == Init => InLine
BY DEF Init, InLine, Entries, NoEntry

LEMMA InLineOneTurn == InLine => OneTurn
<1> SUFFICES ASSUME InLine, "reach" \notin excuse, NEW i \in Entries, NEW j \in Entries,
                    HasTurn(i), HasTurn(j), i # j
             PROVE  FALSE
  BY DEF OneTurn
<1>1. i \in First(Candidates) /\ j \in First(Candidates)
  BY DEF InLine
<1>2. i \notin queue[j].ahead /\ j \notin queue[i].ahead
  BY <1>1 DEF First
<1> QED BY <1>2 DEF InLine

\* However releases, expired turns and people who leave or join interleave, one
\* person at a time is asked, as long as nobody's devices change (waitlist.go:321).
THEOREM OnePersonAsked == Spec => []OneTurn
<1>1. TypeOK /\ InLine /\ [Next]_vars => (TypeOK /\ InLine)'
  BY NextTyped, NextInLine
<1> QED BY InitTyped, InitInLine, InLineOneTurn, <1>1, PTL DEF Spec

-----------------------------------------------------------------------------
(* Whoever holds a turn was told, or is about to be.                        *)

Announcing(p) == call[p].pc \in {"announce", "unannounce"}

\* What a step leaves alone: the announcements under way, and who was told of a turn.
CallsKept == \A q \in Calls : Announcing(q) => call'[q] = call[q]
TurnsKept == \A i \in Entries' : HasTurn(i)' => i \in Entries /\ HasTurn(i)
                                               /\ queue'[i].told = queue[i].told

LEMMA HeardKept ==
    ASSUME TurnsAreHeardOf, CallsKept, TurnsKept, excuse \subseteq excuse'
    PROVE  TurnsAreHeardOf'
BY DEF TurnsAreHeardOf, CallsKept, TurnsKept, Announcing

LEMMA KeptWithout ==
    ASSUME QueueOK, NEW S, queue' = Without(S)
    PROVE  TurnsKept
<1>1. /\ Entries' = Entries \ S
      /\ \A j \in Ids : j \notin S => queue'[j].turn = queue[j].turn /\ queue'[j].told = queue[j].told
  BY WithoutIs
<1>2. Entries \subseteq Ids
  BY DEF Entries
<1> QED BY <1>1, <1>2 DEF TurnsKept, HasTurn

LEMMA KeptSame ==
    ASSUME queue' = queue
    PROVE  TurnsKept
BY DEF TurnsKept, HasTurn, Entries

LEMMA KeptMarked ==
    ASSUME QueueOK, NEW i \in Entries, NEW t \in Turn, NEW b \in BOOLEAN, queue' = Marked(i, t, b),
           t = "none" \/ (HasTurn(i) /\ b = queue[i].told)
    PROVE  TurnsKept
<1>1. /\ Entries' = Entries
      /\ \A j \in Ids : j # i => queue'[j] = queue[j]
      /\ queue'[i].turn = t /\ queue'[i].told = b
  BY MarkedIs
<1>2. Entries \subseteq Ids
  BY DEF Entries
<1> QED BY <1>1, <1>2 DEF TurnsKept, HasTurn

LEMMA KeptNewcomer ==
    ASSUME QueueOK, NEW u \in Users, EntriesOf(u) = {}, NEW i \in FreshIds,
           queue' = [queue EXCEPT ![i] = Newcomer(u)]
    PROVE  TurnsKept
<1>1. /\ Entries' = Entries \cup {i} /\ queue'[i] = Newcomer(u)
      /\ \A j \in Ids : j # i => queue'[j] = queue[j]
  BY NewcomerIs
<1>2. Entries \subseteq Ids /\ Newcomer(u).turn = "none"
  BY DEF Entries, Newcomer
<1> QED BY <1>1, <1>2 DEF TurnsKept, HasTurn

\* A call that is not announcing goes on.
LEMMA KeptCall ==
    ASSUME CallsOK, NEW p \in Calls, ~Announcing(p), \A q \in Calls : q # p => call'[q] = call[q]
    PROVE  CallsKept
BY DEF CallsKept

LEMMA CallHeard ==
    ASSUME TypeOK, TurnsAreHeardOf, NEW p \in Calls, CallStep(p)
    PROVE  TurnsAreHeardOf'
<1>0. QueueOK /\ CallsOK /\ RestOK
  BY TypeParts
<1>1. excuse \subseteq excuse'
  BY DEF CallStep, Join, Reserve, CreateReservation, ForgetInterest, Remove, Cancel, Revoke, Load,
         AdminAdvance, SkipFirst, notifyNext, announceAvailable, TakeBack, outer
<1>2. \A q \in Calls : q # p => call'[q] = call[q]
  BY <1>0 DEF CallStep, Join, Reserve, CreateReservation, ForgetInterest, Remove, Cancel, Revoke,
         Load, AdminAdvance, SkipFirst, notifyNext, announceAvailable, TakeBack, Goes, Ends, CallsOK
<1>3. CASE Join(p)
  <2>1. CallsKept
    BY <1>0, <1>2, <1>3, KeptCall DEF Join, At, Announcing
  <2>2. TurnsKept
    <3>1. CASE UNCHANGED queue
      BY <3>1, KeptSame
    <3>2. CASE /\ EntriesOf(call[p].who) = {}
               /\ \E i \in FreshIds : queue' = [queue EXCEPT ![i] = Newcomer(call[p].who)]
      <4>1. call[p].who \in Users
        BY <1>0, <1>3 DEF Join, At, CallsOK, UserRequest
      <4> QED BY <1>0, <3>2, <4>1, KeptNewcomer
    <3> QED BY <1>3, <3>1, <3>2 DEF Join
  <2> QED BY <1>1, <2>1, <2>2, HeardKept
<1>4. CASE Reserve(p) \/ ForgetInterest(p) \/ Remove(p) \/ SkipFirst(p)
  <2>1. CallsKept
    BY <1>0, <1>2, <1>4, KeptCall DEF Reserve, ForgetInterest, Remove, SkipFirst, At, Announcing
  <2>2. UNCHANGED queue \/ \E S : queue' = Without(S)
    BY <1>4 DEF Reserve, ForgetInterest, Remove, SkipFirst
  <2>3. TurnsKept
    BY <1>0, <2>2, KeptSame, KeptWithout
  <2> QED BY <1>1, <2>1, <2>3, HeardKept
<1>5. CASE CreateReservation(p) \/ Cancel(p) \/ Revoke(p) \/ Load(p) \/ AdminAdvance(p)
  <2>1. CallsKept
    BY <1>0, <1>2, <1>5, KeptCall
    DEF CreateReservation, Cancel, Revoke, Load, AdminAdvance, At, Announcing
  <2>2. TurnsKept
    BY <1>5, KeptSame DEF CreateReservation, Cancel, Revoke, Load, AdminAdvance, list
  <2> QED BY <1>1, <2>1, <2>2, HeardKept
<1>6. CASE notifyNext(p)
  <2>1. CallsKept
    BY <1>0, <1>2, <1>6, KeptCall DEF notifyNext, At, Announcing
  <2>2. CASE UNCHANGED queue
    BY <1>1, <2>1, <2>2, KeptSame, HeardKept
  <2>3. CASE ~UNCHANGED queue
    <3>1. PICK i \in First(Candidates) :
                /\ queue' = Marked(i, "running", FALSE)
                /\ call' = [call EXCEPT ![p] =
                       [Idle EXCEPT !.pc = "announce", !.entry = i, !.todo = call[p].todo]]
      BY <1>6, <2>3 DEF notifyNext, FirstInLine
    <3>2. i \in Entries
      BY DEF First, Candidates
    <3>3. Entries' = Entries /\ \A j \in Ids : j # i => queue'[j] = queue[j]
      BY <1>0, <3>1, <3>2, MarkedIs DEF Turn
    <3>4. call'[p] = [Idle EXCEPT !.pc = "announce", !.entry = i, !.todo = call[p].todo]
      BY <1>0, <3>1 DEF CallsOK
    <3>5. call'[p].pc = "announce" /\ call'[p].entry = i
      BY <3>4 DEF Idle
    <3>6. \A j \in Entries' : j # i => queue'[j] = queue[j]
      BY <3>3 DEF Entries
    <3> QED BY <1>1, <2>1, <3>3, <3>5, <3>6 DEF TurnsAreHeardOf, HasTurn, CallsKept, Announcing
  <2> QED BY <2>2, <2>3
<1>7. CASE announceAvailable(p)
  <2>0. PICK i : i = call[p].entry
    OBVIOUS
  <2>1. CASE i \in Entries
    <3>1. queue' = Marked(i, queue[i].turn, HasTurn(i))
      BY <1>7, <2>0, <2>1 DEF announceAvailable
    <3>2. queue[i].turn \in Turn /\ HasTurn(i) \in BOOLEAN
      BY <1>0, <2>1 DEF QueueOK, Entries, Entry, HasTurn
    <3>3. /\ Entries' = Entries /\ \A j \in Ids : j # i => queue'[j] = queue[j]
          /\ queue'[i].turn = queue[i].turn /\ queue'[i].told = HasTurn(i)
      BY <1>0, <2>1, <3>1, <3>2, MarkedIs
    <3>4. \A j \in Entries' : j # i => queue'[j] = queue[j]
      BY <3>3 DEF Entries
    <3>5. \A q \in Calls : Announcing(q) /\ call[q].entry # i => call'[q] = call[q]
      BY <1>2, <2>0
    <3>6. HasTurn(i)' => queue'[i].told
      BY <3>3 DEF HasTurn
    <3>7. ASSUME NEW j \in Entries, j # i, HasTurn(j)', "stopped" \notin excuse'
          PROVE  queue'[j].told \/ \E q \in Calls : Announcing(q)' /\ call'[q].entry = j
      <4>1. queue[j].told \/ \E q \in Calls : Announcing(q) /\ call[q].entry = j
        BY <1>1, <3>3, <3>4, <3>7 DEF TurnsAreHeardOf, HasTurn, Announcing
      <4> QED BY <3>3, <3>4, <3>5, <3>7, <4>1 DEF Announcing
    <3> QED BY <3>3, <3>6, <3>7 DEF TurnsAreHeardOf, Announcing
  <2>2. CASE i \notin Entries
    <3>1. queue' = queue
      BY <1>7, <2>0, <2>2 DEF announceAvailable
    <3>2. \A q \in Calls : Announcing(q) /\ call[q].entry \in Entries => call'[q] = call[q]
      BY <1>2, <2>0, <2>2
    <3> QED BY <1>1, <3>1, <3>2 DEF TurnsAreHeardOf, HasTurn, Entries, Announcing
  <2> QED BY <2>1, <2>2
<1>8. CASE TakeBack(p)
  <2>0. PICK i : i = call[p].entry
    OBVIOUS
  <2>1. CASE i \in Entries
    <3>1. queue' = Marked(i, "none", FALSE)
      BY <1>8, <2>0, <2>1 DEF TakeBack
    <3>2. /\ Entries' = Entries /\ \A j \in Ids : j # i => queue'[j] = queue[j]
          /\ queue'[i].turn = "none"
      BY <1>0, <2>1, <3>1, MarkedIs DEF Turn
    <3>3. \A j \in Entries' : j # i => queue'[j] = queue[j]
      BY <3>2 DEF Entries
    <3>4. \A q \in Calls : Announcing(q) /\ call[q].entry # i => call'[q] = call[q]
      BY <1>2, <2>0
    <3>5. ASSUME NEW j \in Entries, j # i, HasTurn(j)', "stopped" \notin excuse'
          PROVE  queue'[j].told \/ \E q \in Calls : Announcing(q)' /\ call'[q].entry = j
      <4>1. queue[j].told \/ \E q \in Calls : Announcing(q) /\ call[q].entry = j
        BY <1>1, <3>2, <3>3, <3>5 DEF TurnsAreHeardOf, HasTurn, Announcing
      <4> QED BY <3>2, <3>3, <3>4, <3>5, <4>1 DEF Announcing
    <3>6. ~HasTurn(i)'
      BY <3>2 DEF HasTurn
    <3> QED BY <3>2, <3>5, <3>6 DEF TurnsAreHeardOf, Announcing
  <2>2. CASE i \notin Entries
    <3>1. queue' = queue
      BY <1>8, <2>0, <2>2 DEF TakeBack
    <3>2. \A q \in Calls : Announcing(q) /\ call[q].entry \in Entries => call'[q] = call[q]
      BY <1>2, <2>0, <2>2
    <3> QED BY <1>1, <3>1, <3>2 DEF TurnsAreHeardOf, HasTurn, Entries, Announcing
  <2> QED BY <2>1, <2>2
<1> QED BY <1>3, <1>4, <1>5, <1>6, <1>7, <1>8 DEF CallStep

LEMMA NextHeard == TypeOK /\ TurnsAreHeardOf /\ [Next]_vars => TurnsAreHeardOf'
<1> SUFFICES ASSUME TypeOK, TurnsAreHeardOf, [Next]_vars PROVE TurnsAreHeardOf'
  OBVIOUS
<1>0. QueueOK /\ CallsOK /\ RestOK
  BY TypeParts
<1>1. ASSUME NEW p \in Requests, NewRequest(p) PROVE TurnsAreHeardOf'
  <2>0. p \in Calls /\ excuse \subseteq excuse'
    BY <1>1 DEF Calls, NewRequest, Begin, EndReservation, AdminRemove, outer
  <2>1. CallsKept
    BY <1>0, <1>1 DEF NewRequest, Begin, EndReservation, AdminRemove, At, Goes, CallsKept,
                      Announcing, CallsOK
  <2>2. TurnsKept
    <3>1. UNCHANGED queue \/ \E S : queue' = Without(S)
      BY <1>1 DEF NewRequest, Begin, EndReservation, AdminRemove, list
    <3> QED BY <1>0, <3>1, KeptSame, KeptWithout
  <2> QED BY <2>0, <2>1, <2>2, HeardKept
<1>2. ASSUME NEW p \in Schedulers, SchedulerStep(p), ~CallStep(p) PROVE TurnsAreHeardOf'
  <2>0. /\ p \in Calls
        /\ Tick(p) \/ ExpireWaitlistTurns(p) \/ expireTurn(p) \/ \E i \in call[p].todo : LoadTurn(p, i)
    BY <1>2 DEF Calls, SchedulerStep
  <2>1. excuse \subseteq excuse'
    BY <2>0 DEF Tick, ExpireWaitlistTurns, LoadTurn, expireTurn, outer
  <2>2. CallsKept
    BY <1>0, <2>0 DEF Tick, ExpireWaitlistTurns, LoadTurn, expireTurn, At, Goes, Ends, CallsKept,
                      Announcing, CallsOK
  <2>3. TurnsKept
    <3>1. \/ UNCHANGED queue \/ \E S : queue' = Without(S)
          \/ Held(p) /\ queue' = Marked(call[p].entry, "none", FALSE)
      BY <2>0 DEF Tick, ExpireWaitlistTurns, LoadTurn, expireTurn, list
    <3>2. CASE Held(p) /\ queue' = Marked(call[p].entry, "none", FALSE)
      BY <1>0, <3>2, KeptMarked DEF Held, Turn
    <3> QED BY <1>0, <3>1, <3>2, KeptSame, KeptWithout
  <2> QED BY <2>1, <2>2, <2>3, HeardKept
<1>3. ASSUME NEW p \in Calls, Stops(p) PROVE TurnsAreHeardOf'
  BY <1>0, <1>3, TroubleIs DEF Stops, TurnsAreHeardOf
<1>4. ASSUME NEW p \in Calls, AnnounceFails(p) PROVE TurnsAreHeardOf'
  <2>1. queue' = queue /\ excuse \subseteq excuse'
    BY <1>0, <1>4, TroubleIs DEF AnnounceFails, list
  <2>2. call' = [call EXCEPT ![p] = [call[p] EXCEPT !.pc = "unannounce"]] /\ call[p] \in Call
    BY <1>0, <1>4 DEF AnnounceFails, CallsOK
  <2>3. call'[p].pc = "unannounce" /\ call'[p].entry = call[p].entry
    BY <1>0, <2>2 DEF CallsOK, Call
  <2>4. \A q \in Calls : q # p => call'[q] = call[q]
    BY <1>0, <2>2 DEF CallsOK
  <2>5. \A q \in Calls : Announcing(q) => Announcing(q)' /\ call'[q].entry = call[q].entry
    BY <2>3, <2>4 DEF Announcing
  <2> QED BY <2>1, <2>5 DEF TurnsAreHeardOf, HasTurn, Entries, Announcing
<1>5. CASE Environment
  <2>1. excuse \subseteq excuse' /\ CallsKept
    BY <1>0, <1>5, TroubleIs DEF Environment, SlotStarts, SetStatus, ReachChanges, DeleteAccount,
       TurnRunsOut, outer, CallsKept
  <2>2. TurnsKept
    <3>1. CASE UNCHANGED queue \/ \E S : queue' = Without(S)
      BY <1>0, <3>1, KeptSame, KeptWithout
    <3>2. ASSUME NEW i \in Entries, TurnRunsOut(i) PROVE TurnsKept
      <4>1. queue[i].told \in BOOLEAN /\ "over" \in Turn /\ HasTurn(i)
        BY <1>0, <3>2 DEF QueueOK, Entries, Entry, TurnRunsOut, Turn, HasTurn
      <4> QED BY <1>0, <3>2, <4>1, KeptMarked DEF TurnRunsOut
    <3> QED BY <1>5, <3>1, <3>2
            DEF Environment, SlotStarts, SetStatus, ReachChanges, DeleteAccount, list
  <2> QED BY <2>1, <2>2, HeardKept
<1>6. CASE UNCHANGED vars
  BY <1>6, KeptSame, HeardKept DEF vars, CallsKept
<1>7. ASSUME NEW p \in Calls, CallStep(p) PROVE TurnsAreHeardOf'
  BY <1>7, CallHeard
<1>8. Requests \subseteq Calls /\ Schedulers \subseteq Calls
  BY DEF Calls
<1> QED BY <1>1, <1>2, <1>3, <1>4, <1>5, <1>6, <1>7, <1>8 DEF Next

\* Nobody holds the baton unheard: the push is queued, about to be, or the baton about
\* to be taken back, unless a process died in between (waitlist.go:391).
THEOREM TurnsAnnounced == Spec => []TurnsAreHeardOf
<1>1. Init => TypeOK /\ TurnsAreHeardOf
  BY InitTyped DEF Init, TurnsAreHeardOf, Entries, NoEntry
<1>2. TypeOK /\ TurnsAreHeardOf /\ [Next]_vars => (TypeOK /\ TurnsAreHeardOf)'
  BY NextTyped, NextHeard
<1> QED BY <1>1, <1>2, PTL DEF Spec

LEMMA RunningStep ==
    ASSUME TypeOK, [Next]_vars, NEW p \in Schedulers, At(p, "expire"), NEW i \in Entries,
           i = call[p].entry, queue[i].turn = "running", queue'[i].turn # "running"
    PROVE  call'[p] = call[p]
<1>0. CallsOK /\ p \in Calls
  BY TypeParts DEF Calls
<1>1. ASSUME NEW q \in Calls, q # p, \/ CallStep(q) \/ NewRequest(q) \/ SchedulerStep(q)
                                     \/ Stops(q) \/ AnnounceFails(q)
      PROVE  call'[p] = call[p]
  <2>1. CASE CallStep(q)
    BY <1>0, <1>1, <2>1 DEF CallStep, Join, Reserve, CreateReservation, ForgetInterest, Remove,
       Cancel, Revoke, Load, AdminAdvance, SkipFirst, notifyNext, announceAvailable, TakeBack,
       Goes, Ends, CallsOK
  <2>2. CASE NewRequest(q)
    BY <1>0, <1>1, <2>2 DEF NewRequest, Begin, EndReservation, AdminRemove, Goes, CallsOK
  <2>3. CASE Tick(q) \/ ExpireWaitlistTurns(q) \/ (\E j \in call[q].todo : LoadTurn(q, j)) \/ expireTurn(q)
    BY <1>0, <1>1, <2>3 DEF Tick, ExpireWaitlistTurns, LoadTurn, expireTurn, Goes, Ends, CallsOK
  <2>4. CASE Stops(q) \/ AnnounceFails(q)
    BY <1>0, <1>1, <2>4 DEF Stops, AnnounceFails, CallsOK
  <2> QED BY <1>1, <2>1, <2>2, <2>3, <2>4 DEF SchedulerStep
<1>2. ~CallStep(p) /\ ~NewRequest(p)
  BY DEF CallStep, Join, Reserve, CreateReservation, ForgetInterest, Remove, Cancel, Revoke,
     Load, AdminAdvance, SkipFirst, notifyNext, announceAvailable, TakeBack, NewRequest, Begin,
     EndReservation, AdminRemove, At
<1>3. ~SchedulerStep(p)
  BY <1>2 DEF SchedulerStep, Tick, ExpireWaitlistTurns, LoadTurn, expireTurn, Held, At
<1>4. ~Stops(p) /\ ~AnnounceFails(p)
  BY DEF Stops, AnnounceFails, At, list
<1>5. CASE Environment
  BY <1>5 DEF Environment, SlotStarts, SetStatus, ReachChanges, DeleteAccount, TurnRunsOut
<1>6. CASE UNCHANGED vars
  BY <1>6 DEF vars
<1> QED BY <1>0, <1>1, <1>2, <1>3, <1>4, <1>5, <1>6 DEF Next, Calls

\* A scheduler that listed a turn as over looks again under the lock, and leaves it when
\* it runs again (waitlist_turns.go:100).
THEOREM RunningTurnsStay == Spec => RunningTurnsAreKept
<1>1. TypeOK /\ [Next]_vars =>
          [\A p \in Schedulers : At(p, "expire") =>
              \A i \in Entries : i = call[p].entry /\ queue[i].turn = "running"
                                 /\ queue'[i].turn # "running" => call'[p] = call[p]]_vars
  BY RunningStep
<1> QED BY InitTyped, NextTyped, <1>1, PTL DEF Spec, RunningTurnsAreKept

-----------------------------------------------------------------------------
(* The baton is not lost.  As long as nothing went wrong the item is active *)
(* and whoever hands the baton over has read it so.                         *)

HandsOver == UserRequest \cup AdminRequest \cup {"skip", "notify", "expire"}
OpenOK == excuse = {} =>
    active /\ \A p \in Calls : call[p].pc # "unannounce" /\ (call[p].pc \in HandsOver => call[p].open)

\* A step of one call keeps it if this call has read the item, or needs not.
LEMMA OpenKept ==
    ASSUME OpenOK, excuse \subseteq excuse', active' = active, NEW p \in Calls,
           \A q \in Calls : q # p => call'[q] = call[q],
           excuse = {} => /\ call'[p].pc # "unannounce"
                          /\ call'[p].pc \in HandsOver => call'[p].open
    PROVE  OpenOK'
<1> SUFFICES ASSUME excuse' = {}
             PROVE  active' /\ \A q \in Calls : /\ call'[q].pc # "unannounce"
                                                /\ call'[q].pc \in HandsOver => call'[q].open
  BY DEF OpenOK, HandsOver, UserRequest, AdminRequest
<1>1. excuse = {}
  OBVIOUS
<1> QED BY <1>1 DEF OpenOK

LEMMA OpenGoes ==
    ASSUME CallsOK, OpenOK, excuse \subseteq excuse', active' = active, NEW p \in Calls,
           NEW pc \in {"notify", "skip", "load", "due"}, Goes(p, pc),
           pc \in {"notify", "skip"} => call[p].pc \in HandsOver
    PROVE  OpenOK'
<1>1. pc \in Pc \ (UserRequest \cup {"forget"})
  BY DEF Pc, UserRequest
<1>2. /\ call'[p].pc = pc /\ call'[p].open = call[p].open
      /\ \A q \in Calls : q # p => call'[q] = call[q]
  BY <1>1, GoesIs
<1>3. pc \in HandsOver => pc \in {"notify", "skip"}
  BY DEF HandsOver, UserRequest, AdminRequest
<1>4. excuse = {} => /\ call'[p].pc # "unannounce"
                     /\ call'[p].pc \in HandsOver => call'[p].open
  BY <1>2, <1>3 DEF OpenOK
<1> QED BY <1>2, <1>4, OpenKept

LEMMA OpenEnds ==
    ASSUME CallsOK, OpenOK, excuse \subseteq excuse', active' = active, NEW p \in Calls, Ends(p)
    PROVE  OpenOK'
<1>1. call'[p].pc \in {"idle", "next"} /\ \A q \in Calls : q # p => call'[q] = call[q]
  BY EndsIs
<1>2. call'[p].pc \notin HandsOver /\ call'[p].pc # "unannounce"
  BY <1>1 DEF HandsOver, UserRequest, AdminRequest
<1> QED BY <1>1, <1>2, OpenKept

\* The other ways set the call to a value of its own.
LEMMA OpenSet ==
    ASSUME CallsOK, OpenOK, excuse \subseteq excuse', active' = active, NEW p \in Calls, NEW c,
           call' = [call EXCEPT ![p] = c],
           excuse = {} => c.pc # "unannounce" /\ (c.pc \in HandsOver => c.open)
    PROVE  OpenOK'
<1>1. call'[p] = c /\ \A q \in Calls : q # p => call'[q] = call[q]
  BY DEF CallsOK
<1> QED BY <1>1, OpenKept

LEMMA CallOpen ==
    ASSUME TypeOK, OpenOK, NEW p \in Calls, CallStep(p)
    PROVE  OpenOK'
<1>0. CallsOK /\ call[p] \in Call
  BY TypeParts DEF CallsOK
<1>1. excuse \subseteq excuse' /\ active' = active
  BY DEF CallStep, Join, Reserve, CreateReservation, ForgetInterest, Remove, Cancel, Revoke, Load,
         AdminAdvance, SkipFirst, notifyNext, announceAvailable, TakeBack, outer, item, list
<1>2. CASE Ends(p)
  BY <1>0, <1>1, <1>2, OpenEnds
<1>3. CASE Goes(p, "notify") /\ (Remove(p) \/ Cancel(p) \/ Revoke(p) \/ SkipFirst(p))
  <2>1. call[p].pc \in HandsOver
    BY <1>3 DEF Remove, Cancel, Revoke, SkipFirst, At, HandsOver, UserRequest, AdminRequest
  <2> QED BY <1>0, <1>1, <1>3, <2>1, OpenGoes
<1>4. CASE Goes(p, "skip") /\ AdminAdvance(p)
  <2>1. call[p].pc \in HandsOver
    BY <1>4 DEF AdminAdvance, At, HandsOver, AdminRequest
  <2> QED BY <1>0, <1>1, <1>4, <2>1, OpenGoes
<1>5. CASE CreateReservation(p) /\ call' = [call EXCEPT ![p].pc = "forget"]
  <2>1. call' = [call EXCEPT ![p] = [call[p] EXCEPT !.pc = "forget"]]
    BY <1>5
  <2>2. [call[p] EXCEPT !.pc = "forget"].pc = "forget"
    BY <1>0 DEF Call
  <2>3. "forget" \notin HandsOver
    BY DEF HandsOver, UserRequest, AdminRequest
  <2> QED BY <1>0, <1>1, <2>1, <2>2, <2>3, OpenSet
<1>6. CASE Load(p)
  <2> DEFINE c == [call[p] EXCEPT !.pc = "notify", !.open = active]
  <2>1. call' = [call EXCEPT ![p] = c]
    BY <1>6 DEF Load
  <2>2. c.pc = "notify" /\ c.open = active
    BY <1>0 DEF Call
  <2> HIDE DEF c
  <2>3. excuse = {} => c.pc # "unannounce" /\ (c.pc \in HandsOver => c.open)
    BY <2>2 DEF OpenOK
  <2> QED BY <1>0, <1>1, <2>1, <2>3, OpenSet
<1>7. CASE notifyNext(p) /\ ~Ends(p)
  <2>1. PICK i : call' = [call EXCEPT ![p] =
                     [Idle EXCEPT !.pc = "announce", !.entry = i, !.todo = call[p].todo]]
    BY <1>7 DEF notifyNext
  <2> DEFINE c == [Idle EXCEPT !.pc = "announce", !.entry = i, !.todo = call[p].todo]
  <2>2. c.pc = "announce"
    BY DEF Idle
  <2>3. call' = [call EXCEPT ![p] = c]
    BY <2>1
  <2> HIDE DEF c
  <2>4. "announce" \notin HandsOver
    BY DEF HandsOver, UserRequest, AdminRequest
  <2> QED BY <1>0, <1>1, <2>2, <2>3, <2>4, OpenSet
<1> QED BY <1>2, <1>3, <1>4, <1>5, <1>6, <1>7
        DEF CallStep, Join, Reserve, CreateReservation, ForgetInterest, Remove, Cancel, Revoke,
            AdminAdvance, SkipFirst, notifyNext, announceAvailable, TakeBack

LEMMA NextOpen == TypeOK /\ OpenOK /\ [Next]_vars => OpenOK'
<1> SUFFICES ASSUME TypeOK, OpenOK, [Next]_vars PROVE OpenOK'
  OBVIOUS
<1>0. CallsOK /\ RestOK
  BY TypeParts
<1>1. ASSUME NEW p \in Requests, NewRequest(p) PROVE OpenOK'
  <2>0. p \in Calls /\ excuse \subseteq excuse' /\ active' = active
    BY <1>1 DEF Calls, NewRequest, Begin, EndReservation, AdminRemove, outer, item
  <2>1. ASSUME NEW op, NEW u, Begin(p, op, u), op # "unannounce" PROVE OpenOK'
    <3> DEFINE c == [Idle EXCEPT !.pc = op, !.who = u, !.open = active]
    <3>1. c.pc = op /\ c.open = active
      BY DEF Idle
    <3>2. call' = [call EXCEPT ![p] = c]
      BY <2>1 DEF Begin
    <3> HIDE DEF c
    <3>3. excuse = {} => c.pc # "unannounce" /\ (c.pc \in HandsOver => c.open)
      BY <2>1, <3>1 DEF OpenOK
    <3> QED BY <1>0, <2>0, <3>2, <3>3, OpenSet
  <2>2. CASE Goes(p, "load")
    BY <1>0, <2>0, <2>2, OpenGoes
  <2>3. CASE UNCHANGED call
    BY <2>0, <2>3 DEF OpenOK
  <2> QED BY <1>1, <2>1, <2>2, <2>3
          DEF NewRequest, EndReservation, AdminRemove, UserRequest, AdminRequest
<1>2. ASSUME NEW p \in Schedulers, SchedulerStep(p), ~CallStep(p) PROVE OpenOK'
  <2>0. /\ p \in Calls
        /\ Tick(p) \/ ExpireWaitlistTurns(p) \/ expireTurn(p) \/ \E i \in call[p].todo : LoadTurn(p, i)
    BY <1>2 DEF Calls, SchedulerStep
  <2>1. excuse \subseteq excuse' /\ active' = active
    BY <2>0 DEF Tick, ExpireWaitlistTurns, LoadTurn, expireTurn, outer, item
  <2>2. CASE Tick(p)
    BY <1>0, <2>0, <2>1, <2>2, OpenGoes DEF Tick
  <2>3. CASE ExpireWaitlistTurns(p)
    <3>1. PICK ids : call' = [call EXCEPT ![p] =
                         IF ids = {} THEN Idle ELSE [Idle EXCEPT !.pc = "next", !.todo = ids]]
      BY <2>3 DEF ExpireWaitlistTurns
    <3> DEFINE c == IF ids = {} THEN Idle ELSE [Idle EXCEPT !.pc = "next", !.todo = ids]
    <3>2. c.pc \in {"idle", "next"}
      BY DEF Idle
    <3>3. call' = [call EXCEPT ![p] = c]
      BY <3>1
    <3> HIDE DEF c
    <3>4. c.pc \notin HandsOver /\ c.pc # "unannounce"
      BY <3>2 DEF HandsOver, UserRequest, AdminRequest
    <3> QED BY <1>0, <2>0, <2>1, <3>3, <3>4, OpenSet
  <2>4. ASSUME NEW i \in call[p].todo, LoadTurn(p, i) PROVE OpenOK'
    <3> DEFINE rest == call[p].todo \ {i}
               c == IF i \in Entries
                    THEN [Idle EXCEPT !.pc = "expire", !.open = active, !.entry = i, !.todo = rest]
                    ELSE IF rest = {} THEN Idle ELSE [Idle EXCEPT !.pc = "next", !.todo = rest]
    <3>1. call' = [call EXCEPT ![p] = c]
      BY <2>4 DEF LoadTurn
    <3> HIDE DEF rest
    <3>2. c.pc \in {"idle", "next"} \/ (c.pc = "expire" /\ c.open = active)
      BY DEF Idle
    <3> HIDE DEF c
    <3>3. excuse = {} => c.pc # "unannounce" /\ (c.pc \in HandsOver => c.open)
      BY <3>2 DEF OpenOK, HandsOver, UserRequest, AdminRequest
    <3> QED BY <1>0, <2>0, <2>1, <3>1, <3>3, OpenSet
  <2>5. CASE expireTurn(p)
    <3>1. CASE Ends(p)
      BY <1>0, <2>0, <2>1, <3>1, OpenEnds
    <3>2. CASE Goes(p, "notify")
      <4>1. call[p].pc \in HandsOver
        BY <2>5 DEF expireTurn, At, HandsOver
      <4> QED BY <1>0, <2>0, <2>1, <3>2, <4>1, OpenGoes
    <3> QED BY <2>5, <3>1, <3>2 DEF expireTurn
  <2> QED BY <2>0, <2>2, <2>3, <2>4, <2>5
<1>3. ASSUME NEW p \in Calls, Stops(p) \/ AnnounceFails(p) PROVE OpenOK'
  <2>1. excuse' # {}
    BY <1>0, <1>3, TroubleIs DEF Stops, AnnounceFails
  <2> QED BY <2>1 DEF OpenOK
<1>4. CASE Environment
  <2>1. excuse' # {} \/ (UNCHANGED << active, call, excuse >>)
    BY <1>0, <1>4, TroubleIs DEF Environment, SlotStarts, SetStatus, ReachChanges, DeleteAccount,
       TurnRunsOut, item, outer
  <2> QED BY <2>1 DEF OpenOK
<1>5. CASE UNCHANGED vars
  BY <1>5 DEF vars, OpenOK
<1>6. ASSUME NEW p \in Calls, CallStep(p) PROVE OpenOK'
  BY <1>6, CallOpen
<1>7. Requests \subseteq Calls /\ Schedulers \subseteq Calls
  BY DEF Calls
<1> QED BY <1>1, <1>2, <1>3, <1>4, <1>5, <1>6, <1>7 DEF Next

\* What keeps the baton: the resource is not on offer to more people than before,
\* and turns and hand-overs under way stay.
Waits(q) == call[q].pc \in {"load", "notify"}
OfferKept == isFree' /\ active' /\ ~past' => isFree /\ active /\ ~past
WaitsKept == \A q \in Calls : Waits(q) => call'[q] = call[q]
HoldersKept == \A i \in Entries : HasTurn(i) => i \in Entries' /\ HasTurn(i)'
QueueKept == Candidates' # {} => Candidates # {}

LEMMA BatonKept ==
    ASSUME NobodyForgotten, excuse \subseteq excuse', OfferKept, WaitsKept, HoldersKept, QueueKept
    PROVE  NobodyForgotten'
<1> SUFFICES ASSUME isFree', active', ~past', Candidates' # {}, excuse' = {}
             PROVE  (\E i \in Entries' : HasTurn(i)') \/ \E q \in Calls : Waits(q)'
  BY DEF NobodyForgotten, Waits
<1>1. (\E i \in Entries : HasTurn(i)) \/ \E q \in Calls : Waits(q)
  BY DEF NobodyForgotten, Waits, OfferKept, QueueKept
<1> QED BY <1>1 DEF WaitsKept, HoldersKept, Waits

LEMMA BatonOnItsWay ==
    ASSUME NEW q \in Calls, call'[q].pc \in {"load", "notify"}
    PROVE  NobodyForgotten'
BY DEF NobodyForgotten

LEMMA SameQueue ==
    ASSUME queue' = queue, reach' = reach
    PROVE  HoldersKept /\ QueueKept
BY DEF HoldersKept, QueueKept, HasTurn, Entries, Candidates

\* A DELETE of entries that hold no turn.
LEMMA WithoutTurns ==
    ASSUME QueueOK, NEW S, queue' = Without(S), reach' = reach, \A i \in S \cap Entries : ~HasTurn(i)
    PROVE  HoldersKept /\ QueueKept
<1>1. /\ Entries' = Entries \ S
      /\ \A j \in Ids : j \notin S => queue'[j].user = queue[j].user /\ queue'[j].turn = queue[j].turn
  BY WithoutIs
<1>2. Entries \subseteq Ids
  BY DEF Entries
<1> QED BY <1>1, <1>2 DEF HoldersKept, QueueKept, HasTurn, Candidates

\* An UPDATE that does not take a turn away.
LEMMA MarkedTurns ==
    ASSUME QueueOK, NEW i \in Entries, NEW t \in Turn, NEW b \in BOOLEAN, queue' = Marked(i, t, b),
           reach' = reach, t # "none" \/ ~HasTurn(i)
    PROVE  HoldersKept /\ QueueKept
<1>1. /\ Entries' = Entries
      /\ \A j \in Ids : queue'[j].user = queue[j].user
      /\ \A j \in Ids : j # i => queue'[j] = queue[j]
      /\ queue'[i].turn = t
  BY MarkedIs
<1>2. Entries \subseteq Ids
  BY DEF Entries
<1> QED BY <1>1, <1>2 DEF HoldersKept, QueueKept, HasTurn, Candidates

\* Another call's announcement or hand-over is not in its way.
LEMMA OthersWait ==
    ASSUME NEW p \in Calls, ~Waits(p), \A q \in Calls : q # p => call'[q] = call[q]
    PROVE  WaitsKept
BY DEF WaitsKept

LEMMA CallNotForgotten ==
    ASSUME TypeOK, OpenOK, NobodyForgotten, NEW p \in Calls, CallStep(p)
    PROVE  NobodyForgotten'
<1>0. QueueOK /\ CallsOK /\ call[p] \in Call
  BY TypeParts DEF CallsOK
<1>1. excuse \subseteq excuse' /\ reach' = reach /\ active' = active /\ past' = past
  BY DEF CallStep, Join, Reserve, CreateReservation, ForgetInterest, Remove, Cancel, Revoke, Load,
         AdminAdvance, SkipFirst, notifyNext, announceAvailable, TakeBack, outer, item, list
<1>2. \A q \in Calls : q # p => call'[q] = call[q]
  BY <1>0 DEF CallStep, Join, Reserve, CreateReservation, ForgetInterest, Remove, Cancel, Revoke,
         Load, AdminAdvance, SkipFirst, notifyNext, announceAvailable, TakeBack, Goes, Ends, CallsOK
<1>3. ASSUME holders' = holders PROVE OfferKept
  BY <1>1, <1>3 DEF OfferKept, isFree
<1>4. CASE Goes(p, "notify")
  <2>1. call'[p].pc = "notify"
    BY <1>0, <1>4, GoesIs DEF Pc, UserRequest
  <2> QED BY <2>1, BatonOnItsWay
<1>5. CASE Join(p)
  <2>1. WaitsKept
    BY <1>2, <1>5, OthersWait DEF Join, At, Waits
  <2>2. CASE isFree
    <3>1. queue' = queue /\ holders' = holders
      BY <1>5, <2>2 DEF Join
    <3> QED BY <1>1, <1>3, <2>1, <3>1, SameQueue, BatonKept
  <2>3. CASE ~isFree
    BY <1>5, <2>3 DEF Join, isFree, NobodyForgotten
  <2> QED BY <2>2, <2>3
<1>6. CASE Reserve(p) \/ CreateReservation(p)
  <2>1. WaitsKept
    BY <1>2, <1>6, OthersWait DEF Reserve, CreateReservation, At, Waits
  <2>2. CASE queue' = queue /\ holders' = holders
    BY <1>1, <1>3, <2>1, <2>2, SameQueue, BatonKept
  <2>3. CASE holders' = holders \cup {call[p].who}
    BY <2>3 DEF NobodyForgotten, isFree
  <2> QED BY <1>6, <2>2, <2>3 DEF Reserve, CreateReservation
<1>7. CASE ForgetInterest(p)
  <2>1. WaitsKept
    BY <1>2, <1>7, OthersWait DEF ForgetInterest, At, Waits
  <2>2. CASE ~isFree \/ excuse' # {}
    BY <1>7, <2>2 DEF ForgetInterest, isFree, NobodyForgotten
  <2>3. CASE isFree /\ excuse' = {}
    <3>1. \A i \in EntriesOf(call[p].who) : ~HasTurn(i)
      BY <1>7, <2>3 DEF ForgetInterest
    <3>2. HoldersKept /\ QueueKept
      BY <1>0, <1>1, <1>7, <3>1, WithoutTurns DEF ForgetInterest
    <3>3. holders' = holders
      BY <1>7 DEF ForgetInterest
    <3> QED BY <1>1, <1>3, <2>1, <3>2, <3>3, BatonKept
  <2> QED BY <2>2, <2>3
<1>8. CASE Remove(p) /\ ~Goes(p, "notify")
  <2>1. WaitsKept
    BY <1>2, <1>8, OthersWait DEF Remove, At, Waits
  <2>2. HoldersKept /\ QueueKept
    BY <1>0, <1>1, <1>8, WithoutTurns DEF Remove
  <2>3. holders' = holders
    BY <1>8 DEF Remove
  <2> QED BY <1>1, <1>3, <2>1, <2>2, <2>3, BatonKept
<1>9. CASE (Cancel(p) \/ Revoke(p) \/ AdminAdvance(p)) /\ ~Goes(p, "notify")
  <2>1. WaitsKept
    BY <1>2, <1>9, OthersWait DEF Cancel, Revoke, AdminAdvance, At, Waits
  <2>2. queue' = queue /\ holders' = holders
    BY <1>9 DEF Cancel, Revoke, AdminAdvance, list
  <2> QED BY <1>1, <1>3, <2>1, <2>2, SameQueue, BatonKept
<1>10. CASE Load(p)
  <2>1. call' = [call EXCEPT ![p] = [call[p] EXCEPT !.pc = "notify", !.open = active]]
    BY <1>10 DEF Load
  <2>2. [call[p] EXCEPT !.pc = "notify", !.open = active].pc = "notify"
    BY <1>0 DEF Call
  <2>3. call'[p].pc = "notify"
    BY <1>0, <2>1, <2>2 DEF CallsOK
  <2> QED BY <2>3, BatonOnItsWay
<1>11. CASE notifyNext(p)
  <2>1. CASE Offered(p) /\ Candidates # {}
    <3>1. PICK i \in First(Candidates) : queue' = Marked(i, "running", FALSE)
      BY <1>11, <2>1 DEF notifyNext, FirstInLine
    <3>2. i \in Entries
      BY DEF First, Candidates
    <3>3. i \in Entries' /\ HasTurn(i)'
      BY <1>0, <3>1, <3>2, MarkedIs DEF Turn, HasTurn
    <3> QED BY <3>3 DEF NobodyForgotten
  <2>2. CASE ~(Offered(p) /\ Candidates # {})
    <3>1. queue' = queue /\ holders' = holders
      BY <1>11, <2>2 DEF notifyNext
    <3>2. excuse = {} => call[p].open
      BY <1>11 DEF OpenOK, notifyNext, At, HandsOver
    <3>3. Candidates' = Candidates
      BY <1>1, <3>1 DEF Candidates, Entries
    <3> QED BY <1>1, <2>2, <3>1, <3>2, <3>3 DEF NobodyForgotten, Offered, isFree
  <2> QED BY <2>1, <2>2
<1>12. CASE announceAvailable(p)
  <2>1. WaitsKept
    BY <1>2, <1>12, OthersWait DEF announceAvailable, At, Waits
  <2>2. holders' = holders
    BY <1>12 DEF announceAvailable
  <2>3. CASE queue' = queue
    BY <1>1, <1>3, <2>1, <2>2, <2>3, SameQueue, BatonKept
  <2>4. CASE queue' # queue
    <3>1. PICK i : i = call[p].entry
      OBVIOUS
    <3>2. i \in Entries /\ queue' = Marked(i, queue[i].turn, HasTurn(i))
      BY <1>12, <2>4, <3>1 DEF announceAvailable
    <3>3. queue[i].turn \in Turn /\ HasTurn(i) \in BOOLEAN
      BY <1>0, <3>2 DEF QueueOK, Entries, Entry, HasTurn
    <3>4. queue[i].turn # "none" \/ ~HasTurn(i)
      BY DEF HasTurn
    <3>5. HoldersKept /\ QueueKept
      BY <1>0, <1>1, <3>2, <3>3, <3>4, MarkedTurns
    <3> QED BY <1>1, <1>3, <2>1, <2>2, <3>5, BatonKept
  <2> QED BY <2>3, <2>4
<1>13. CASE TakeBack(p)
  <2>1. excuse' # {}
    BY <1>1, <1>13 DEF TakeBack, At, OpenOK
  <2> QED BY <2>1 DEF NobodyForgotten
<1>14. CASE SkipFirst(p)
  BY <1>4, <1>14 DEF SkipFirst
<1> QED BY <1>4, <1>5, <1>6, <1>7, <1>8, <1>9, <1>10, <1>11, <1>12, <1>13, <1>14 DEF CallStep

LEMMA NextNotForgotten ==
    TypeOK /\ OpenOK /\ NobodyForgotten /\ [Next]_vars => NobodyForgotten'
<1> SUFFICES ASSUME TypeOK, OpenOK, NobodyForgotten, [Next]_vars PROVE NobodyForgotten'
  OBVIOUS
<1>0. QueueOK /\ CallsOK /\ RestOK
  BY TypeParts
<1>1. ASSUME NEW p \in Requests, NewRequest(p) PROVE NobodyForgotten'
  <2>0. p \in Calls /\ excuse \subseteq excuse' /\ reach' = reach /\ active' = active /\ past' = past
    BY <1>1 DEF Calls, NewRequest, Begin, EndReservation, AdminRemove, outer, item
  <2>1. CASE Goes(p, "load")
    <3>1. call'[p].pc = "load"
      BY <1>0, <2>0, <2>1, GoesIs DEF Pc, UserRequest
    <3> QED BY <2>0, <3>1, BatonOnItsWay
  <2>2. WaitsKept
    BY <1>0, <1>1 DEF NewRequest, Begin, EndReservation, AdminRemove, At, Goes, WaitsKept, Waits,
                      CallsOK
  <2>3. CASE ~Goes(p, "load")
    <3>1. holders' = holders
      BY <1>1, <2>3 DEF NewRequest, Begin, EndReservation, AdminRemove, list
    <3>2. HoldersKept /\ QueueKept
      <4>1. CASE queue' = queue
        BY <2>0, <4>1, SameQueue
      <4>2. ASSUME NEW i \in Entries, AdminRemove(p, i) PROVE HoldersKept /\ QueueKept
        BY <1>0, <2>0, <2>3, <4>2, WithoutTurns DEF AdminRemove
      <4> QED BY <1>1, <2>3, <4>1, <4>2 DEF NewRequest, Begin, EndReservation, list
    <3>3. OfferKept
      BY <2>0, <3>1 DEF OfferKept, isFree
    <3> QED BY <2>0, <2>2, <3>2, <3>3, BatonKept
  <2> QED BY <2>1, <2>3
<1>2. ASSUME NEW p \in Schedulers, SchedulerStep(p), ~CallStep(p) PROVE NobodyForgotten'
  <2>0. /\ p \in Calls
        /\ Tick(p) \/ ExpireWaitlistTurns(p) \/ expireTurn(p) \/ \E i \in call[p].todo : LoadTurn(p, i)
    BY <1>2 DEF Calls, SchedulerStep
  <2>1. /\ excuse \subseteq excuse' /\ reach' = reach /\ active' = active /\ past' = past
        /\ holders' = holders
    BY <2>0 DEF Tick, ExpireWaitlistTurns, LoadTurn, expireTurn, outer, item, list
  <2>2. OfferKept
    BY <2>1 DEF OfferKept, isFree
  <2>3. WaitsKept
    BY <1>0, <2>0 DEF Tick, ExpireWaitlistTurns, LoadTurn, expireTurn, At, Goes, Ends, WaitsKept,
                      Waits, CallsOK
  <2>4. CASE queue' = queue
    BY <2>1, <2>2, <2>3, <2>4, SameQueue, BatonKept
  <2>5. CASE Tick(p) /\ queue' # queue
    BY <2>1, <2>5 DEF Tick, NobodyForgotten
  <2>6. CASE expireTurn(p) /\ queue' # queue
    <3>1. CASE Goes(p, "notify")
      <4>1. call'[p].pc = "notify"
        BY <1>0, <2>0, <3>1, GoesIs DEF Pc, UserRequest
      <4> QED BY <2>0, <4>1, BatonOnItsWay
    <3>2. CASE ~Offered(p)
      <4>1. excuse = {} => active /\ call[p].open
        BY <2>0, <2>6 DEF OpenOK, expireTurn, At, HandsOver
      <4> QED BY <2>1, <3>2, <4>1 DEF NobodyForgotten, Offered, isFree
    <3> QED BY <2>6, <3>1, <3>2 DEF expireTurn
  <2> QED BY <2>0, <2>4, <2>5, <2>6 DEF ExpireWaitlistTurns, LoadTurn, list
<1>3. ASSUME NEW p \in Calls, Stops(p) \/ AnnounceFails(p) PROVE NobodyForgotten'
  <2>1. excuse' # {}
    BY <1>0, <1>3, TroubleIs DEF Stops, AnnounceFails
  <2> QED BY <2>1 DEF NobodyForgotten
<1>4. CASE Environment
  <2>1. CASE excuse' # {}
    BY <2>1 DEF NobodyForgotten
  <2>2. CASE SlotStarts
    BY <2>2 DEF SlotStarts, NobodyForgotten
  <2>3. ASSUME NEW i \in Entries, TurnRunsOut(i) PROVE NobodyForgotten'
    <3>1. queue[i].told \in BOOLEAN /\ "over" \in Turn
      BY <1>0, <2>3 DEF QueueOK, Entries, Entry, Turn
    <3>2. HoldersKept /\ QueueKept
      BY <1>0, <2>3, <3>1, MarkedTurns DEF TurnRunsOut, outer
    <3>3. OfferKept /\ WaitsKept /\ excuse' = excuse
      BY <2>3 DEF TurnRunsOut, item, outer, OfferKept, isFree, WaitsKept
    <3> QED BY <3>2, <3>3, BatonKept
  <2>4. SlotStarts \/ (\E i \in Entries : TurnRunsOut(i)) \/ excuse' # {}
    BY <1>0, <1>4, TroubleIs DEF Environment, SetStatus, ReachChanges, DeleteAccount
  <2> QED BY <2>1, <2>2, <2>3, <2>4
<1>5. CASE UNCHANGED vars
  BY <1>5 DEF vars, NobodyForgotten, isFree, Candidates, Entries, HasTurn
<1>6. ASSUME NEW p \in Calls, CallStep(p) PROVE NobodyForgotten'
  BY <1>6, CallNotForgotten
<1>7. Requests \subseteq Calls /\ Schedulers \subseteq Calls
  BY DEF Calls
<1> QED BY <1>1, <1>2, <1>3, <1>4, <1>5, <1>6, <1>7 DEF Next

\* However bookings, returns, cancellations, departures and expired turns interleave,
\* a free resource whose queue can be reached is in somebody's turn, or about to be
\* (waitlist.go:136, waitlist_turns.go:118), unless something went wrong on the way.
THEOREM BatonNotLost == Spec => []NobodyForgotten
<1>1. Init => TypeOK /\ OpenOK /\ NobodyForgotten
  <2>1. Init => OpenOK
    BY DEF Init, OpenOK, Idle, HandsOver, UserRequest, AdminRequest
  <2>2. Init => NobodyForgotten
    BY DEF Init, NobodyForgotten, Candidates, Entries, NoEntry
  <2> QED BY <2>1, <2>2, InitTyped
<1>2. /\ TypeOK /\ OpenOK /\ NobodyForgotten /\ [Next]_vars
      => (TypeOK /\ OpenOK /\ NobodyForgotten)'
  BY NextTyped, NextOpen, NextNotForgotten
<1> QED BY <1>1, <1>2, PTL DEF Spec

-----------------------------------------------------------------------------
(* The line that people see.  Each way to change the rows is a step of it,  *)
(* or none.                                                                 *)

LineStep == [Line!LineNext]_(Line!lineVars)

\* The rows of a person are one at most, and the order is among the rows there are.
LEMMA RowsOf ==
    ASSUME QueueOK
    PROVE  /\ Entries \subseteq Ids
           /\ \A i \in Entries : queue[i].user \in Users
           /\ \A u \in Users : \A i \in EntriesOf(u) : i \in Entries /\ queue[i].user = u
           /\ \A i \in Entries, u \in Users : i \in EntriesOf(u) <=> queue[i].user = u
<1>1. Entries \subseteq Ids
  BY DEF Entries
<1>2. \A i \in Entries : queue[i] \in Entry
  BY <1>1 DEF QueueOK
<1>3. \A i \in Entries : queue[i].user \in Users
  BY <1>2 DEF Entry, Entries
<1> QED BY <1>1, <1>3 DEF EntriesOf

\* A step that leaves the rows, or their persons, order and turns, leaves the line.
LEMMA LineLeft ==
    ASSUME Entries' = Entries,
           \A i \in Entries : /\ queue'[i].user = queue[i].user /\ queue'[i].ahead = queue[i].ahead
                              /\ HasTurn(i)' = HasTurn(i)
    PROVE  Waiting' = Waiting /\ Order' = Order /\ Asked' = Asked
<1>1. \A u \in Users : EntriesOf(u)' = EntriesOf(u)
  BY DEF EntriesOf
<1>2. \A u \in Users : EntriesOf(u) \subseteq Entries
  BY DEF EntriesOf
<1>3. Waiting' = Waiting
  BY <1>1 DEF Waiting
<1>4. \A u, v \in Users : CameBefore(v, u)' = CameBefore(v, u)
  BY <1>1, <1>2 DEF CameBefore
<1>5. Order' = Order
  BY <1>4 DEF Order
<1>6. Asked' = Asked
  BY <1>1, <1>2 DEF Asked
<1> QED BY <1>3, <1>5, <1>6

LEMMA SameLine ==
    ASSUME queue' = queue
    PROVE  Waiting' = Waiting /\ Order' = Order /\ Asked' = Asked
<1>1. Entries' = Entries
  BY DEF Entries
<1> QED BY <1>1, LineLeft DEF HasTurn

\* An UPDATE of a turn asks its person, or no longer does.
LEMMA MarkedLine ==
    ASSUME QueueOK, NEW i \in Entries, NEW t \in Turn, NEW b \in BOOLEAN, queue' = Marked(i, t, b)
    PROVE  /\ Waiting' = Waiting /\ Order' = Order
           /\ t = "none" => Asked' = Asked \ {queue[i].user}
           /\ t # "none" => Asked' = Asked \cup {queue[i].user}
<1>1. /\ Entries' = Entries /\ queue'[i].turn = t
      /\ \A j \in Ids : queue'[j].user = queue[j].user /\ queue'[j].ahead = queue[j].ahead
      /\ \A j \in Ids : j # i => queue'[j] = queue[j]
  BY MarkedIs
<1>2. Entries \subseteq Ids /\ queue[i].user \in Users
  BY RowsOf
<1>3. \A u \in Users : EntriesOf(u)' = EntriesOf(u)
  BY <1>1, <1>2 DEF EntriesOf
<1>4. \A u \in Users : EntriesOf(u) \subseteq Entries
  BY DEF EntriesOf
<1>5. Waiting' = Waiting
  BY <1>3 DEF Waiting
<1>6. \A u, v \in Users : CameBefore(v, u)' = CameBefore(v, u)
  BY <1>1, <1>2, <1>3, <1>4 DEF CameBefore
<1>7. Order' = Order
  BY <1>6 DEF Order
<1>8. EntriesOf(queue[i].user) = {i}
  BY <1>2 DEF QueueOK, EntriesOf
<1>9. \A j \in Entries : HasTurn(j)' = IF j = i THEN t # "none" ELSE HasTurn(j)
  BY <1>1, <1>2 DEF HasTurn
<1>10. ASSUME NEW u \in Users, u # queue[i].user PROVE u \in Asked' <=> u \in Asked
  <2>1. i \notin EntriesOf(u)
    BY <1>10 DEF EntriesOf
  <2> QED BY <1>3, <1>4, <1>9, <2>1 DEF Asked
<1>11. queue[i].user \in Asked' <=> t # "none"
  BY <1>2, <1>3, <1>8, <1>9 DEF Asked
<1>12. Asked \subseteq Users /\ Asked' \subseteq Users
  BY DEF Asked
<1> QED BY <1>2, <1>5, <1>7, <1>10, <1>11, <1>12

\* A DELETE lets persons leave.
LEMMA WithoutLine ==
    ASSUME QueueOK, InLine, NEW S, queue' = Without(S)
    PROVE  LET W == {u \in Users : \E i \in S : i \in EntriesOf(u)}
           IN  /\ Waiting' = Waiting \ W
               /\ Order' = {p \in Order : p[1] \notin W /\ p[2] \notin W}
               /\ Asked' = Asked \ W
<1> DEFINE W == {u \in Users : \E i \in S : i \in EntriesOf(u)}
<1>1. /\ Entries' = Entries \ S
      /\ \A j \in Ids : j \notin S =>
             /\ queue'[j].user = queue[j].user /\ queue'[j].turn = queue[j].turn
             /\ queue'[j].ahead = queue[j].ahead \ S
  BY WithoutIs
<1>2. /\ Entries \subseteq Ids
      /\ \A u \in Users : \A i \in EntriesOf(u) : i \in Entries /\ queue[i].user = u
      /\ \A i \in Entries, u \in Users : i \in EntriesOf(u) <=> queue[i].user = u
  BY RowsOf
<1>3. \A u \in Users : EntriesOf(u)' = EntriesOf(u) \ S
  <2>1. \A u \in Users : EntriesOf(u)' = {i \in Entries \ S : queue'[i].user = u}
    BY <1>1 DEF EntriesOf
  <2> QED BY <1>1, <1>2, <2>1 DEF EntriesOf
<1>4. ASSUME NEW u \in W PROVE u \in Users /\ EntriesOf(u)' = {}
  <2>1. PICK i \in S : i \in EntriesOf(u)
    OBVIOUS
  <2>2. EntriesOf(u) = {i}
    BY <1>2, <2>1 DEF QueueOK
  <2> QED BY <1>3, <2>1, <2>2
<1>5. ASSUME NEW u \in Users \ W PROVE EntriesOf(u)' = EntriesOf(u) /\ EntriesOf(u) \cap S = {}
  BY <1>3
<1> HIDE DEF W
<1>6. Waiting' = Waiting \ W
  BY <1>4, <1>5 DEF Waiting
<1>7. Asked' = Asked \ W
  <2>1. ASSUME NEW u \in W PROVE u \notin Asked'
    BY <1>4 DEF Asked
  <2>2. ASSUME NEW u \in Users \ W PROVE u \in Asked' <=> u \in Asked
    BY <1>1, <1>2, <1>5 DEF Asked, HasTurn
  <2>3. Asked \subseteq Users /\ Asked' \subseteq Users
    BY DEF Asked
  <2> QED BY <2>1, <2>2, <2>3
<1>8. Order' = {p \in Order : p[1] \notin W /\ p[2] \notin W}
  <2>1. ASSUME NEW u \in Users, NEW v \in Users, u \in W \/ v \in W PROVE ~CameBefore(v, u)'
    BY <1>4, <2>1 DEF CameBefore
  <2>2. ASSUME NEW u \in Users \ W, NEW v \in Users \ W PROVE CameBefore(v, u)' <=> CameBefore(v, u)
    <3>1. \A i \in EntriesOf(u), j \in EntriesOf(v) :
              j \in queue'[i].ahead <=> j \in queue[i].ahead
      BY <1>1, <1>2, <1>5
    <3> QED BY <1>5, <3>1 DEF CameBefore
  <2> QED BY <2>1, <2>2 DEF Order
<1> QED BY <1>6, <1>7, <1>8 DEF W

\* A newcomer stands behind everybody.
LEMMA NewcomerLine ==
    ASSUME QueueOK, InLine, NEW u \in Users, EntriesOf(u) = {}, NEW i \in FreshIds,
           queue' = [queue EXCEPT ![i] = Newcomer(u)]
    PROVE  /\ u \notin Waiting /\ Waiting' = Waiting \cup {u}
           /\ Order' = Order \cup (Waiting \X {u}) /\ Asked' = Asked
<1>1. /\ i \in Ids \ Entries /\ Entries' = Entries \cup {i} /\ queue'[i] = Newcomer(u)
      /\ \A j \in Ids : j # i => queue'[j] = queue[j]
  BY NewcomerIs
<1>2. /\ Entries \subseteq Ids
      /\ \A w \in Users : \A j \in EntriesOf(w) : j \in Entries /\ queue[j].user = w
  BY RowsOf
<1>3. /\ queue'[i].user = u /\ queue'[i].ahead = Entries /\ queue'[i].turn = "none"
  BY <1>1 DEF Newcomer
<1>4. ASSUME NEW w \in Users, w # u PROVE EntriesOf(w)' = EntriesOf(w)
  <2>1. EntriesOf(w)' = {j \in Entries \cup {i} : queue'[j].user = w}
    BY <1>1 DEF EntriesOf
  <2> QED BY <1>1, <1>2, <1>3, <1>4, <2>1 DEF EntriesOf
<1>5. EntriesOf(u)' = {i}
  <2>1. EntriesOf(u)' = {j \in Entries \cup {i} : queue'[j].user = u}
    BY <1>1 DEF EntriesOf
  <2> QED BY <1>1, <1>2, <1>3, <2>1 DEF EntriesOf
<1>6. u \notin Waiting /\ Waiting' = Waiting \cup {u}
  BY <1>4, <1>5 DEF Waiting
<1>7. Asked' = Asked
  <2>1. u \notin Asked /\ u \notin Asked'
    BY <1>3, <1>5 DEF Asked, HasTurn
  <2>2. ASSUME NEW w \in Users, w # u PROVE w \in Asked' <=> w \in Asked
    BY <1>1, <1>2, <1>4, <2>2 DEF Asked, HasTurn
  <2>3. Asked \subseteq Users /\ Asked' \subseteq Users
    BY DEF Asked
  <2> QED BY <2>1, <2>2, <2>3
<1>8. ASSUME NEW w \in Users, NEW v \in Users
      PROVE  CameBefore(v, w)' <=> CameBefore(v, w) \/ (v \in Waiting /\ w = u)
  <2>1. CASE w # u /\ v # u
    <3>1. \A k \in EntriesOf(w) : queue'[k] = queue[k]
      BY <1>1, <1>2
    <3>2. EntriesOf(w)' = EntriesOf(w) /\ EntriesOf(v)' = EntriesOf(v)
      BY <1>4, <2>1
    <3> QED BY <2>1, <3>1, <3>2 DEF CameBefore
  <2>2. CASE w # u /\ v = u
    <3>1. \A k \in EntriesOf(w) : i \notin queue'[k].ahead
      BY <1>1, <1>2 DEF InLine
    <3>2. EntriesOf(w)' = EntriesOf(w)
      BY <1>4, <2>2
    <3> QED BY <1>5, <2>2, <3>1, <3>2 DEF CameBefore
  <2>3. CASE w = u /\ v = u
    BY <1>1, <1>3, <1>5, <1>6, <2>3 DEF CameBefore
  <2>4. CASE w = u /\ v # u
    <3>1. EntriesOf(v)' = EntriesOf(v) /\ EntriesOf(v) \subseteq Entries
      BY <1>2, <1>4, <2>4
    <3>2. CameBefore(v, w)' <=> EntriesOf(v) # {}
      BY <1>3, <1>5, <2>4, <3>1 DEF CameBefore
    <3> QED BY <2>4, <3>2 DEF CameBefore, Waiting
  <2> QED BY <2>1, <2>2, <2>3, <2>4
<1>9. Order' = Order \cup (Waiting \X {u})
  <2>1. Waiting \subseteq Users
    BY DEF Waiting
  <2>2. Order' = {p \in Users \X Users : CameBefore(p[1], p[2])'}
    BY DEF Order
  <2> QED BY <1>8, <2>1, <2>2 DEF Order
<1> QED BY <1>6, <1>7, <1>9

-----------------------------------------------------------------------------
\* The four kinds of steps of the line that the rows make.
LEMMA StepStays ==
    ASSUME queue' = queue, holders' = holders, reach' = reach
    PROVE  LineStep
BY SameLine DEF LineStep, Line!lineVars

LEMMA StepLeaves ==
    ASSUME QueueOK, InLine, NEW S, queue' = Without(S), holders' = holders, reach' = reach
    PROVE  LineStep
<1> DEFINE W == {u \in Users : \E i \in S : i \in EntriesOf(u)}
<1>1. /\ Waiting' = Waiting \ W /\ Asked' = Asked \ W
      /\ Order' = {p \in Order : p[1] \notin W /\ p[2] \notin W}
  BY WithoutLine
<1>2. W \in SUBSET Users
  OBVIOUS
<1> HIDE DEF W
<1>3. Line!Leave(W)
  BY <1>1 DEF Line!Leave, Line!Leaves
<1> QED BY <1>2, <1>3 DEF LineStep, Line!LineNext

LEMMA StepMarks ==
    ASSUME QueueOK, NEW i \in Entries, NEW t \in Turn, NEW b \in BOOLEAN, queue' = Marked(i, t, b),
           holders' = holders, reach' = reach, t = "none" \/ HasTurn(i)
    PROVE  LineStep
<1>1. queue[i].user \in Users /\ i \in EntriesOf(queue[i].user)
  BY RowsOf
<1>2. /\ Waiting' = Waiting /\ Order' = Order
      /\ t = "none" => Asked' = Asked \ {queue[i].user}
      /\ t # "none" => Asked' = Asked \cup {queue[i].user}
  BY MarkedLine
<1>3. CASE t = "none"
  <2>1. Line!StopAsking(queue[i].user)
    BY <1>2, <1>3 DEF Line!StopAsking
  <2> QED BY <1>1, <2>1 DEF LineStep, Line!LineNext
<1>4. CASE t # "none"
  <2>1. queue[i].user \in Asked
    BY <1>1, <1>4 DEF Asked
  <2> QED BY <1>2, <1>4, <2>1 DEF LineStep, Line!lineVars
<1> QED BY <1>3, <1>4

\* notifyNext asks the first person who can be reached.
LEMMA StepAsks ==
    ASSUME QueueOK, NEW i \in First(Candidates), queue' = Marked(i, "running", FALSE),
           isFree, holders' = holders, reach' = reach
    PROVE  LineStep
<1>1. /\ i \in Entries /\ queue[i].user \in reach
      /\ \A j \in Entries : queue[j].user \in reach => j \notin queue[i].ahead
  BY DEF First, Candidates
<1>2. /\ queue[i].user \in Users /\ i \in EntriesOf(queue[i].user)
      /\ \A u \in Users : \A j \in EntriesOf(u) : j \in Entries /\ queue[j].user = u
  BY <1>1, RowsOf
<1>3. /\ Waiting' = Waiting /\ Order' = Order /\ Asked' = Asked \cup {queue[i].user}
  BY <1>1, MarkedLine DEF Turn
<1>4. EntriesOf(queue[i].user) = {i}
  BY <1>1, <1>2 DEF QueueOK
<1>5. ASSUME NEW v \in Users, << v, queue[i].user >> \in Order PROVE v \notin reach
  BY <1>1, <1>2, <1>4, <1>5 DEF Order, CameBefore
<1>6. queue[i].user \in Waiting
  BY <1>2 DEF Waiting
<1>7. Line!Ask(queue[i].user)
  BY <1>1, <1>3, <1>5, <1>6 DEF Line!Ask, isFree
<1> QED BY <1>2, <1>7 DEF LineStep, Line!LineNext

\* The transactions of requests and schedulers.
LEMMA CallIsLineStep ==
    ASSUME TypeOK, InLine, OneBooking, NEW p \in Calls, CallStep(p)
    PROVE  LineStep
<1>0. QueueOK /\ CallsOK /\ RestOK
  BY TypeParts
<1> USE DEF At
<1>1. CASE Join(p)
  <2>1. call[p].who \in Users
    BY <1>0, <1>1 DEF Join, CallsOK, UserRequest
  <2>2. CASE UNCHANGED queue
    BY <1>1, <2>2, StepStays DEF Join, outer
  <2>3. CASE /\ ~isFree /\ call[p].who \notin holders /\ EntriesOf(call[p].who) = {}
             /\ \E i \in FreshIds : queue' = [queue EXCEPT ![i] = Newcomer(call[p].who)]
    <3>1. /\ call[p].who \notin Waiting /\ Waiting' = Waiting \cup {call[p].who}
          /\ Order' = Order \cup (Waiting \X {call[p].who}) /\ Asked' = Asked
      BY <1>0, <2>1, <2>3, NewcomerLine
    <3>2. Line!Join(call[p].who)
      BY <1>1, <2>3, <3>1 DEF Line!Join, Join, isFree, outer
    <3> QED BY <2>1, <3>2 DEF LineStep, Line!LineNext
  <2> QED BY <1>1, <2>2, <2>3 DEF Join
<1>2. CASE Reserve(p)
  <2>1. call[p].who \in Users
    BY <1>0, <1>2 DEF Reserve, CallsOK, UserRequest
  <2>2. CASE UNCHANGED << holders, queue >>
    BY <1>2, <2>2, StepStays DEF Reserve, outer
  <2>3. CASE /\ isFree /\ EntriesOf(call[p].who) # {}
             /\ holders' = holders \cup {call[p].who} /\ queue' = Without(EntriesOf(call[p].who))
    <3> DEFINE W == {u \in Users : \E i \in EntriesOf(call[p].who) : i \in EntriesOf(u)}
    <3>1. W = {call[p].who}
      BY <2>1, <2>3 DEF EntriesOf
    <3>2. /\ Waiting' = Waiting \ W /\ Asked' = Asked \ W
          /\ Order' = {q \in Order : q[1] \notin W /\ q[2] \notin W}
      BY <1>0, <2>3, WithoutLine
    <3> HIDE DEF W
    <3>3. Line!TakeAndLeave(call[p].who)
      BY <1>2, <2>1, <2>3, <3>1, <3>2
         DEF Line!TakeAndLeave, Line!Leaves, Reserve, isFree, Waiting, outer
    <3> QED BY <2>1, <3>3 DEF LineStep, Line!LineNext
  <2> QED BY <1>2, <2>2, <2>3 DEF Reserve
<1>3. CASE CreateReservation(p)
  <2>1. call[p].who \in Users
    BY <1>0, <1>3 DEF CreateReservation, CallsOK, UserRequest
  <2>2. CASE UNCHANGED holders
    BY <1>3, <2>2, StepStays DEF CreateReservation, outer
  <2>3. CASE isFree /\ holders' = holders \cup {call[p].who}
    <3>1. Line!TakePastTheLine(call[p].who)
      BY <1>3, <2>3, SameLine DEF Line!TakePastTheLine, CreateReservation, isFree, outer
    <3> QED BY <2>1, <3>1 DEF LineStep, Line!LineNext
  <2> QED BY <1>3, <2>2, <2>3 DEF CreateReservation
<1>4. CASE ForgetInterest(p) \/ Remove(p)
  BY <1>0, <1>4, StepLeaves DEF ForgetInterest, Remove, outer
<1>5. CASE Cancel(p) \/ Revoke(p)
  <2>1. CASE UNCHANGED holders
    BY <1>5, <2>1, StepStays DEF Cancel, Revoke, outer
  <2>2. CASE holders # {} /\ holders' = {}
    <3>1. Line!Release
      BY <1>5, <2>2, SameLine DEF Line!Release, Cancel, Revoke, outer
    <3> QED BY <3>1 DEF LineStep, Line!LineNext
  <2> QED BY <1>5, <2>1, <2>2 DEF Cancel, Revoke, isFree, OneBooking
<1>6. CASE Load(p) \/ AdminAdvance(p)
  BY <1>6, StepStays DEF Load, AdminAdvance, list, outer
<1>7. CASE SkipFirst(p)
  BY <1>0, <1>7, StepLeaves DEF SkipFirst, outer
<1>8. CASE notifyNext(p)
  <2>1. CASE UNCHANGED queue
    BY <1>8, <2>1, StepStays DEF notifyNext, outer
  <2>2. CASE Offered(p) /\ \E i \in First(Candidates) : queue' = Marked(i, "running", FALSE)
    BY <1>0, <1>8, <2>2, StepAsks DEF notifyNext, Offered, outer
  <2> QED BY <1>8, <2>1, <2>2 DEF notifyNext, FirstInLine
<1>9. CASE announceAvailable(p) \/ TakeBack(p)
  <2>1. CASE UNCHANGED queue
    BY <1>9, <2>1, StepStays DEF announceAvailable, TakeBack, outer
  <2> DEFINE i == call[p].entry
  <2>2. CASE i \in Entries /\ queue' = Marked(i, queue[i].turn, HasTurn(i))
    <3>1. queue[i].turn \in Turn /\ HasTurn(i) \in BOOLEAN /\ (queue[i].turn = "none" \/ HasTurn(i))
      BY <1>0, <2>2 DEF QueueOK, Entry, Entries, HasTurn
    <3>2. holders' = holders /\ reach' = reach
      BY <1>9 DEF announceAvailable, TakeBack, outer
    <3> HIDE DEF i
    <3> QED BY <1>0, <2>2, <3>1, <3>2, StepMarks
  <2>3. CASE i \in Entries /\ queue' = Marked(i, "none", FALSE)
    <3>1. holders' = holders /\ reach' = reach
      BY <1>9 DEF announceAvailable, TakeBack, outer
    <3> HIDE DEF i
    <3> QED BY <1>0, <2>3, <3>1, StepMarks DEF Turn
  <2> QED BY <1>9, <2>1, <2>2, <2>3 DEF announceAvailable, TakeBack
<1> QED BY <1>1, <1>2, <1>3, <1>4, <1>5, <1>6, <1>7, <1>8, <1>9 DEF CallStep

LEMMA NextIsLineStep ==
    ASSUME TypeOK, InLine, OneBooking, [Next]_vars
    PROVE  LineStep
<1>0. QueueOK /\ CallsOK /\ RestOK
  BY TypeParts
<1>1. ASSUME NEW p \in Requests, NewRequest(p) PROVE LineStep
  <2>1. CASE \/ \E op \in UserRequest, u \in Users : Begin(p, op, u)
             \/ \E op \in AdminRequest : Begin(p, op, None)
    BY <2>1, StepStays DEF Begin, list, outer
  <2>2. ASSUME NEW u \in Users, EndReservation(p, u) PROVE LineStep
    <3>1. Line!Release
      BY <2>2, SameLine DEF Line!Release, EndReservation, OneBooking, outer
    <3> QED BY <3>1 DEF LineStep, Line!LineNext
  <2>3. ASSUME NEW i \in Entries, AdminRemove(p, i) PROVE LineStep
    BY <1>0, <2>3, StepLeaves DEF AdminRemove, outer
  <2> QED BY <1>1, <2>1, <2>2, <2>3 DEF NewRequest
<1>2. ASSUME NEW p \in Schedulers, SchedulerStep(p) PROVE LineStep
  <2>1. CASE CallStep(p)
    BY <2>1, CallIsLineStep DEF Calls
  <2>2. CASE Tick(p)
    BY <1>0, <2>2, StepStays, StepLeaves DEF Tick, outer
  <2>3. CASE ExpireWaitlistTurns(p) \/ \E i \in call[p].todo : LoadTurn(p, i)
    BY <2>3, StepStays DEF ExpireWaitlistTurns, LoadTurn, list, outer
  <2>4. CASE expireTurn(p)
    <3>1. CASE UNCHANGED queue
      BY <2>4, <3>1, StepStays DEF expireTurn, outer
    <3>2. CASE queue' = Without({call[p].entry})
      BY <1>0, <2>4, <3>2, StepLeaves DEF expireTurn, outer
    <3>3. CASE Held(p) /\ queue' = Marked(call[p].entry, "none", FALSE)
      BY <1>0, <2>4, <3>3, StepMarks DEF expireTurn, Held, Turn, outer
    <3> QED BY <2>4, <3>1, <3>2, <3>3 DEF expireTurn
  <2> QED BY <1>2, <2>1, <2>2, <2>3, <2>4 DEF SchedulerStep
<1>3. ASSUME NEW p \in Calls, Stops(p) \/ AnnounceFails(p) PROVE LineStep
  BY <1>3, StepStays DEF Stops, AnnounceFails, list
<1>4. CASE Environment
  <2>1. CASE SlotStarts \/ SetStatus
    BY <2>1, StepStays DEF SlotStarts, SetStatus, list, outer
  <2>2. ASSUME NEW u \in Users, ReachChanges(u) PROVE LineStep
    <3>1. reach' \in SUBSET Users
      BY <1>0, <2>2 DEF ReachChanges, RestOK
    <3>2. Line!ReachMoves
      BY <2>2, <3>1, SameLine DEF Line!ReachMoves, ReachChanges, list
    <3> QED BY <3>2 DEF LineStep, Line!LineNext
  <2>3. ASSUME NEW u \in Users, DeleteAccount(u) PROVE LineStep
    BY <1>0, <2>3, StepLeaves DEF DeleteAccount
  <2>4. ASSUME NEW i \in Entries, TurnRunsOut(i) PROVE LineStep
    <3>1. queue[i].told \in BOOLEAN /\ "over" \in Turn /\ HasTurn(i)
      BY <1>0, <2>4 DEF QueueOK, Entries, Entry, TurnRunsOut, Turn, HasTurn
    <3> QED BY <1>0, <2>4, <3>1, StepMarks DEF TurnRunsOut, outer
  <2> QED BY <1>4, <2>1, <2>2, <2>3, <2>4 DEF Environment
<1>5. CASE UNCHANGED vars
  BY <1>5, StepStays DEF vars
<1>6. ASSUME NEW p \in Requests, CallStep(p) PROVE LineStep
  BY <1>6, CallIsLineStep DEF Calls
<1> QED BY <1>1, <1>2, <1>3, <1>4, <1>5, <1>6 DEF Next

LEMMA InitIsLineInit == Init => Line!LineInit
<1> SUFFICES ASSUME Init PROVE Line!LineInit
  OBVIOUS
<1>1. Entries = {}
  BY DEF Init, Entries, NoEntry
<1>2. Waiting = {} /\ Order = {} /\ Asked = {}
  BY <1>1 DEF Waiting, Order, CameBefore, Asked, EntriesOf
<1> QED BY <1>2 DEF Line!LineInit, Init

\* Whatever requests, schedulers, failures and changes interleave, people are asked in the
\* order in which they came, for a resource that is free, and nobody's place changes
\* (waitlist.go:321).
THEOREM LineKept == Spec => KeepsTheLine
<1>1. Init => TypeOK /\ InLine /\ OneBooking
  BY InitTyped, InitInLine DEF Init, OneBooking
<1>2. TypeOK /\ InLine /\ OneBooking /\ [Next]_vars => (TypeOK /\ InLine /\ OneBooking)'
  BY NextTyped, NextInLine, NextKeepsOne
<1>3. TypeOK /\ InLine /\ OneBooking /\ [Next]_vars => [Line!LineNext]_(Line!lineVars)
  BY NextIsLineStep DEF LineStep
<1> QED BY <1>1, <1>2, <1>3, InitIsLineInit, PTL DEF Spec, KeepsTheLine, Line!LineSpec

\* What the line promises, step by step.
LEMMA LineStaysOK ==
    ASSUME Line!LineOK, [Line!LineNext]_(Line!lineVars)
    PROVE  Line!LineOK'
<1> USE DEF Line!LineOK
<1>1. ASSUME NEW u \in Users, Line!Join(u) PROVE Line!LineOK'
  <2>1. u \notin Waiting /\ Waiting' = Waiting \cup {u} /\ Order' = Order \cup (Waiting \X {u})
        /\ Asked' = Asked /\ holders' = holders
    BY <1>1 DEF Line!Join
  <2>2. /\ \A v, w \in Waiting : << v, w >> \in Order' <=> << v, w >> \in Order
        /\ \A v \in Waiting : << v, u >> \in Order' /\ << u, v >> \notin Order'
        /\ << u, u >> \notin Order'
    BY <2>1
  <2>3. Asked' \subseteq Waiting' /\ Order' \subseteq Waiting' \X Waiting'
    BY <2>1
  <2>4. \A v, w \in Waiting' : << v, w >> \in Order' <=> v # w /\ << w, v >> \notin Order'
    BY <2>1, <2>2
  <2>5. ASSUME NEW v \in Waiting', NEW w \in Waiting', NEW x \in Waiting',
               << v, w >> \in Order', << w, x >> \in Order'
        PROVE  << v, x >> \in Order'
    <3>1. v # u /\ w # u
      BY <2>1, <2>2, <2>5
    <3> QED BY <2>1, <2>2, <2>5, <3>1
  <2> QED BY <2>1, <2>3, <2>4, <2>5
<1>2. ASSUME NEW S, Line!Leaves(S), \A u, v \in holders' : u = v PROVE Line!LineOK'
  <2>1. /\ Waiting' = Waiting \ S /\ Asked' = Asked \ S
        /\ Order' = {p \in Order : p[1] \notin S /\ p[2] \notin S}
    BY <1>2 DEF Line!Leaves
  <2>2. \A v, w \in Waiting' : << v, w >> \in Order' <=> << v, w >> \in Order
    BY <2>1
  <2>3. Asked' \subseteq Waiting' /\ Order' \subseteq Waiting' \X Waiting'
    BY <2>1
  <2> QED BY <1>2, <2>1, <2>2, <2>3
<1>3. ASSUME NEW S, Line!Leave(S) PROVE Line!LineOK'
  BY <1>2, <1>3 DEF Line!Leave
<1>4. ASSUME NEW u, Line!TakeAndLeave(u) PROVE Line!LineOK'
  BY <1>2, <1>4 DEF Line!TakeAndLeave
<1>5. ASSUME NEW u, Line!TakePastTheLine(u) \/ Line!Ask(u) \/ Line!StopAsking(u)
      PROVE  Line!LineOK'
  BY <1>5 DEF Line!TakePastTheLine, Line!Ask, Line!StopAsking
<1>6. CASE Line!Release \/ Line!ReachMoves
  BY <1>6 DEF Line!Release, Line!ReachMoves
<1>7. CASE UNCHANGED Line!lineVars
  BY <1>7 DEF Line!lineVars
<1> QED BY <1>1, <1>3, <1>4, <1>5, <1>6, <1>7 DEF Line!LineNext

LEMMA LinesAreOrdered == Line!LineSpec => []Line!LineOK
<1>1. Line!LineInit => Line!LineOK
  BY DEF Line!LineInit, Line!LineOK
<1> QED BY <1>1, LineStaysOK, PTL DEF Line!LineSpec

\* Whatever requests, schedulers and failures interleave, who waits stands in one line, one has
\* the resource at most, and nobody overtakes anybody (waitlist.go:349, ORDER BY id).
THEOREM PeopleStayInOrder == Spec => []Line!LineOK /\ Line!NobodyOvertakes
<1>1. [Line!LineNext]_(Line!lineVars)
      => [\A u, v \in Waiting \cap Waiting' :
             << u, v >> \in Order' <=> << u, v >> \in Order]_(Line!lineVars)
  <2> SUFFICES ASSUME Line!LineNext, NEW u \in Waiting \cap Waiting', NEW v \in Waiting \cap Waiting'
               PROVE  << u, v >> \in Order' <=> << u, v >> \in Order
    OBVIOUS
  <2> QED BY DEF Line!LineNext, Line!Join, Line!Leave, Line!Leaves, Line!TakeAndLeave,
                 Line!TakePastTheLine, Line!Release, Line!Ask, Line!StopAsking, Line!ReachMoves
<1> QED BY <1>1, LineKept, LinesAreOrdered, PTL DEF KeepsTheLine, Line!LineSpec, Line!NobodyOvertakes

=============================================================================
