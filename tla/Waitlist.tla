------------------------------ MODULE Waitlist ------------------------------
(***************************************************************************)
(* One reservable resource (an item on loan, or one slot of a slot item),  *)
(* its bookings and its waiting list (services/reservations and the        *)
(* booking handlers).  Requests and schedulers run concurrently.  A step   *)
(* is one statement, one transaction, or one call of the notification      *)
(* service: transactions that take the lock of the item exclude each       *)
(* other, the other statements do not.                                     *)
(*                                                                         *)
(* Times are flags: a turn is running until its turn_expires_at has passed *)
(* (over), and a slot is past once it has started.  An entry knows which   *)
(* ones are ahead of it (ORDER BY id), so that the number itself is only   *)
(* compared for equality and is used again once nothing refers to it:      *)
(* neither requests nor turns need a bound.                                *)
(***************************************************************************)
EXTENDS Naturals

CONSTANTS
    Users,       \* accounts
    None,        \* no account
    Requests,    \* requests being served, each one goroutine
    Schedulers,  \* reservation schedulers, one per replica of the server
    Ids,         \* ids of entries
    MaxTrouble   \* bound: calls that stop half-way or are refused, and changes
                 \* of the item and of the users from outside

ASSUME NoneAssumption == None \notin Users
ASSUME IdsAssumption == Ids \subseteq Nat \ {0}
ASSUME BoundAssumption == MaxTrouble \in Nat

Calls == Requests \cup Schedulers

VARIABLES
    slot,      \* the item is reserved per slot
    active,    \* its status is 'active'
    past,      \* the slot has started
    holders,   \* who holds the open reservation rows
    queue,     \* rows of reservation_waitlist, by id; NoEntry: no such row
    reach,     \* users a reservation push would reach now
    call,      \* what each call does next and what it has read
    excuse,    \* history: why a hand-over may have been lost
    trouble    \* troubles so far

item == << slot, active, past >>
list == << holders, queue >>
outer == << reach, excuse, trouble >>
vars == << slot, active, past, holders, queue, reach, call, excuse, trouble >>

-----------------------------------------------------------------------------
(* State *)

Turn == {"none", "running", "over"}

\* turn stands for notified_at and turn_expires_at, ahead for the place ORDER BY id
\* gives: the entries that joined before.  told is history: since the turn was
\* given, a push was queued.
Entry == [user : Users \cup {None}, turn : Turn, told : BOOLEAN, ahead : SUBSET Ids]
NoEntry == [user |-> None, turn |-> "none", told |-> FALSE, ahead |-> {}]

UserRequest == {"join", "reserve", "book", "remove", "cancel"}
AdminRequest == {"revoke", "advance"}
Pc == UserRequest \cup AdminRequest \cup
      {"idle", "forget", "load", "skip", "due", "next", "expire", "notify", "announce", "unannounce"}

\* open is item.Status = 'active' as the call read it, entry the entry whose turn
\* it handles, todo the entries whose turn the scheduler found over.
Call == [pc : Pc, who : Users \cup {None}, open : BOOLEAN, entry : Ids \cup {0}, todo : SUBSET Ids]

Idle == [pc |-> "idle", who |-> None, open |-> FALSE, entry |-> 0, todo |-> {}]

isFree == holders = {}

Entries == {i \in Ids : queue[i].user # None}
EntriesOf(u) == {i \in Entries : queue[i].user = u}
HasTurn(i) == queue[i].turn # "none"

\* UNIQUE (email, ...) of reservation_waitlist: nobody is in the queue twice.
TypeOK ==
    /\ slot \in BOOLEAN /\ active \in BOOLEAN /\ past \in BOOLEAN
    /\ holders \subseteq Users
    /\ queue \in [Ids -> Entry]
    /\ \A i \in Ids : queue[i].user = None => queue[i] = NoEntry
    /\ \A i, j \in Entries : queue[i].user = queue[j].user => i = j
    /\ reach \subseteq Users
    /\ call \in [Calls -> Call]
    /\ \A p \in Calls : call[p].pc \in UserRequest \cup {"forget"} => call[p].who \in Users
    /\ excuse \subseteq {"stopped", "reach", "other"}
    /\ trouble \in 0 .. MaxTrouble

Init ==
    /\ slot \in BOOLEAN
    /\ active = TRUE
    /\ past = FALSE
    /\ holders = {}
    /\ queue = [i \in Ids |-> NoEntry]
    /\ reach \in SUBSET Users
    /\ call = [p \in Calls |-> Idle]
    /\ excuse = {}
    /\ trouble = 0

\* DELETE of the entries in S, UPDATE of the turn of one.
Without(S) == [i \in Ids |-> IF i \in S THEN NoEntry ELSE [queue[i] EXCEPT !.ahead = @ \ S]]
Marked(i, turn, told) == [queue EXCEPT ![i] = [@ EXCEPT !.turn = turn, !.told = told]]

\* Faulty variant: whoever came last.
Newest(S) == {i \in S : \A j \in S : i \notin queue[j].ahead}

First(S) == {i \in S : \A j \in S : j \notin queue[i].ahead}

\* The id the next entry gets.
FreeIds == Ids \ (Entries \cup UNION {{call[p].entry} \cup call[p].todo : p \in Calls})
FreshIds == {i \in FreeIds : \A j \in FreeIds : i <= j}

At(p, pc) == call[p].pc = pc
\* What a call still needs of what it has read: the item, and the scheduler's list.
Goes(p, pc) == call' = [call EXCEPT ![p] =
               [Idle EXCEPT !.pc = pc, !.open = call[p].open, !.todo = call[p].todo]]
\* A request is over, a scheduler takes the next expired turn.
Ends(p) == call' = [call EXCEPT ![p] =
               IF @.todo = {} THEN Idle ELSE [Idle EXCEPT !.pc = "next", !.todo = call[p].todo]]

-----------------------------------------------------------------------------
(* Requests: the item is read first, everything else later *)

\* What a request checks before its transaction: Join and Reserve want a slot
\* to come and an active item, a direct booking an active item, an
\* administrator's hand-over a slot to come.
MayStart(op) ==
    CASE op \in {"join", "reserve"} -> active /\ ~past
      [] op = "book"                -> active
      [] op = "advance"             -> ~past
      [] op = "cancel"              -> slot
      [] OTHER                      -> TRUE

Begin(p, op, u) ==
    /\ p \in Requests /\ At(p, "idle") /\ MayStart(op)
    /\ call' = [call EXCEPT ![p] = [Idle EXCEPT !.pc = op, !.who = u, !.open = active]]
    /\ UNCHANGED << item, list, outer >>

Newcomer(u) == [user |-> u, turn |-> "none", told |-> FALSE, ahead |-> Entries]

\* Faulty variant: a second entry of the same user is let in.
JoinAgain(p) ==
    /\ At(p, "join")
    /\ LET u == call[p].who IN
       IF isFree \/ u \in holders \/ FreeIds = {} THEN UNCHANGED queue
       ELSE \E i \in FreshIds : queue' = [queue EXCEPT ![i] = Newcomer(u)]
    /\ Ends(p)
    /\ UNCHANGED << item, holders, outer >>

\* Join, under the lock of the item.  Without an id to give, the user is in too
\* many queues (ErrQueueFull).
Join(p) ==
    /\ At(p, "join")
    /\ LET u == call[p].who IN
       IF isFree \/ u \in holders \/ EntriesOf(u) # {} \/ FreeIds = {} THEN UNCHANGED queue
       ELSE \E i \in FreshIds : queue' = [queue EXCEPT ![i] = Newcomer(u)]
    /\ Ends(p)
    /\ UNCHANGED << item, holders, outer >>

\* Reserve, under the lock of the item: anybody in the queue may.
Reserve(p) ==
    /\ At(p, "reserve")
    /\ IF isFree /\ EntriesOf(call[p].who) # {}
       THEN /\ holders' = holders \cup {call[p].who}
            /\ queue' = Without(EntriesOf(call[p].who))
       ELSE UNCHANGED << holders, queue >>
    /\ Ends(p)
    /\ UNCHANGED << item, outer >>

\* CreateReservation, under the lock of the item: the queue blocks nobody.
CreateReservation(p) ==
    /\ At(p, "book")
    /\ IF isFree
       THEN /\ holders' = holders \cup {call[p].who}
            /\ call' = [call EXCEPT ![p].pc = "forget"]
       ELSE UNCHANGED holders /\ Ends(p)
    /\ UNCHANGED << item, queue, outer >>

\* ForgetInterest, a statement of its own after the booking.
ForgetInterest(p) ==
    /\ At(p, "forget")
    /\ queue' = Without(EntriesOf(call[p].who))
    /\ excuse' = IF isFree /\ \E i \in EntriesOf(call[p].who) : HasTurn(i)
                 THEN excuse \cup {"other"} ELSE excuse
    /\ Ends(p)
    /\ UNCHANGED << item, holders, reach, trouble >>

\* Faulty variant: the baton leaves with the person who held it.
RemoveQuietly(p) ==
    /\ At(p, "remove")
    /\ queue' = Without(EntriesOf(call[p].who))
    /\ Ends(p)
    /\ UNCHANGED << item, holders, outer >>

\* Remove: one DELETE, then the next person if this one was waited for.
Remove(p) ==
    /\ At(p, "remove")
    /\ queue' = Without(EntriesOf(call[p].who))
    /\ IF \E i \in EntriesOf(call[p].who) : HasTurn(i) THEN Goes(p, "notify") ELSE Ends(p)
    /\ UNCHANGED << item, holders, outer >>

\* Cancel of one's own slot: one DELETE.
Cancel(p) ==
    /\ At(p, "cancel")
    /\ IF call[p].who \in holders
       THEN holders' = holders \ {call[p].who} /\ Goes(p, "notify")
       ELSE UNCHANGED holders /\ Ends(p)
    /\ UNCHANGED << item, queue, outer >>

\* Cancel as administrator, and MarkReturned of a loan.
Revoke(p) ==
    /\ At(p, "revoke")
    /\ IF isFree THEN UNCHANGED holders /\ Ends(p) ELSE holders' = {} /\ Goes(p, "notify")
    /\ UNCHANGED << item, queue, outer >>

\* EndReservation: the borrower returns a loan; ReleaseOf reads the item after.
EndReservation(p, u) ==
    /\ p \in Requests /\ At(p, "idle")
    /\ ~slot /\ u \in holders
    /\ holders' = holders \ {u}
    /\ Goes(p, "load")
    /\ UNCHANGED << item, queue, outer >>

Load(p) ==
    /\ At(p, "load")
    /\ call' = [call EXCEPT ![p].pc = "notify", ![p].open = active]
    /\ UNCHANGED << item, list, outer >>

\* AdminRemoveWaitlistEntry: one DELETE by id.
AdminRemove(p, i) ==
    /\ p \in Requests /\ At(p, "idle") /\ i \in Entries
    /\ queue' = Without({i})
    /\ IF HasTurn(i) THEN Goes(p, "load") ELSE UNCHANGED call
    /\ UNCHANGED << item, holders, outer >>

\* AdminAdvanceWaitlist: the check and the DELETE are not under the lock.
AdminAdvance(p) ==
    /\ At(p, "advance")
    /\ IF isFree THEN Goes(p, "skip") ELSE Ends(p)
    /\ UNCHANGED << item, list, outer >>

SkipFirst(p) ==
    /\ At(p, "skip")
    /\ queue' = Without({i \in First(Entries) : HasTurn(i)})
    /\ Goes(p, "notify")
    /\ UNCHANGED << item, holders, outer >>

-----------------------------------------------------------------------------
(* The baton *)

Candidates == {i \in Entries : queue[i].user \in reach}

Offered(p) == call[p].open /\ ~past /\ isFree

\* Faulty variant: whoever was told before is passed over.
NewInLine(S) == IF \E i \in S : ~HasTurn(i) THEN First({i \in S : ~HasTurn(i)}) ELSE First(S)

FirstInLine(S) == First(S)

\* notifyNext: one transaction under the lock of the item.  The baton is on
\* record before the person is told; nothing is done for a resource that is not
\* free or a queue nobody of which can be reached.
notifyNext(p) ==
    /\ At(p, "notify")
    /\ IF Offered(p) /\ Candidates # {}
       THEN \E i \in FirstInLine(Candidates) :
                /\ queue' = Marked(i, "running", FALSE)
                /\ call' = [call EXCEPT ![p] =
                       [Idle EXCEPT !.pc = "announce", !.entry = i, !.todo = call[p].todo]]
       ELSE UNCHANGED queue /\ Ends(p)
    /\ UNCHANGED << item, holders, outer >>

\* announceAvailable: the push is queued.  Its dedupe key carries notified_at, so
\* that an earlier push to the same entry never stands in for it.
announceAvailable(p) ==
    /\ At(p, "announce")
    /\ LET i == call[p].entry IN
       queue' = IF i \in Entries THEN Marked(i, queue[i].turn, HasTurn(i)) ELSE queue
    /\ Ends(p)
    /\ UNCHANGED << item, holders, outer >>

\* Faulty variant: the error is returned and the baton stays where it is.
KeepBaton(p) ==
    /\ At(p, "unannounce")
    /\ Ends(p)
    /\ UNCHANGED << item, list, outer >>

\* Takes the baton back from somebody who was not told: by id, whatever turn the
\* entry holds by now.
TakeBack(p) ==
    /\ At(p, "unannounce")
    /\ LET i == call[p].entry IN queue' = IF i \in Entries THEN Marked(i, "none", FALSE) ELSE queue
    /\ Ends(p)
    /\ UNCHANGED << item, holders, outer >>

-----------------------------------------------------------------------------
(* The scheduler *)

\* The first statement of Tick: the queue of a slot that started is dropped.
Tick(p) ==
    /\ p \in Schedulers /\ At(p, "idle")
    /\ queue' = IF slot /\ past THEN Without(Entries) ELSE queue
    /\ Goes(p, "due")
    /\ UNCHANGED << item, holders, outer >>

\* ExpireWaitlistTurns: the entries whose turn is over now.
ExpireWaitlistTurns(p) ==
    /\ At(p, "due")
    /\ LET ids == {i \in Entries : queue[i].turn = "over"} IN
       call' = [call EXCEPT ![p] = IF ids = {} THEN Idle ELSE [Idle EXCEPT !.pc = "next", !.todo = ids]]
    /\ UNCHANGED << item, list, outer >>

\* The reads at the start of expireTurn.
LoadTurn(p, i) ==
    /\ At(p, "next") /\ i \in call[p].todo
    /\ LET rest == call[p].todo \ {i} IN
       call' = [call EXCEPT ![p] =
           IF i \in Entries
           THEN [Idle EXCEPT !.pc = "expire", !.open = active, !.entry = i, !.todo = rest]
           ELSE IF rest = {} THEN Idle ELSE [Idle EXCEPT !.pc = "next", !.todo = rest]]
    /\ UNCHANGED << item, list, outer >>

\* Faulty variant: the turn is not looked at again under the lock.
WasListed(p) == call[p].entry \in Entries

Held(p) == call[p].entry \in Entries /\ queue[call[p].entry].turn = "over"

\* Faulty variant: the turn stays with its person when the resource is taken.
KeepTurn(p) ==
    /\ At(p, "expire")
    /\ IF Held(p) /\ Offered(p) THEN queue' = Without({call[p].entry}) /\ Goes(p, "notify")
       ELSE UNCHANGED queue /\ Ends(p)
    /\ UNCHANGED << item, holders, outer >>

\* expireTurn, under the lock of the item: the person is dropped when the resource
\* is still on offer, and keeps a place without the baton when it is not.
expireTurn(p) ==
    /\ At(p, "expire")
    /\ IF ~Held(p) THEN UNCHANGED queue /\ Ends(p)
       ELSE IF Offered(p) THEN queue' = Without({call[p].entry}) /\ Goes(p, "notify")
       ELSE queue' = Marked(call[p].entry, "none", FALSE) /\ Ends(p)
    /\ UNCHANGED << item, holders, outer >>

-----------------------------------------------------------------------------
(* Faults, time and the rest of the system *)

Trouble(why) ==
    /\ trouble < MaxTrouble
    /\ trouble' = trouble + 1
    /\ excuse' = excuse \cup {why}

\* The process dies, a statement fails, or the deadline of the tick passes.
Stops(p) ==
    /\ ~At(p, "idle") /\ Trouble("stopped")
    /\ call' = [call EXCEPT ![p] = Idle]
    /\ UNCHANGED << item, list, reach >>

\* The push could not be queued.
AnnounceFails(p) ==
    /\ At(p, "announce") /\ Trouble("other")
    /\ call' = [call EXCEPT ![p].pc = "unannounce"]
    /\ UNCHANGED << item, list, reach >>

TurnRunsOut(i) ==
    /\ i \in Entries /\ queue[i].turn = "running"
    /\ queue' = Marked(i, "over", queue[i].told)
    /\ UNCHANGED << item, holders, call, outer >>

SlotStarts ==
    /\ slot /\ ~past
    /\ past' = TRUE
    /\ UNCHANGED << slot, active, list, call, outer >>

\* The item goes into maintenance, or comes back from it.
SetStatus ==
    /\ Trouble("other")
    /\ active' = ~active
    /\ UNCHANGED << slot, past, list, reach, call >>

\* A device, a session, a permission or a preference changes.
ReachChanges(u) ==
    /\ Trouble("reach")
    /\ reach' = IF u \in reach THEN reach \ {u} ELSE reach \cup {u}
    /\ UNCHANGED << item, list, call >>

\* The account goes, and its entries with it; a reservation would keep it.
DeleteAccount(u) ==
    /\ Trouble("other")
    /\ u \notin holders /\ EntriesOf(u) # {}
    /\ queue' = Without(EntriesOf(u))
    /\ UNCHANGED << item, holders, reach, call >>

-----------------------------------------------------------------------------
(* Specification *)

\* The transactions of requests and schedulers.
CallStep(p) ==
    \/ Join(p) \/ Reserve(p) \/ CreateReservation(p) \/ ForgetInterest(p)
    \/ Remove(p) \/ Cancel(p) \/ Revoke(p) \/ Load(p)
    \/ AdminAdvance(p) \/ SkipFirst(p)
    \/ notifyNext(p) \/ announceAvailable(p) \/ TakeBack(p)

NewRequest(p) ==
    \/ \E op \in UserRequest, u \in Users : Begin(p, op, u)
    \/ \E op \in AdminRequest : Begin(p, op, None)
    \/ \E u \in Users : EndReservation(p, u)
    \/ \E i \in Entries : AdminRemove(p, i)

SchedulerStep(p) ==
    \/ Tick(p)
    \/ ExpireWaitlistTurns(p)
    \/ \E i \in call[p].todo : LoadTurn(p, i)
    \/ expireTurn(p)
    \/ CallStep(p)

Environment ==
    \/ SlotStarts
    \/ SetStatus
    \/ \E u \in Users : ReachChanges(u) \/ DeleteAccount(u)
    \/ \E i \in Entries : TurnRunsOut(i)

Next ==
    \/ \E p \in Requests : NewRequest(p) \/ CallStep(p)
    \/ \E p \in Schedulers : SchedulerStep(p)
    \/ \E p \in Calls : Stops(p) \/ AnnounceFails(p)
    \/ Environment

Spec == Init /\ [][Next]_vars

\* The scheduler ticks every minute and its statements end; time passes.
Fairness ==
    /\ \A p \in Schedulers : WF_vars(SchedulerStep(p))
    /\ WF_vars(\E i \in Entries : TurnRunsOut(i))

FairSpec == Spec /\ Fairness

-----------------------------------------------------------------------------
(* What must hold *)

\* A booking and a Reserve of the same resource never both succeed, whatever the
\* requests read before they took the lock (reservation_repository.go:579).
OneBooking == \A u, v \in holders : u = v

\* The baton is not lost: a resource on offer, with somebody in its queue who
\* can be reached, is in somebody's turn or about to be, unless a call stopped
\* half-way, a push was refused, the item, a user's devices or an account
\* changed, or a direct booking that had already been given back forgot the turn
\* of its author (Remove, Cancel, expireTurn, SkipFirst against all others).
NobodyForgotten ==
    isFree /\ active /\ ~past /\ Candidates # {} /\ excuse = {} =>
        \/ \E i \in Entries : HasTurn(i)
        \/ \E p \in Calls : call[p].pc \in {"load", "notify"}

\* Nobody holds the baton without having heard of it, or being about to, also when
\* pushes are refused: only a process that stops between the two leaves such a turn.
TurnsAreHeardOf ==
    \A i \in Entries : HasTurn(i) /\ "stopped" \notin excuse =>
        \/ queue[i].told
        \/ \E p \in Calls : call[p].pc \in {"announce", "unannounce"} /\ call[p].entry = i

\* One person at a time is asked, as long as nobody's devices change.
OneTurn == "reach" \notin excuse => \A i, j \in Entries : HasTurn(i) /\ HasTurn(j) => i = j

\* A turn that is still running is not ended by a scheduler, although it listed the
\* expired turns before: the turn may have been given again since.
RunningTurnsAreKept ==
    [][\A p \in Schedulers : At(p, "expire") =>
          \A i \in Entries : i = call[p].entry /\ queue[i].turn = "running"
                              /\ queue'[i].turn # "running" => call'[p] = call[p]]_vars

\* The rows, as the people in the line see them.
Waiting == {u \in Users : EntriesOf(u) # {}}
CameBefore(v, u) == \E i \in EntriesOf(u), j \in EntriesOf(v) : j \in queue[i].ahead
Order == {p \in Users \X Users : CameBefore(p[1], p[2])}
Asked == {u \in Users : \E i \in EntriesOf(u) : HasTurn(i)}
Line == INSTANCE WaitingLine WITH People <- Users, holding <- holders, waiting <- Waiting,
                                  before <- Order, asked <- Asked, reachable <- reach

\* The waiting list keeps the promise of WaitingLine, whatever interleaves: one booking at a
\* time, nobody's place changes, and a turn is given while the resource is free, to the first
\* person who can be reached then; who can be is looked at in one moment (waitlist.go:321).
KeepsTheLine == Line!LineSpec

\* A turn that is over ends: its person answers, is dropped, gives the baton back
\* or is given a new turn; a queue never waits for ever for somebody.
EveryTurnEnds ==
    \A u \in Users :
        (\E i \in EntriesOf(u) : queue[i].turn = "over") ~> ~(\E i \in EntriesOf(u) : queue[i].turn = "over")

\* What 00041_reservation_reminders_waitlist.sql:22 says: notified_at is set while
\* the user holds the baton, of which a queue has one (waitlist.go:321: "tells the
\* first person of the queue that the resource is free, and nobody else").
OneTurnAtATime == \A i, j \in Entries : HasTurn(i) /\ HasTurn(j) => i = j

=============================================================================
