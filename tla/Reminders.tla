------------------------------ MODULE Reminders ------------------------------
(***************************************************************************)
(* The reminders of reservations (services/reservations/reminders.go): the *)
(* schedulers of all replicas claim a milestone with an insert whose key   *)
(* is (booking, milestone), then queue the push, and release the claim     *)
(* when the push could not be queued.  A step is one statement or one call *)
(* of the notification service.                                            *)
(***************************************************************************)
EXTENDS Naturals

CONSTANTS
    SlotBookings, LoanBookings,   \* reservations of slot items, and loans
    Replicas,                     \* reservation schedulers
    MaxReminderTrouble            \* bound: failures and passed deadlines

ASSUME RemindersAssumption == MaxReminderTrouble \in Nat

AllBookings == SlotBookings \cup LoanBookings

VARIABLES
    booking,        \* rows of reservation
    claimed,        \* rows of reservation_reminders
    queued,         \* pushes stored, by dedupe key; counted
    tick,           \* calls of SendDueReminders under way
    lostClaims,     \* history: claims nobody will send nor release
    reminderTrouble

reminderVars == << booking, claimed, queued, tick, lostClaims, reminderTrouble >>

-----------------------------------------------------------------------------
(* State *)

\* Ages of a slot reservation: before the hour ahead of the slot, within it but
\* not in its last half, later.  Ages of a loan: before the first day, on it,
\* until the fifth, on it, until the seventh, on it, later.
LastAge == 6
DueAt == [slot_1h |-> 1, loan_d1 |-> 1, loan_d5 |-> 3, loan_d7 |-> 5]
loanMilestones == << "loan_d1", "loan_d5", "loan_d7" >>
Milestones == DOMAIN DueAt

\* late: made less than an hour before the slot (created_at).
Booking == [open : {"none", "open", "returned"}, age : 0 .. LastAge, late : BOOLEAN]
NoBooking == [open |-> "none", age |-> 0, late |-> FALSE]

Claims == {c \in AllBookings \X Milestones : (c[2] = "slot_1h") = (c[1] \in SlotBookings)}

\* step 0 claims the slots, step i the loans of the i-th milestone; then the
\* reminders in due are sent one by one, at the one whose push was refused.
TickState == [pc : {"idle", "claim", "send", "refused"}, step : 0 .. 3, due : SUBSET Claims,
              at : SUBSET Claims]
NoTick == [pc |-> "idle", step |-> 0, due |-> {}, at |-> {}]

RemindersTypeOK ==
    /\ booking \in [AllBookings -> Booking]
    /\ claimed \subseteq Claims
    /\ queued \in [Claims -> 0 .. 2]
    /\ tick \in [Replicas -> TickState]
    /\ lostClaims \subseteq Claims
    /\ reminderTrouble \in 0 .. MaxReminderTrouble

RemindersInit ==
    /\ booking = [b \in AllBookings |-> NoBooking]
    /\ claimed = {}
    /\ queued = [c \in Claims |-> 0]
    /\ tick = [r \in Replicas |-> NoTick]
    /\ lostClaims = {}
    /\ reminderTrouble = 0

TickGoes(r, t) == tick' = [tick EXCEPT ![r] = t]
ReminderTrouble == reminderTrouble < MaxReminderTrouble /\ reminderTrouble' = reminderTrouble + 1

-----------------------------------------------------------------------------
(* Reservations come, go and grow old *)

\* A slot may be reserved less than an hour before it starts; a loan starts now.
MakeBooking(b) ==
    /\ booking[b].open = "none" /\ booking[b].age \in {0, 1}
    /\ booking' = [booking EXCEPT ![b].open = "open", ![b].late = booking[b].age > 0]
    /\ UNCHANGED << claimed, queued, tick, lostClaims, reminderTrouble >>

\* A loan is returned: the row stays, with an end date.
ReturnLoan(b) ==
    /\ b \in LoanBookings /\ booking[b].open = "open"
    /\ booking' = [booking EXCEPT ![b].open = "returned"]
    /\ UNCHANGED << claimed, queued, tick, lostClaims, reminderTrouble >>

\* A slot is cancelled: its reminders go with the row.
CancelSlot(b) ==
    /\ b \in SlotBookings /\ booking[b].open = "open"
    /\ booking' = [booking EXCEPT ![b].open = "none"]
    /\ claimed' = {c \in claimed : c[1] # b}
    /\ lostClaims' = {c \in lostClaims : c[1] # b}
    /\ UNCHANGED << queued, tick, reminderTrouble >>

BookingAges(b) ==
    /\ b \in LoanBookings => booking[b].open # "none"
    /\ booking[b].age < IF b \in SlotBookings THEN 2 ELSE LastAge
    /\ booking' = [booking EXCEPT ![b].age = @ + 1]
    /\ UNCHANGED << claimed, queued, tick, lostClaims, reminderTrouble >>

-----------------------------------------------------------------------------
(* SendDueReminders *)

IsDue(c) ==
    LET b == booking[c[1]] IN b.open = "open" /\ b.age = DueAt[c[2]] /\ ~b.late

Step(i) == {c \in Claims : c[2] = IF i = 0 THEN "slot_1h" ELSE loanMilestones[i]}
AfterClaims(t) == IF t.due = {} THEN NoTick ELSE [t EXCEPT !.pc = "send", !.step = 0]

\* claim: the insert skips what is already there and returns what it added.
claim(r, i) ==
    LET new == {c \in Step(i) : IsDue(c)} \ claimed
        due == tick[r].due \cup new
    IN /\ claimed' = claimed \cup new
       /\ TickGoes(r, IF i < 3 THEN [pc |-> "claim", step |-> i + 1, due |-> due, at |-> {}]
                      ELSE AfterClaims([NoTick EXCEPT !.due = due]))
       /\ UNCHANGED << booking, queued, lostClaims, reminderTrouble >>

\* SendDueReminders: the slots, then the loans of each milestone.
SendDueReminders(r) ==
    \/ tick[r].pc = "idle" /\ claim(r, 0)
    \/ tick[r].pc = "claim" /\ claim(r, tick[r].step)

\* A claim of a later milestone fails: the call returns, and neither sends nor
\* releases what the earlier ones inserted.
ClaimQueryFails(r) ==
    /\ tick[r].pc = "claim" /\ ReminderTrouble
    /\ lostClaims' = lostClaims \cup (tick[r].due \cap claimed)
    /\ TickGoes(r, NoTick)
    /\ UNCHANGED << booking, claimed, queued >>

\* Faulty variant: the push has no key that names the milestone and the booking.
StoreAgain(c) == queued' = [queued EXCEPT ![c] = IF @ < 2 THEN @ + 1 ELSE @]

\* The push is stored unless one of the same key is.
StorePush(c) == queued' = [queued EXCEPT ![c] = 1]

sendReminder(r, c) ==
    /\ tick[r].pc = "send" /\ c \in tick[r].due
    /\ StorePush(c)
    /\ TickGoes(r, AfterClaims([tick[r] EXCEPT !.due = @ \ {c}]))
    /\ UNCHANGED << booking, claimed, lostClaims, reminderTrouble >>

\* Announce returns an error; its insert may have been committed all the same.
PushRefused(r, c) ==
    /\ tick[r].pc = "send" /\ c \in tick[r].due /\ ReminderTrouble
    /\ StorePush(c) \/ UNCHANGED queued
    /\ TickGoes(r, [tick[r] EXCEPT !.pc = "refused", !.due = @ \ {c}, !.at = {c}])
    /\ UNCHANGED << booking, claimed, lostClaims >>

\* Faulty variant: the error is logged and the claim stays.
KeepClaim(r) ==
    /\ tick[r].pc = "refused"
    /\ TickGoes(r, AfterClaims([tick[r] EXCEPT !.at = {}]))
    /\ UNCHANGED << booking, claimed, queued, lostClaims, reminderTrouble >>

release(r) ==
    /\ tick[r].pc = "refused"
    /\ claimed' = claimed \ tick[r].at
    /\ TickGoes(r, AfterClaims([tick[r] EXCEPT !.at = {}]))
    /\ UNCHANGED << booking, queued, lostClaims, reminderTrouble >>

\* The process dies, or the deadline of the tick passes: every statement left to
\* run, the releases included, has the same context and fails with it.
TickStops(r) ==
    /\ tick[r].pc # "idle" /\ ReminderTrouble
    /\ lostClaims' = lostClaims \cup ((tick[r].due \cup tick[r].at) \cap claimed)
    /\ TickGoes(r, NoTick)
    /\ UNCHANGED << booking, claimed, queued >>

-----------------------------------------------------------------------------
(* Specification *)

RemindersNext ==
    \/ \E b \in AllBookings :
        \/ MakeBooking(b) \/ ReturnLoan(b) \/ CancelSlot(b) \/ BookingAges(b)
    \/ \E r \in Replicas :
        \/ SendDueReminders(r) \/ ClaimQueryFails(r)
        \/ \E c \in Claims : sendReminder(r, c) \/ PushRefused(r, c)
        \/ release(r) \/ TickStops(r)

RemindersSpec == RemindersInit /\ [][RemindersNext]_reminderVars

-----------------------------------------------------------------------------
(* What must hold *)

\* A milestone of a booking is pushed once: never again, although schedulers race and a
\* push that was stored may come back as an error and its claim be released, and never
\* claimed and left out: only a process that dies, a deadline, or a query that fails
\* after another one claimed leaves a row whose reminder nobody sends
\* (docs/notifications.md:161, reminders.go:75).
RemindedOnce ==
    /\ \A c \in Claims : queued[c] <= 1
    /\ \A c \in claimed \ lostClaims :
          \/ queued[c] = 1
          \/ \E r \in Replicas : c \in tick[r].due \cup tick[r].at

=============================================================================
