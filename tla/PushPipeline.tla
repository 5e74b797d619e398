---------------------------- MODULE PushPipeline ----------------------------
(***************************************************************************)
(* The delivery pipeline of push notifications (services/push): an outbox  *)
(* of messages, one delivery row per message and device, and workers that  *)
(* claim rows under a lease, hand them to the provider and record what it  *)
(* answers.  Every action is one database statement or one transaction, or *)
(* one call of the provider; workers interleave between them, may stop at  *)
(* any point, and may be slower than their lease.                          *)
(*                                                                         *)
(* Time is not counted.  A deadline that a query compares with now() is a  *)
(* flag that an action of its own raises: expired (expires_at), due        *)
(* (next_attempt_at of a pending row, receipt_due_at of an accepted one),  *)
(* lease (lease_until) and old (accepted_at older than ReceiptTTL).        *)
(***************************************************************************)
EXTENDS Naturals, FiniteSets

CONSTANTS
    Messages,          \* rows push_messages may ever hold
    Devices,           \* installations
    Users,             \* accounts
    Tokens,            \* push tokens the provider hands out
    Workers,           \* pipeline workers, one per replica of the server
    AudienceOf,        \* [Messages -> SUBSET Users], the stored audience
    KeyOf,             \* [Messages -> dedupe keys or None]
    None,              \* SQL NULL
    DevicesAtStart,    \* the contents of devices when the workers start
    DeadAtStart,       \* the tokens that no longer work by then
    MaxAttempts,       \* PUSH_MAX_ATTEMPTS
    ClaimSize,         \* rows a worker claims in one round
    BatchSize,         \* messages in one request to the provider
    MaxFanOut,         \* maxFanOutPerRun
    MaxRounds,         \* maxRoundsPerRun
    MaxReceiptRounds,  \* maxReceiptRounds
    MaxFaults,         \* bound: failed statements and crashes in a behaviour
    MaxChurn           \* bound: changes made to devices and tokens from outside

ASSUME AudienceAssumption == AudienceOf \in [Messages -> SUBSET Users]
ASSUME NoneAssumption == None \notin Users \cup Tokens
ASSUME DevicesAssumption ==
    DevicesAtStart \subseteq [Devices ->
        [owner : Users \cup {None}, token : Tokens \cup {None}, able : BOOLEAN]]
ASSUME DeadAssumption == DeadAtStart \subseteq Tokens
ASSUME AttemptsAssumption == MaxAttempts \in Nat \ {0}
ASSUME BatchAssumption == BatchSize \in Nat \ {0}

VARIABLES
    message,    \* push_messages.status, "absent" before the row, "purged" after
    expired,    \* the messages whose expires_at has passed
    delivery,   \* the row of push_deliveries of each message and device
    device,     \* what the pipeline reads of each row of devices
    dead,       \* tokens the provider knows to be dead
    phase,      \* the step of RunOnce each worker is in
    rounds,     \* the rounds it has done in that step
    hand,       \* the rows it works on, as the Go slices hold them
    sends,      \* history: the claims sent in a request that was not refused whole
    taken,      \* history: those whose push the provider took
    recorded,   \* history: the claim whose outcome was recorded last
    doubt,      \* history: deliveries that may legitimately be sent twice
    faults,     \* faults spent
    churn       \* changes from outside spent

rows == << message, expired, delivery >>
outside == << device, dead >>
local == << phase, rounds, hand >>
history == << sends, taken, recorded, doubt >>
budget == << faults, churn >>
vars == << rows, outside, local, history, budget >>

-----------------------------------------------------------------------------
(* State *)

MessageStatus == {"absent", "pending", "fanned_out", "completed", "cancelled", "purged"}
OpenStatus == {"pending", "sending", "accepted"}
FinalStatus == {"handed_off", "failed", "skipped", "expired", "unconfirmed"}

Deliveries == Messages \X Devices

\* The columns the pipeline reads back.  owner is user_email, ticket the claim
\* whose push got ticket_id (0 is NULL), token stands for token_fingerprint.
Row == [status : OpenStatus \cup FinalStatus \cup {"absent"},
        attempts : 0 .. MaxAttempts, due : BOOLEAN,
        lease : {"null", "running", "over"},
        owner : Users \cup {None}, ticket : 0 .. MaxAttempts,
        token : Tokens \cup {None}, old : BOOLEAN]

NoRow == [status |-> "absent", attempts |-> 0, due |-> FALSE, lease |-> "null",
          owner |-> None, ticket |-> 0, token |-> None, old |-> FALSE]

\* able stands for a session in state connected or active, a permission that
\* is not denied and the category switched on by the owner.
DeviceRow == [owner : Users \cup {None}, token : Tokens \cup {None}, able : BOOLEAN]
NoDevice == [owner |-> None, token |-> None, able |-> FALSE]

Phase == {"fanout", "dispatch", "receipts", "complete", "purge"}
Step == {"claimed", "settle", "send", "record", "ask", "apply", "disable"}
Result == {"none", "expired", "skipped", "accepted", "unticketed", "invalid",
           "retry", "rejected", "handed_off", "missing", "failed"}

\* One element of the slices claims, items and batch: the row, the value of
\* attempts read by the claim, the next thing to do, what was read, and the size
\* of the largest request that may still carry its push.
Item == [x : Deliveries, n : 0 .. MaxAttempts, step : Step, res : Result,
         token : Tokens \cup {None}, old : BOOLEAN, expired : BOOLEAN,
         part : 1 .. BatchSize]

TypeOK ==
    /\ message \in [Messages -> MessageStatus]
    /\ expired \subseteq Messages
    /\ delivery \in [Deliveries -> Row]
    /\ device \in [Devices -> DeviceRow]
    /\ dead \subseteq Tokens
    /\ phase \in [Workers -> Phase]
    /\ rounds \in [Workers -> Nat]
    /\ hand \in [Workers -> SUBSET Item]
    /\ sends \in [Deliveries -> SUBSET (0 .. MaxAttempts)]
    /\ taken \in [Deliveries -> SUBSET (0 .. MaxAttempts)]
    /\ recorded \in [Deliveries -> 0 .. MaxAttempts]
    /\ doubt \subseteq Deliveries
    /\ faults \in Nat
    /\ churn \in Nat

Init ==
    /\ message = [m \in Messages |-> "absent"]
    /\ expired = {}
    /\ delivery = [x \in Deliveries |-> NoRow]
    /\ device \in DevicesAtStart
    /\ dead = DeadAtStart
    /\ phase = [w \in Workers |-> "fanout"]
    /\ rounds = [w \in Workers |-> 0]
    /\ hand = [w \in Workers |-> {}]
    /\ sends = [x \in Deliveries |-> {}]
    /\ taken = [x \in Deliveries |-> {}]
    /\ recorded = [x \in Deliveries |-> 0]
    /\ doubt = {}
    /\ faults = 0
    /\ churn = 0

-----------------------------------------------------------------------------
(* Producers *)

\* The rows the unique index on dedupe_key compares with.
Stored(m) == message[m] \notin {"absent", "purged"}

SameKey(m, n) == KeyOf[m] # None /\ KeyOf[m] = KeyOf[n]

\* ON CONFLICT (dedupe_key) DO NOTHING: a duplicate leaves every row alone.
Enqueue(m) ==
    /\ message[m] = "absent"
    /\ \A n \in Messages : Stored(n) => ~SameKey(m, n)
    /\ message' = [message EXCEPT ![m] = "pending"]
    /\ UNCHANGED << expired, delivery, outside, local, history, budget >>

-----------------------------------------------------------------------------
(* One worker: RunOnce is fan-out, dispatch, receipts, completion *)

\* Moves worker w to another step of its run with nothing in hand.
Enter(w, p) ==
    /\ phase' = [phase EXCEPT ![w] = p]
    /\ rounds' = [rounds EXCEPT ![w] = 0]
    /\ hand' = [hand EXCEPT ![w] = {}]

\* Another round of the same step, with the items S in hand.
Round(w, S) ==
    /\ rounds' = [rounds EXCEPT ![w] = @ + 1]
    /\ hand' = [hand EXCEPT ![w] = S]
    /\ UNCHANGED phase

\* SKIP LOCKED: what another worker's statement holds looks done to this one.
Busy(w) == \E v \in Workers \ {w} : phase[v] = phase[w]

eligible(d) == device[d].able /\ device[d].token # None

\* The devices the audience resolves to now.
Resolve(m) == {d \in Devices : device[d].owner \in AudienceOf[m] /\ eligible(d)}

FreshRow(d) == [NoRow EXCEPT !.status = "pending", !.due = TRUE, !.owner = device[d].owner]

\* One transaction under the lock of the message row.  The start of a message
\* that is set to go out later (not_before) is left out: no producer sets it.
FanOutOne(w, m) ==
    /\ phase[w] = "fanout" /\ rounds[w] < MaxFanOut
    /\ message[m] = "pending"
    /\ IF m \in expired
       THEN /\ message' = [message EXCEPT ![m] = "cancelled"]
            /\ UNCHANGED delivery
       ELSE /\ message' = [message EXCEPT ![m] = "fanned_out"]
            /\ delivery' = [x \in Deliveries |->
                   IF x[1] = m /\ x[2] \in Resolve(m) THEN FreshRow(x[2]) ELSE delivery[x]]
    /\ Round(w, {})
    /\ UNCHANGED << expired, outside, history, budget >>

\* Faulty variant: compares with > and never gives up the last attempt.
InterruptedTooLate(x) ==
    delivery[x].status = "sending" /\ delivery[x].lease = "over"
        /\ delivery[x].attempts > MaxAttempts

\* A delivery that ran out of attempts while its worker held it.
Interrupted(x) ==
    /\ delivery[x].status = "sending"
    /\ delivery[x].lease = "over"
    /\ delivery[x].attempts >= MaxAttempts

\* The first statement of dispatch.
CloseInterrupted ==
    delivery' = [x \in Deliveries |->
        IF Interrupted(x) THEN [delivery[x] EXCEPT !.status = "failed", !.lease = "null"]
        ELSE delivery[x]]

\* The end of the fan-out loop and the first statement of dispatch.
BeginDispatch(w) ==
    /\ phase[w] = "fanout"
    /\ rounds[w] = MaxFanOut \/ Busy(w) \/ \A m \in Messages : message[m] # "pending"
    /\ CloseInterrupted
    /\ Enter(w, "dispatch")
    /\ UNCHANGED << message, expired, outside, history, budget >>

\* Faulty variants: a claim that ignores the lease, and one that counts no limit.
ClaimableUnderLease(x) ==
    /\ delivery[x].attempts < MaxAttempts
    /\ delivery[x].status \in {"pending", "sending"}

ClaimableForEver(x) ==
    \/ /\ delivery[x].status = "pending" /\ delivery[x].due
    \/ /\ delivery[x].status = "sending" /\ delivery[x].lease = "over"

Claimable(x) ==
    /\ delivery[x].attempts < MaxAttempts
    /\ \/ delivery[x].status = "pending" /\ delivery[x].due
       \/ delivery[x].status = "sending" /\ delivery[x].lease = "over"

Fresh(x, n, step) == [x |-> x, n |-> n, step |-> step, res |-> "none",
                      token |-> None, old |-> FALSE, expired |-> FALSE, part |-> BatchSize]

\* FOR UPDATE SKIP LOCKED LIMIT ClaimSize: rows another transaction holds are
\* left out, so the claim takes some of the rows that qualify.
Claim(w, S) ==
    /\ phase[w] = "dispatch" /\ hand[w] = {} /\ rounds[w] < MaxRounds
    /\ S # {} /\ Cardinality(S) <= ClaimSize
    /\ \A x \in S : Claimable(x)
    /\ delivery' = [x \in Deliveries |->
           IF x \in S THEN [delivery[x] EXCEPT !.status = "sending", !.lease = "running",
                                               !.attempts = @ + 1]
           ELSE delivery[x]]
    /\ Round(w, {Fresh(x, delivery[x].attempts + 1, "claimed") : x \in S})
    /\ UNCHANGED << message, expired, outside, history, budget >>

\* What the second eligibility check makes of a claimed row.
Recheck(i) ==
    LET d == i.x[2] IN
    IF delivery[i.x].status = "absent" THEN [i EXCEPT !.step = "settle", !.res = "skipped"]
    ELSE IF i.x[1] \in expired THEN [i EXCEPT !.step = "settle", !.res = "expired"]
    ELSE IF device[d].owner # delivery[i.x].owner \/ ~eligible(d)
         THEN [i EXCEPT !.step = "settle", !.res = "skipped"]
         ELSE [i EXCEPT !.step = "send", !.token = device[d].token]

\* The query of process: one snapshot for every claimed row.
Process(w) ==
    /\ phase[w] = "dispatch"
    /\ \E i \in hand[w] : i.step = "claimed"
    /\ hand' = [hand EXCEPT ![w] = {Recheck(i) : i \in @}]
    /\ UNCHANGED << rows, outside, phase, rounds, history, budget >>

Drop(w, i) == hand' = [hand EXCEPT ![w] = @ \ {i}]
Replace(w, i, j) == hand' = [hand EXCEPT ![w] = (@ \ {i}) \cup {j}]

Finish(row, status) == [row EXCEPT !.status = status, !.lease = "null"]

\* Faulty variant: WHERE id = $1 only.
WhateverStatus(x, row) == delivery' = [delivery EXCEPT ![x] = row]

\* The UPDATEs of dispatch: WHERE id = $1 AND status = 'sending'.
WhileSending(x, row) ==
    delivery' = IF delivery[x].status = "sending" THEN [delivery EXCEPT ![x] = row] ELSE delivery

Settle(w, i) ==
    /\ i \in hand[w] /\ i.step = "settle"
    /\ WhileSending(i.x, Finish(delivery[i.x], i.res))
    /\ Drop(w, i)
    /\ UNCHANGED << message, expired, outside, phase, rounds, history, budget >>

\* What the provider makes of a request: a result for each message, or one
\* verdict for them all.  "lost" is a request that failed on the network after
\* the provider took its messages, "malformed" a success without a ticket for
\* each message, which Send reports as taken without a ticket.
Answers(chunk) ==
    [chunk -> {"accepted", "unticketed", "invalid", "retry", "rejected"}]
    \cup {[i \in chunk |-> verdict] : verdict \in {"retry", "rejected", "lost", "malformed"}}

Takes(a) == a \in {"accepted", "unticketed", "lost"}
Reported(a) ==
    CASE a = "lost"      -> "retry"
      [] a = "malformed" -> "unticketed"
      [] OTHER           -> a
ClaimsOf(chunk, x) == {i.n : i \in {j \in chunk : j.x = x}}

\* Faulty variant: what the provider cannot take now is sent again at once.
SentUntilTaken(chunk, answer) ==
    {IF answer[i] = "retry" THEN i
     ELSE [i EXCEPT !.step = "record", !.res = Reported(answer[i])] : i \in chunk}

Sent(chunk, answer) ==
    {[i EXCEPT !.step = "record", !.res = Reported(answer[i])] : i \in chunk}

\* A batch of the items to send, or a part of one that was refused.  The results
\* of a request are recorded before the next one goes out.
Request(w, chunk) ==
    /\ phase[w] = "dispatch"
    /\ chunk # {} /\ chunk \subseteq hand[w]
    /\ \A i \in hand[w] : i.step = "send"
    /\ \A i \in chunk : Cardinality(chunk) <= i.part

SendChunk(w, chunk) ==
    /\ Request(w, chunk)
    /\ \E answer \in Answers(chunk) :
          /\ \A i \in chunk : answer[i] = "invalid" => i.token \in dead
          /\ hand' = [hand EXCEPT ![w] = (@ \ chunk) \cup Sent(chunk, answer)]
          /\ taken' = [x \in Deliveries |->
                 taken[x] \cup ClaimsOf({i \in chunk : Takes(answer[i])}, x)]
          /\ doubt' = doubt \cup {i.x : i \in {j \in chunk : answer[j] = "lost"}}
    /\ sends' = [x \in Deliveries |-> sends[x] \cup ClaimsOf(chunk, x)]
    /\ UNCHANGED << rows, outside, phase, rounds, recorded, budget >>

\* The larger half of k messages.
Half(k) == k - k \div 2

Halves(chunk, k) == {[i EXCEPT !.part = Half(k)] : i \in chunk}

\* The provider refuses a request of k messages for good (Isolate) and takes none
\* of them: they are sent again, under the same claim, in two halves.  Which
\* message goes to which half is left open: any of them may be together.
RefuseChunk(w, chunk, k) ==
    /\ Request(w, chunk)
    /\ Cardinality(chunk) = k
    /\ hand' = [hand EXCEPT ![w] = (@ \ chunk) \cup Halves(chunk, k)]
    /\ UNCHANGED << rows, outside, phase, rounds, history, budget >>

\* Faulty variant: the fingerprint of the token is not stored.
AcceptNoToken(row, i) ==
    IF i.res = "unticketed" THEN Finish(row, "unconfirmed")
    ELSE [row EXCEPT !.status = "accepted", !.lease = "null", !.due = FALSE, !.old = FALSE,
                     !.ticket = i.n]

Accept(row, i) ==
    IF i.res = "unticketed"
    THEN [Finish(row, "unconfirmed") EXCEPT !.token = i.token, !.ticket = 0]
    ELSE [row EXCEPT !.status = "accepted", !.lease = "null", !.due = FALSE, !.old = FALSE,
                     !.ticket = i.n, !.token = i.token]

Fail(row, i) == [Finish(row, "failed") EXCEPT !.token = i.token]

RetryOrFail(row, i) ==
    IF i.n >= MaxAttempts THEN Fail(row, i)
    ELSE [row EXCEPT !.status = "pending", !.lease = "null", !.due = FALSE, !.token = i.token]

Outcome(row, i) ==
    CASE i.res \in {"accepted", "unticketed"} -> Accept(row, i)
      [] i.res = "retry"                      -> RetryOrFail(row, i)
      [] OTHER                                -> Fail(row, i)

\* accept, fail, retryOrFail and the first half of invalidate.
RecordResult(w, i) ==
    /\ i \in hand[w] /\ i.step = "record"
    /\ WhileSending(i.x, Outcome(delivery[i.x], i))
    /\ recorded' = IF delivery[i.x].status = "sending" THEN [recorded EXCEPT ![i.x] = i.n]
                   ELSE recorded
    /\ IF i.res = "invalid" THEN Replace(w, i, [i EXCEPT !.step = "disable"]) ELSE Drop(w, i)
    /\ UNCHANGED << message, expired, outside, phase, rounds, sends, taken, doubt, budget >>

\* Faulty variant: the fingerprint is not compared.
HoldsAny(i) == device[i.x[2]].token # None

Holds(i) == device[i.x[2]].token = i.token

\* devices.InvalidateToken: nothing happens when the device holds another token.
InvalidateToken(w, i) ==
    /\ i \in hand[w] /\ i.step = "disable"
    /\ device' = IF Holds(i)
                 THEN [device EXCEPT ![i.x[2]].token = None, ![i.x[2]].able = FALSE]
                 ELSE device
    /\ Drop(w, i)
    /\ UNCHANGED << rows, dead, phase, rounds, history, budget >>

EndDispatch(w) ==
    /\ phase[w] = "dispatch" /\ hand[w] = {}
    /\ rounds[w] = MaxRounds \/ Busy(w) \/ \A x \in Deliveries : ~Claimable(x)
    /\ Enter(w, "receipts")
    /\ UNCHANGED << rows, outside, history, budget >>

-----------------------------------------------------------------------------
(* Receipts *)

ReceiptDue(x) ==
    /\ delivery[x].status = "accepted" /\ delivery[x].ticket # 0
    /\ delivery[x].due /\ delivery[x].lease # "running"

ReceiptItem(x) ==
    [x |-> x, n |-> delivery[x].attempts, step |-> "ask", res |-> "none",
     token |-> delivery[x].token, old |-> delivery[x].old, expired |-> x[1] \in expired,
     part |-> BatchSize]

CollectReceipts(w, S) ==
    /\ phase[w] = "receipts" /\ hand[w] = {} /\ rounds[w] < MaxReceiptRounds
    /\ S # {} /\ \A x \in S : ReceiptDue(x)
    /\ delivery' = [x \in Deliveries |->
           IF x \in S THEN [delivery[x] EXCEPT !.lease = "running"] ELSE delivery[x]]
    /\ Round(w, {ReceiptItem(x) : x \in S})
    /\ UNCHANGED << message, expired, outside, history, budget >>

\* The UPDATEs of receipts: WHERE ... AND status = 'accepted'.
AskLater(row) == [row EXCEPT !.lease = "null", !.due = FALSE]

\* The receipts endpoint fails: every ticket is asked for again later and the
\* step ends with the error.
ReceiptsFail(w) ==
    /\ \E i \in hand[w] : i.step = "ask"
    /\ delivery' = [x \in Deliveries |->
           IF (\E i \in hand[w] : i.x = x) /\ delivery[x].status = "accepted"
           THEN AskLater(delivery[x]) ELSE delivery[x]]
    /\ Enter(w, "complete")
    /\ UNCHANGED << message, expired, outside, history, budget >>

ReceiptAnswer == {"handed_off", "invalid", "retry", "failed", "missing"}

ReceiptsAnswered(w) ==
    /\ \E i \in hand[w] : i.step = "ask"
    /\ \E answer \in [hand[w] -> ReceiptAnswer] :
          /\ \A i \in hand[w] : answer[i] = "invalid" => i.token \in dead
          /\ hand' = [hand EXCEPT ![w] =
                 {[i EXCEPT !.step = "apply", !.res = answer[i]] : i \in @}]
    /\ UNCHANGED << rows, outside, phase, rounds, history, budget >>

MayRetry(i) == i.n < MaxAttempts /\ ~i.expired

ReceiptOutcome(row, i) ==
    CASE i.res = "missing" /\ i.old      -> Finish(row, "unconfirmed")
      [] i.res = "missing" /\ ~i.old     -> AskLater(row)
      [] i.res = "handed_off"            -> Finish(row, "handed_off")
      [] i.res = "retry" /\ MayRetry(i)  -> [row EXCEPT !.status = "pending", !.lease = "null",
                                                        !.due = FALSE, !.ticket = 0]
      [] OTHER                           -> Finish(row, "failed")

\* One row of applyReceipts.
ApplyReceipt(w, i) ==
    /\ i \in hand[w] /\ i.step = "apply"
    /\ delivery' = IF delivery[i.x].status = "accepted"
                   THEN [delivery EXCEPT ![i.x] = ReceiptOutcome(@, i)] ELSE delivery
    /\ doubt' = IF i.res = "retry" /\ MayRetry(i) /\ delivery[i.x].status = "accepted"
                THEN doubt \cup {i.x} ELSE doubt
    /\ IF i.res = "invalid" THEN Replace(w, i, [i EXCEPT !.step = "disable"]) ELSE Drop(w, i)
    /\ UNCHANGED << message, expired, outside, phase, rounds, sends, taken, recorded, budget >>

EndReceipts(w) ==
    /\ phase[w] = "receipts" /\ hand[w] = {}
    /\ rounds[w] = MaxReceiptRounds \/ Busy(w) \/ \A x \in Deliveries : ~ReceiptDue(x)
    /\ Enter(w, "complete")
    /\ UNCHANGED << rows, outside, history, budget >>

-----------------------------------------------------------------------------
(* Completion and retention *)

\* Faulty variant: a delivery that waits for its receipt counts as settled.
AllHandedOver(m) ==
    \A d \in Devices : delivery[<<m, d>>].status \notin {"pending", "sending"}

AllSettled(m) == \A d \in Devices : delivery[<<m, d>>].status \notin OpenStatus

Complete(w) ==
    /\ phase[w] = "complete"
    /\ message' = [m \in Messages |->
           IF message[m] = "fanned_out" /\ AllSettled(m) THEN "completed" ELSE message[m]]
    /\ Enter(w, "purge")
    /\ UNCHANGED << expired, delivery, outside, history, budget >>

\* Any finished message may be older than the retention, none when the last
\* purge is less than an hour old.  Deleting a message deletes its deliveries.
Purge(w, S) ==
    /\ phase[w] = "purge"
    /\ \A m \in S : message[m] \in {"completed", "cancelled"}
    /\ message' = [m \in Messages |-> IF m \in S THEN "purged" ELSE message[m]]
    /\ delivery' = [x \in Deliveries |-> IF x[1] \in S THEN NoRow ELSE delivery[x]]
    /\ Enter(w, "fanout")
    /\ UNCHANGED << expired, outside, history, budget >>

-----------------------------------------------------------------------------
(* Faults *)

NextPhase == [fanout |-> "receipts", dispatch |-> "receipts", receipts |-> "complete",
              complete |-> "purge", purge |-> "fanout"]

\* A statement fails, or the provider returns the wrong number of results: the
\* step ends with its error, the rows in hand stay as they are, and the steps
\* that follow still run.  From fan-out it is the first statement of dispatch
\* that fails.
StepFails(w) ==
    /\ faults < MaxFaults
    /\ faults' = faults + 1
    /\ Enter(w, NextPhase[phase[w]])
    /\ UNCHANGED << rows, outside, history, churn >>

\* A statement of fan-out fails: its loop ends and dispatch begins.
FanOutFails(w) ==
    /\ phase[w] = "fanout" /\ faults < MaxFaults
    /\ faults' = faults + 1
    /\ CloseInterrupted
    /\ Enter(w, "dispatch")
    /\ UNCHANGED << message, expired, outside, history, churn >>

\* The process dies or panics and starts again with nothing in memory.
Crash(w) ==
    /\ faults < MaxFaults
    /\ faults' = faults + 1
    /\ Enter(w, "fanout")
    /\ UNCHANGED << rows, outside, history, churn >>

-----------------------------------------------------------------------------
(* The passage of time *)

MessageExpires(m) ==
    /\ Stored(m) /\ m \notin expired
    /\ expired' = expired \cup {m}
    /\ UNCHANGED << message, delivery, outside, local, history, budget >>

BecomesDue(x) ==
    /\ delivery[x].status \in {"pending", "accepted"} /\ ~delivery[x].due
    /\ delivery' = [delivery EXCEPT ![x].due = TRUE]
    /\ UNCHANGED << message, expired, outside, local, history, budget >>

LeaseRunsOut(x) ==
    /\ delivery[x].lease = "running"
    /\ delivery' = [delivery EXCEPT ![x].lease = "over"]
    /\ doubt' = IF delivery[x].status = "sending" THEN doubt \cup {x} ELSE doubt
    /\ UNCHANGED << message, expired, outside, local, sends, taken, recorded, budget >>

TicketAges(x) ==
    /\ delivery[x].status = "accepted" /\ ~delivery[x].old
    /\ delivery' = [delivery EXCEPT ![x].old = TRUE]
    /\ UNCHANGED << message, expired, outside, local, history, budget >>

-----------------------------------------------------------------------------
(* The devices service and the phones, seen from the pipeline *)

Outside ==
    /\ churn < MaxChurn
    /\ churn' = churn + 1
    /\ UNCHANGED << message, expired, local, history, faults >>

\* devices.Register: the row is created or taken over, its token leaves every
\* other installation that holds it.
Register(d, u, t) ==
    /\ Outside
    /\ \E able \in BOOLEAN :
          device' = [e \in Devices |->
              IF e = d THEN [owner |-> u, token |-> t, able |-> able]
              ELSE IF t # None /\ device[e].token = t
                   THEN [device[e] EXCEPT !.token = None, !.able = FALSE]
                   ELSE device[e]]
    /\ UNCHANGED << delivery, dead >>

\* devices.SignOut.
SignOut(d) ==
    /\ Outside
    /\ device[d].owner # None
    /\ device' = [device EXCEPT ![d].token = None, ![d].able = FALSE]
    /\ UNCHANGED << delivery, dead >>

\* A session expires, is revoked or is renewed, a permission or a preference
\* changes.
Reconsider(d) ==
    /\ Outside
    /\ device[d].owner # None
    /\ device' = [device EXCEPT ![d].able = ~@]
    /\ UNCHANGED << delivery, dead >>

\* The account is deleted: devices and their deliveries go with it.
DeleteAccount(u) ==
    /\ Outside
    /\ \E d \in Devices : device[d].owner = u
    /\ device' = [d \in Devices |-> IF device[d].owner = u THEN NoDevice ELSE device[d]]
    /\ delivery' = [x \in Deliveries |->
           IF device[x[2]].owner = u THEN NoRow ELSE delivery[x]]
    /\ UNCHANGED dead

\* The app is uninstalled: from now on the provider refuses its token.
TokenDies(t) ==
    /\ Outside
    /\ t \notin dead
    /\ dead' = dead \cup {t}
    /\ UNCHANGED << delivery, device >>

-----------------------------------------------------------------------------
(* Specification *)

DispatchStep(w) ==
    \/ BeginDispatch(w)
    \/ \E S \in SUBSET Deliveries : Claim(w, S)
    \/ Process(w)
    \/ \E i \in hand[w] : Settle(w, i)
    \/ \E chunk \in SUBSET hand[w] : SendChunk(w, chunk)
    \/ \E chunk \in SUBSET hand[w], k \in 2 .. BatchSize : RefuseChunk(w, chunk, k)
    \/ \E i \in hand[w] : RecordResult(w, i)
    \/ \E i \in hand[w] : InvalidateToken(w, i)
    \/ EndDispatch(w)

ReceiptStep(w) ==
    \/ \E S \in SUBSET Deliveries : CollectReceipts(w, S)
    \/ ReceiptsAnswered(w)
    \/ \E i \in hand[w] : ApplyReceipt(w, i)
    \/ EndReceipts(w)

RunStep(w) ==
    \/ \E m \in Messages : FanOutOne(w, m)
    \/ DispatchStep(w)
    \/ ReceiptStep(w)
    \/ Complete(w)
    \/ \E S \in SUBSET Messages : Purge(w, S)

Fault(w) == ReceiptsFail(w) \/ FanOutFails(w) \/ StepFails(w) \/ Crash(w)

Time ==
    \/ \E m \in Messages : MessageExpires(m)
    \/ \E x \in Deliveries : BecomesDue(x) \/ LeaseRunsOut(x) \/ TicketAges(x)

Environment ==
    \/ \E d \in Devices, u \in Users, t \in Tokens \cup {None} : Register(d, u, t)
    \/ \E d \in Devices : SignOut(d) \/ Reconsider(d)
    \/ \E u \in Users : DeleteAccount(u)
    \/ \E t \in Tokens : TokenDies(t)

Next ==
    \/ \E m \in Messages : Enqueue(m)
    \/ \E w \in Workers : RunStep(w) \/ Fault(w)
    \/ Time
    \/ Environment

Spec == Init /\ [][Next]_vars

\* The worker loop never stops, the clock advances, and the receipts endpoint
\* does not fail every time it is asked.
Fairness ==
    /\ \A w \in Workers : WF_vars(RunStep(w)) /\ SF_vars(ReceiptsAnswered(w))
    /\ \A x \in Deliveries : WF_vars(BecomesDue(x)) /\ WF_vars(LeaseRunsOut(x))
                             /\ WF_vars(TicketAges(x))

FairSpec == Spec /\ Fairness

-----------------------------------------------------------------------------
(* What must hold *)

\* A message is completed only when every delivery has its outcome, and a
\* message that is not fanned out has no delivery: complete and purge must not
\* overtake a worker that still holds one of its rows (worker.go, complete).
CompletedMeansSettled ==
    \A m \in Messages :
        /\ message[m] = "completed" =>
               \A d \in Devices : delivery[<<m, d>>].status \notin OpenStatus
        /\ message[m] \in {"absent", "pending", "cancelled", "purged"} =>
               \A d \in Devices : delivery[<<m, d>>].status = "absent"

\* A phone gets the same push twice only when nobody could know the first one
\* had been taken: the request failed on the network, a lease ran out before the
\* answer was recorded, or the receipt said that the platform should be asked
\* again (claim, accept, retryOrFail, applyReceipts).
SentOnceUnlessInDoubt ==
    \A x \in Deliveries : (\E a, b \in taken[x] : a # b) => x \in doubt

\* A delivery is never logged as taken without a push the provider took, and the
\* ticket of an accepted row is the ticket of such a push, whichever worker
\* recorded it (accept, finishReceipt).
EvidenceIsReal ==
    \A x \in Deliveries :
        /\ delivery[x].status = "handed_off" => taken[x] # {}
        /\ delivery[x].status = "accepted" =>
               delivery[x].ticket \in taken[x] /\ delivery[x].token # None

\* A claim whose push was in a request that the provider did not refuse whole is
\* never sent again, however workers interleave, crash or lose their lease, and
\* what is sent again after a refusal goes out in a smaller request: MaxAttempts
\* answers for a delivery at most, and BatchSize requests for each (claim,
\* process, sendChunk).
ClaimsAreAnsweredOnce ==
    [][\A w \in Workers : \A i \in hand[w], j \in hand'[w] :
          (i.step = "send" /\ i \notin hand'[w] /\ j.x = i.x /\ j.n = i.n)
              => i.n \notin sends[i.x] /\ (j.step = "send" => j.part < i.part)]_vars

\* The pipeline never takes away a token that works: news about an old token of
\* a device must not disable the one it registered since (invalidate,
\* devices.InvalidateToken).  A step that spends no churn is the pipeline's own.
OnlyDeadTokensDisabled ==
    [][\A d \in Devices : churn' = churn /\ device'[d] # device[d] => device[d].token \in dead]_vars

\* The public view of a delivery row.
Public(status) == IF status \in OpenStatus THEN "open" ELSE status

Log == INSTANCE DeliveryLog WITH
           Outcomes <- FinalStatus,
           status <- message,
           log <- [x \in Deliveries |-> Public(delivery[x].status)]

\* The pipeline keeps the promise of DeliveryLog: outcomes are recorded once and
\* never revised, whatever stale workers, late receipts and purges do.
KeepsTheLog == Log!LogSpec

\* Every message that is queued comes to an end.
EveryMessageEnds ==
    \A m \in Messages :
        message[m] = "pending" ~> message[m] \in {"completed", "cancelled", "purged"}

\* What worker.go:517 says of the updates of dispatch: a worker whose lease was
\* taken over does not overwrite what the new owner recorded.
OwnersRecordsStand == [][\A x \in Deliveries : recorded'[x] >= recorded[x]]_vars

\* What the migration says of status expired: the message expired before it was
\* sent.
ExpiredMeansNotSent ==
    \A x \in Deliveries : delivery[x].status = "expired" => taken[x] = {}

=============================================================================
