------------------------- MODULE PushEvidenceProofs -------------------------
(***************************************************************************)
(* What the delivery log proves, and how often a delivery is handed to the *)
(* provider, for all workers, messages, devices and bounds.                *)
(***************************************************************************)
EXTENDS PushPipelineProofs

-----------------------------------------------------------------------------
(* Evidence *)

\* What a worker sends has a token; what it records as accepted was taken.
HandsTellTheTruth ==
    \A w \in Workers : \A i \in hand[w] :
        /\ i.step \in {"send", "record"} => i.token # None
        /\ i.step = "record" /\ i.res = "accepted" => i.n \in taken[i.x]

EvidenceInv == HandsTellTheTruth /\ EvidenceIsReal

\* How a step may change a row without inventing evidence.
SoundRow(x) ==
    \/ delivery'[x].status \notin {"handed_off", "accepted"}
    \/ /\ delivery'[x].status = delivery[x].status
       /\ delivery'[x].ticket = delivery[x].ticket /\ delivery'[x].token = delivery[x].token
    \/ /\ delivery'[x].status = "accepted"
       /\ delivery'[x].ticket \in taken[x] /\ delivery'[x].token # None
    \/ delivery'[x].status = "handed_off" /\ delivery[x].status = "accepted"

TakenGrows == \A x \in Deliveries : taken[x] \subseteq taken'[x]

LEMMA SoundRows ==
    ASSUME EvidenceIsReal, TakenGrows, \A x \in Deliveries : SoundRow(x)
    PROVE  EvidenceIsReal'
  BY DEF EvidenceIsReal, SoundRow, TakenGrows

\* Items that a step leaves alone, or brings in with nothing to send or to record.
QuietHand(w) ==
    \A v \in Workers : \A i \in hand'[v] :
        i \in hand[v] \/ (v = w /\ i.step \notin {"send", "record"})

LEMMA QuietHands ==
    ASSUME TypeInv, HandsTellTheTruth, TakenGrows, NEW w \in Workers, QuietHand(w)
    PROVE  HandsTellTheTruth'
  <1>1. \A v \in Workers : \A i \in hand[v] : i.x \in Deliveries
    BY DEF TypeInv, TypeOK, Item
  <1> QED
    BY <1>1 DEF HandsTellTheTruth, TakenGrows, QuietHand

\* What the helpers that change one hand leave in the hands.
LEMMA HandsAfter ==
    ASSUME TypeInv, NEW w \in Workers, NEW S, hand' = [hand EXCEPT ![w] = S]
    PROVE  \A v \in Workers : hand'[v] = IF v = w THEN S ELSE hand[v]
  BY DEF TypeInv, TypeOK

LEMMA QuietMoves ==
    ASSUME TypeInv, NEW w \in Workers
    PROVE  /\ \A p : Enter(w, p) => QuietHand(w)
           /\ \A S : Round(w, S) /\ (\A i \in S : i.step \notin {"send", "record"}) => QuietHand(w)
           /\ \A i : Drop(w, i) => QuietHand(w)
           /\ \A i, j : Replace(w, i, j) /\ j.step \notin {"send", "record"} => QuietHand(w)
  BY DEF Enter, Round, Drop, Replace, QuietHand, TypeInv, TypeOK

LEMMA SameHands == ASSUME hand' = hand, NEW w PROVE QuietHand(w)
  BY DEF QuietHand

LEMMA DispatchEvidence ==
    ASSUME TypeInv, EvidenceInv, NEW w \in Workers, DispatchStep(w) \/ FanOutFails(w)
    PROVE  EvidenceInv'
  <1> USE DEF rows, outside, local, history, budget
  <1>h. \A i \in hand[w] : i \in Item /\ i.x \in Deliveries
    BY DEF TypeInv, TypeOK, Item
  <1>r. delivery \in [Deliveries -> Row] /\ \A x \in Deliveries : delivery[x] \in Row
    BY DEF TypeInv, TypeOK
  <1>q. ASSUME taken' = taken, QuietHand(w), \A x \in Deliveries : SoundRow(x)
        PROVE  EvidenceInv'
    BY <1>q, SoundRows, QuietHands DEF EvidenceInv, TakenGrows
  <1>s. ASSUME delivery' = delivery, NEW x \in Deliveries
        PROVE  SoundRow(x)
    BY <1>s DEF SoundRow
  <1>1. CASE BeginDispatch(w) \/ FanOutFails(w)
    <2>1. ASSUME NEW x \in Deliveries PROVE SoundRow(x)
      <3>1. [delivery[x] EXCEPT !.status = "failed", !.lease = "null"].status = "failed"
        BY <1>r DEF Row
      <3> QED BY <1>1, <3>1 DEF BeginDispatch, FanOutFails, CloseInterrupted, SoundRow
    <2> QED BY <1>1, <1>q, <2>1, QuietMoves DEF BeginDispatch, FanOutFails
  <1>2. ASSUME NEW S \in SUBSET Deliveries, Claim(w, S) PROVE EvidenceInv'
    <2>1. \A x \in Deliveries : SoundRow(x)
      BY <1>2, <1>r DEF Claim, SoundRow, Row
    <2>2. \A i \in {Fresh(x, delivery[x].attempts + 1, "claimed") : x \in S} :
             i.step \notin {"send", "record"}
      BY DEF Fresh
    <2> QED BY <1>2, <1>q, <2>1, <2>2, QuietMoves DEF Claim
  <1>3. CASE Process(w)
    <2>1. hand' = [hand EXCEPT ![w] = {Recheck(i) : i \in hand[w]}]
      BY <1>3 DEF Process
    <2>2. ASSUME NEW i \in hand[w]
          PROVE  Recheck(i).step # "record" /\ (Recheck(i).step = "send" => Recheck(i).token # None)
      <3>1. i.x[2] \in Devices
        BY <1>h DEF Deliveries
      <3> QED BY <1>h, <3>1 DEF Recheck, eligible, Item
    <2>3. ASSUME NEW v \in Workers, NEW j \in hand'[v]
          PROVE  j \in hand[v] \/ \E i \in hand[w] : j = Recheck(i)
      BY <2>1, <2>3, HandsAfter
    <2>5. HandsTellTheTruth'
      BY <1>3, <2>2, <2>3 DEF Process, EvidenceInv, HandsTellTheTruth
    <2>4. EvidenceIsReal'
      BY <1>3 DEF Process, EvidenceInv, EvidenceIsReal
    <2> QED BY <2>4, <2>5 DEF EvidenceInv
  <1>4. ASSUME NEW i \in hand[w], Settle(w, i) PROVE EvidenceInv'
    <2>1. i.res \in {"expired", "skipped"} /\ i.x \in Deliveries
      BY <1>4, <1>h DEF Settle, TypeInv, VerdictsSettle
    <2>2. Finish(delivery[i.x], i.res).status = i.res
      BY <2>1, <1>r, FinishTyped DEF FinalStatus
    <2>3. \A x \in Deliveries : SoundRow(x)
      BY <1>4, <1>r, <2>1, <2>2 DEF Settle, WhileSending, SoundRow
    <2> QED BY <1>4, <1>q, <2>3, QuietMoves DEF Settle
  <1>5. ASSUME NEW chunk \in SUBSET hand[w], SendChunk(w, chunk) PROVE EvidenceInv'
    <2>1. PICK answer \in Answers(chunk) :
             /\ hand' = [hand EXCEPT ![w] = (hand[w] \ chunk) \cup Sent(chunk, answer)]
             /\ taken' = [x \in Deliveries |->
                    taken[x] \cup ClaimsOf({i \in chunk : Takes(answer[i])}, x)]
      BY <1>5 DEF SendChunk
    <2>2. \A i \in chunk : i.step = "send"
      BY <1>5 DEF SendChunk, Request
    <2>3. TakenGrows
      BY <2>1 DEF TakenGrows
    <2>4. ASSUME NEW j \in Sent(chunk, answer)
          PROVE  j.token # None /\ (j.res = "accepted" => j.n \in taken'[j.x])
      <3>1. PICK i \in chunk : j = [i EXCEPT !.step = "record", !.res = Reported(answer[i])]
        BY DEF Sent
      <3>2. i \in Item /\ i.x \in Deliveries /\ i.token # None
        BY <1>h, <2>2 DEF EvidenceInv, HandsTellTheTruth
      <3>3. j.x = i.x /\ j.n = i.n /\ j.token = i.token /\ j.res = Reported(answer[i])
        BY <3>1, <3>2 DEF Item
      <3>4. j.res = "accepted" => Takes(answer[i])
        BY <3>3 DEF Reported, Takes
      <3>5. Takes(answer[i]) => i.n \in ClaimsOf({k \in chunk : Takes(answer[k])}, i.x)
        BY DEF ClaimsOf
      <3> QED BY <2>1, <3>2, <3>3, <3>4, <3>5
    <2>5. ASSUME NEW v \in Workers, NEW i \in hand[v], i.step = "record", i.res = "accepted"
          PROVE  i.n \in taken'[i.x]
      <3>1. i.x \in Deliveries
        BY DEF TypeInv, TypeOK, Item
      <3> QED BY <2>3, <2>5, <3>1 DEF TakenGrows, EvidenceInv, HandsTellTheTruth
    <2>6. ASSUME NEW v \in Workers, NEW i \in hand'[v]
          PROVE  i \in hand[v] \/ i \in Sent(chunk, answer)
      BY <2>1, <2>6, HandsAfter
    <2>7. HandsTellTheTruth'
      BY <2>4, <2>5, <2>6 DEF EvidenceInv, HandsTellTheTruth
    <2>8. EvidenceIsReal'
      BY <1>5, <1>s, <2>3, SoundRows DEF SendChunk, EvidenceInv
    <2> QED BY <2>7, <2>8 DEF EvidenceInv
  <1>6. ASSUME NEW i \in hand[w], RecordResult(w, i) PROVE EvidenceInv'
    <2>1. i.step = "record" /\ i.x \in Deliveries /\ i \in Item
      BY <1>6, <1>h DEF RecordResult
    <2>2. i.token # None /\ (i.res = "accepted" => i.n \in taken[i.x])
      BY <2>1 DEF EvidenceInv, HandsTellTheTruth
    <2>3. ASSUME NEW row \in Row
          PROVE  \/ Outcome(row, i).status \notin {"handed_off", "accepted"}
                 \/ /\ i.res = "accepted" /\ Outcome(row, i).status = "accepted"
                    /\ Outcome(row, i).ticket = i.n /\ Outcome(row, i).token = i.token
      <3>1. Fail(row, i).status = "failed"
        BY DEF Fail, Finish, Row
      <3>2. RetryOrFail(row, i).status \in {"failed", "pending"}
        BY <3>1 DEF RetryOrFail, Row
      <3>3. i.res = "unticketed" => Accept(row, i).status = "unconfirmed"
        BY DEF Accept, Finish, Row
      <3>4. i.res = "accepted" => /\ Accept(row, i).status = "accepted"
                                  /\ Accept(row, i).ticket = i.n /\ Accept(row, i).token = i.token
        BY DEF Accept, Row
      <3> QED BY <3>1, <3>2, <3>3, <3>4 DEF Outcome
    <2>4. \A x \in Deliveries : SoundRow(x)
      BY <1>6, <1>r, <2>1, <2>2, <2>3 DEF RecordResult, WhileSending, SoundRow
    <2>5. [i EXCEPT !.step = "disable"].step = "disable"
      BY <2>1 DEF Item
    <2>6. QuietHand(w)
      BY <1>6, <2>5, QuietMoves DEF RecordResult
    <2> QED BY <1>6, <1>q, <2>4, <2>6 DEF RecordResult
  <1>7. ASSUME NEW i \in hand[w], InvalidateToken(w, i) PROVE EvidenceInv'
    BY <1>7, <1>q, <1>s, QuietMoves DEF InvalidateToken
  <1>8. CASE EndDispatch(w)
    BY <1>8, <1>q, <1>s, QuietMoves DEF EndDispatch
  <1>9. ASSUME NEW chunk \in SUBSET hand[w], NEW k \in 2 .. BatchSize, RefuseChunk(w, chunk, k)
        PROVE  EvidenceInv'
    <2>1. hand' = [hand EXCEPT ![w] = (hand[w] \ chunk) \cup Halves(chunk, k)]
      BY <1>9 DEF RefuseChunk
    <2>2. ASSUME NEW v \in Workers, NEW j \in hand'[v], j \notin hand[v]
          PROVE  v = w /\ \E i \in hand[w] : j.step = i.step /\ j.token = i.token /\ i.step = "send"
      <3>1. j \in Halves(chunk, k) /\ v = w
        BY <2>1, <2>2, HandsAfter
      <3>2. chunk \in SUBSET Item
        BY <1>h
      <3>3. PICK i \in chunk : j.step = i.step /\ j.token = i.token
        BY <3>1, <3>2, HalvesTyped
      <3> QED BY <1>9, <3>1, <3>3 DEF RefuseChunk, Request
    <2>3. HandsTellTheTruth'
      BY <1>9, <2>2 DEF RefuseChunk, EvidenceInv, HandsTellTheTruth
    <2>4. EvidenceIsReal'
      BY <1>9 DEF RefuseChunk, EvidenceInv, EvidenceIsReal
    <2> QED BY <2>3, <2>4 DEF EvidenceInv
  <1> QED BY <1>1, <1>2, <1>3, <1>4, <1>5, <1>6, <1>7, <1>8, <1>9 DEF DispatchStep

LEMMA ReceiptEvidence ==
    ASSUME TypeInv, EvidenceInv, NEW w \in Workers, ReceiptStep(w) \/ ReceiptsFail(w)
    PROVE  EvidenceInv'
  <1> USE DEF rows, outside, local, history, budget
  <1>h. \A i \in hand[w] : i \in Item /\ i.x \in Deliveries
    BY DEF TypeInv, TypeOK, Item
  <1>r. delivery \in [Deliveries -> Row] /\ \A x \in Deliveries : delivery[x] \in Row
    BY DEF TypeInv, TypeOK
  <1>q. ASSUME taken' = taken, QuietHand(w), \A x \in Deliveries : SoundRow(x)
        PROVE  EvidenceInv'
    BY <1>q, SoundRows, QuietHands DEF EvidenceInv, TakenGrows
  <1>s. ASSUME delivery' = delivery, NEW x \in Deliveries
        PROVE  SoundRow(x)
    BY <1>s DEF SoundRow
  <1>1. ASSUME NEW S \in SUBSET Deliveries, CollectReceipts(w, S) PROVE EvidenceInv'
    <2>1. \A x \in Deliveries : SoundRow(x)
      BY <1>1, <1>r DEF CollectReceipts, SoundRow, Row
    <2>2. \A i \in {ReceiptItem(x) : x \in S} : i.step \notin {"send", "record"}
      BY DEF ReceiptItem
    <2> QED BY <1>1, <1>q, <2>1, <2>2, QuietMoves DEF CollectReceipts
  <1>2. CASE ReceiptsAnswered(w)
    <2>1. PICK answer \in [hand[w] -> ReceiptAnswer] :
             hand' = [hand EXCEPT ![w] =
                 {[i EXCEPT !.step = "apply", !.res = answer[i]] : i \in hand[w]}]
      BY <1>2 DEF ReceiptsAnswered
    <2> DEFINE S == {[i EXCEPT !.step = "apply", !.res = answer[i]] : i \in hand[w]}
    <2>2. \A j \in S : j.step = "apply"
      BY <1>h DEF Item
    <2>4. \A v \in Workers : hand'[v] = IF v = w THEN S ELSE hand[v]
      BY <2>1, HandsAfter
    <2>3. QuietHand(w)
      <3> HIDE DEF S
      <3> QED BY <2>2, <2>4 DEF QuietHand
    <2> QED BY <1>2, <1>q, <1>s, <2>3 DEF ReceiptsAnswered
  <1>3. ASSUME NEW i \in hand[w], ApplyReceipt(w, i) PROVE EvidenceInv'
    <2>1. i \in Item /\ i.x \in Deliveries
      BY <1>h
    <2>2. ASSUME NEW row \in Row, row.status = "accepted"
          PROVE  \/ ReceiptOutcome(row, i).status # "accepted"
                 \/ /\ ReceiptOutcome(row, i).status = "accepted"
                    /\ ReceiptOutcome(row, i).ticket = row.ticket
                    /\ ReceiptOutcome(row, i).token = row.token
      <3>1. \A status : Finish(row, status).status = status
        BY DEF Finish, Row
      <3>2. AskLater(row).status = row.status /\ AskLater(row).ticket = row.ticket
            /\ AskLater(row).token = row.token
        BY DEF AskLater, Row
      <3>3. [row EXCEPT !.status = "pending", !.lease = "null", !.due = FALSE, !.ticket = 0].status
               = "pending"
        BY DEF Row
      <3> QED BY <2>2, <3>1, <3>2, <3>3 DEF ReceiptOutcome
    <2>3. \A x \in Deliveries : SoundRow(x)
      BY <1>3, <1>r, <2>1, <2>2 DEF ApplyReceipt, SoundRow
    <2>4. [i EXCEPT !.step = "disable"].step = "disable"
      BY <2>1 DEF Item
    <2>5. QuietHand(w)
      BY <1>3, <2>4, QuietMoves DEF ApplyReceipt
    <2> QED BY <1>3, <1>q, <2>3, <2>5 DEF ApplyReceipt
  <1>4. CASE EndReceipts(w)
    BY <1>4, <1>q, <1>s, QuietMoves DEF EndReceipts
  <1>5. CASE ReceiptsFail(w)
    <2>1. \A x \in Deliveries : AskLater(delivery[x]).status = delivery[x].status
             /\ AskLater(delivery[x]).ticket = delivery[x].ticket
             /\ AskLater(delivery[x]).token = delivery[x].token
      BY <1>r DEF AskLater, Row
    <2>2. \A x \in Deliveries : SoundRow(x)
      BY <1>5, <2>1 DEF ReceiptsFail, SoundRow
    <2> QED BY <1>5, <1>q, <2>2, QuietMoves DEF ReceiptsFail
  <1> QED BY <1>1, <1>2, <1>3, <1>4, <1>5 DEF ReceiptStep

LEMMA MessagesEvidence ==
    ASSUME TypeInv, EvidenceInv, NEW w \in Workers,
           \/ \E m \in Messages : Enqueue(m) \/ FanOutOne(w, m)
           \/ Complete(w)
           \/ \E S \in SUBSET Messages : Purge(w, S)
           \/ StepFails(w)
           \/ Crash(w)
    PROVE  EvidenceInv'
  <1> USE DEF rows, outside, local, history, budget
  <1>q. ASSUME taken' = taken, QuietHand(w), \A x \in Deliveries : SoundRow(x)
        PROVE  EvidenceInv'
    BY <1>q, SoundRows, QuietHands DEF EvidenceInv, TakenGrows
  <1>s. ASSUME delivery' = delivery, NEW x \in Deliveries
        PROVE  SoundRow(x)
    BY <1>s DEF SoundRow
  <1>1. ASSUME NEW m \in Messages, Enqueue(m) PROVE EvidenceInv'
    BY <1>1, <1>q, <1>s, SameHands DEF Enqueue
  <1>2. ASSUME NEW m \in Messages, FanOutOne(w, m) PROVE EvidenceInv'
    <2>1. \A d \in Devices : FreshRow(d).status = "pending"
      BY DEF FreshRow, NoRow
    <2>2. \A x \in Deliveries : SoundRow(x)
      BY <1>2, <2>1 DEF FanOutOne, SoundRow, Deliveries
    <2> QED BY <1>2, <1>q, <2>2, QuietMoves DEF FanOutOne
  <1>3. CASE Complete(w) \/ StepFails(w) \/ Crash(w)
    BY <1>3, <1>q, <1>s, QuietMoves DEF Complete, StepFails, Crash
  <1>4. ASSUME NEW S \in SUBSET Messages, Purge(w, S) PROVE EvidenceInv'
    <2>1. \A x \in Deliveries : SoundRow(x)
      BY <1>4 DEF Purge, SoundRow, NoRow
    <2> QED BY <1>4, <1>q, <2>1, QuietMoves DEF Purge
  <1> QED BY <1>1, <1>2, <1>3, <1>4

\* Time and the outside world move no hand.
LEMMA OutsideEvidence ==
    ASSUME TypeInv, EvidenceInv, Time \/ Environment
    PROVE  EvidenceInv'
  <1> USE DEF rows, outside, local, history, budget
  <1>r. delivery \in [Deliveries -> Row] /\ \A x \in Deliveries : delivery[x] \in Row
    BY DEF TypeInv, TypeOK
  <1>1. hand' = hand /\ taken' = taken
    BY DEF Time, MessageExpires, BecomesDue, LeaseRunsOut, TicketAges, Environment, Register,
           SignOut, Reconsider, DeleteAccount, TokenDies, Outside
  <1>2. ASSUME NEW x \in Deliveries PROVE SoundRow(x)
    <2>1. CASE Time
      <3>1. \/ delivery'[x] = delivery[x]
            \/ delivery'[x] = [delivery[x] EXCEPT !.due = TRUE]
            \/ delivery'[x] = [delivery[x] EXCEPT !.lease = "over"]
            \/ delivery'[x] = [delivery[x] EXCEPT !.old = TRUE]
        BY <1>r, <2>1 DEF Time, MessageExpires, BecomesDue, LeaseRunsOut, TicketAges
      <3> QED BY <1>r, <3>1 DEF SoundRow, Row
    <2>2. CASE Environment
      <3>1. delivery' = delivery \/ delivery'[x] \in {NoRow, delivery[x]}
        BY <2>2 DEF Environment, Register, SignOut, Reconsider, DeleteAccount, TokenDies, Outside
      <3> QED BY <3>1 DEF SoundRow, NoRow
    <2> QED BY <2>1, <2>2
  <1> QED BY <1>1, <1>2, SoundRows DEF EvidenceInv, HandsTellTheTruth, TakenGrows

LEMMA EvidenceNext == TypeInv /\ EvidenceInv /\ [Next]_vars => EvidenceInv'
  <1> SUFFICES ASSUME TypeInv, EvidenceInv, [Next]_vars PROVE EvidenceInv'
    OBVIOUS
  <1>1. CASE \E m \in Messages : Enqueue(m)
    BY <1>1 DEF Enqueue, EvidenceInv, EvidenceIsReal, HandsTellTheTruth, outside, local, history
  <1>2. CASE \E w \in Workers : RunStep(w) \/ Fault(w)
    BY <1>2, DispatchEvidence, ReceiptEvidence, MessagesEvidence DEF RunStep, Fault
  <1>3. CASE Time \/ Environment
    BY <1>3, OutsideEvidence
  <1>4. CASE UNCHANGED vars
    BY <1>4 DEF vars, rows, local, history, EvidenceInv, EvidenceIsReal, HandsTellTheTruth
  <1> QED BY <1>1, <1>2, <1>3, <1>4 DEF Next

\* The log never says more than what the provider answered: no row is handed off or
\* accepted without a push that was taken, for any number of workers that race, crash or
\* outlive their lease (accept, finishReceipt).
THEOREM EvidenceKept == Spec => []EvidenceIsReal
  <1>1. Init => EvidenceInv
    BY DEF Init, EvidenceInv, EvidenceIsReal, HandsTellTheTruth, NoRow
  <1>2. EvidenceInv => EvidenceIsReal
    BY DEF EvidenceInv
  <1> QED BY <1>1, <1>2, EvidenceNext, TypeInvariant, PTL DEF Spec

-----------------------------------------------------------------------------
(* Tokens *)

\* News that a token no longer works, and the item that carries it to the device.
SaysDead(i) == i.step = "disable" \/ (i.res = "invalid" /\ i.step \in {"record", "apply"})

NewsIsTrue == \A w \in Workers : \A i \in hand[w] : SaysDead(i) => i.token \in dead

NewsIsKept == \A v \in Workers : \A i \in hand'[v] : SaysDead(i) => i \in hand[v] \/ i.token \in dead

LEMMA NewsKept ==
    ASSUME NewsIsTrue, NewsIsKept, dead \subseteq dead'
    PROVE  NewsIsTrue'
  BY DEF NewsIsTrue, NewsIsKept

LEMMA NewsMoves ==
    ASSUME TypeInv, NEW w \in Workers
    PROVE  /\ \A p : Enter(w, p) => NewsIsKept
           /\ \A S : Round(w, S) /\ (\A i \in S : ~SaysDead(i)) => NewsIsKept
           /\ \A i : Drop(w, i) => NewsIsKept
           /\ \A i, j : Replace(w, i, j) /\ j.token \in dead => NewsIsKept
           /\ hand' = hand => NewsIsKept
  <1>1. \A p : Enter(w, p) => NewsIsKept
    BY DEF Enter, NewsIsKept, TypeInv, TypeOK
  <1>2. \A S : Round(w, S) /\ (\A i \in S : ~SaysDead(i)) => NewsIsKept
    BY DEF Round, NewsIsKept, TypeInv, TypeOK
  <1>3. \A i : Drop(w, i) => NewsIsKept
    BY DEF Drop, NewsIsKept, TypeInv, TypeOK
  <1>4. ASSUME NEW i, NEW j, Replace(w, i, j), j.token \in dead PROVE NewsIsKept
    <2>1. \A v \in Workers : hand'[v] = IF v = w THEN (hand[w] \ {i}) \cup {j} ELSE hand[v]
      BY <1>4 DEF Replace, TypeInv, TypeOK
    <2> QED BY <1>4, <2>1 DEF NewsIsKept
  <1>5. hand' = hand => NewsIsKept
    BY DEF NewsIsKept
  <1> QED BY <1>1, <1>2, <1>3, <1>4, <1>5

LEMMA RunStepNews ==
    ASSUME TypeInv, NewsIsTrue, NEW w \in Workers, RunStep(w) \/ Fault(w)
    PROVE  NewsIsTrue'
  <1> USE DEF rows, outside, local, history, budget
  <1>h. \A i \in hand[w] : i \in Item
    BY DEF TypeInv, TypeOK
  <1>d. ASSUME NEW i \in Item
        PROVE  /\ [i EXCEPT !.step = "disable"].token = i.token
               /\ \A r : [i EXCEPT !.step = "apply", !.res = r].token = i.token
               /\ \A r : [i EXCEPT !.step = "apply", !.res = r].res = r
               /\ \A r : [i EXCEPT !.step = "record", !.res = r].token = i.token
               /\ \A r : [i EXCEPT !.step = "record", !.res = r].res = r
    BY DEF Item
  <1>q. NewsIsKept /\ dead' = dead => NewsIsTrue'
    BY NewsKept
  <1>1. ASSUME NEW m \in Messages, FanOutOne(w, m) PROVE NewsIsTrue'
    BY <1>1, <1>q, NewsMoves DEF FanOutOne
  <1>2. CASE \/ BeginDispatch(w) \/ EndDispatch(w) \/ EndReceipts(w) \/ Complete(w)
             \/ ReceiptsFail(w) \/ FanOutFails(w) \/ StepFails(w) \/ Crash(w)
             \/ \E S \in SUBSET Messages : Purge(w, S)
    BY <1>2, <1>q, NewsMoves
    DEF BeginDispatch, EndDispatch, EndReceipts, Complete, ReceiptsFail, FanOutFails, StepFails,
        Crash, Purge
  <1>3. ASSUME NEW S \in SUBSET Deliveries, Claim(w, S) PROVE NewsIsTrue'
    <2>1. \A i \in {Fresh(x, delivery[x].attempts + 1, "claimed") : x \in S} : ~SaysDead(i)
      BY DEF Fresh, SaysDead
    <2> QED BY <1>3, <1>q, <2>1, NewsMoves DEF Claim
  <1>4. CASE Process(w)
    <2>1. \A v \in Workers : hand'[v] = IF v = w THEN {Recheck(i) : i \in hand[w]} ELSE hand[v]
      BY <1>4 DEF Process, TypeInv, TypeOK
    <2>2. \A i \in hand[w] : ~SaysDead(Recheck(i))
      BY <1>h DEF Recheck, Item, SaysDead
    <2>3. ASSUME NEW v \in Workers, NEW j \in hand'[v], SaysDead(j) PROVE j \in hand[v]
      <3>1. CASE v = w
        <4>1. PICK i \in hand[w] : j = Recheck(i)
          BY <2>1, <2>3, <3>1
        <4> QED BY <2>2, <2>3, <4>1
      <3>2. CASE v # w
        BY <2>1, <2>3, <3>2
      <3> QED BY <3>1, <3>2
    <2>4. NewsIsKept
      BY <2>3 DEF NewsIsKept
    <2> QED BY <1>4, <1>q, <2>4 DEF Process
  <1>5. ASSUME NEW i \in hand[w], Settle(w, i) \/ InvalidateToken(w, i) PROVE NewsIsTrue'
    BY <1>5, <1>q, NewsMoves DEF Settle, InvalidateToken
  <1>6. ASSUME NEW chunk \in SUBSET hand[w], SendChunk(w, chunk) PROVE NewsIsTrue'
    <2>1. PICK answer \in Answers(chunk) :
             /\ \A i \in chunk : answer[i] = "invalid" => i.token \in dead
             /\ hand' = [hand EXCEPT ![w] = (hand[w] \ chunk) \cup Sent(chunk, answer)]
      BY <1>6 DEF SendChunk
    <2>2. ASSUME NEW j \in Sent(chunk, answer), SaysDead(j) PROVE j.token \in dead
      <3>1. PICK i \in chunk : j = [i EXCEPT !.step = "record", !.res = Reported(answer[i])]
        BY DEF Sent
      <3>2. i \in Item /\ j.step = "record"
        BY <1>h, <3>1 DEF Item
      <3>3. j.token = i.token /\ Reported(answer[i]) = "invalid"
        BY <1>d, <2>2, <3>1, <3>2 DEF SaysDead
      <3>4. answer[i] = "invalid"
        BY <3>3 DEF Reported
      <3> QED BY <2>1, <3>3, <3>4
    <2>3. \A v \in Workers : hand'[v] \subseteq hand[v] \cup Sent(chunk, answer)
      BY <2>1 DEF TypeInv, TypeOK
    <2>4. NewsIsKept
      BY <2>2, <2>3 DEF NewsIsKept
    <2> QED BY <1>6, <1>q, <2>4 DEF SendChunk
  <1>7. ASSUME NEW i \in hand[w], RecordResult(w, i) \/ ApplyReceipt(w, i) PROVE NewsIsTrue'
    <2>1. i.res = "invalid" => [i EXCEPT !.step = "disable"].token \in dead
      BY <1>7, <1>h, <1>d DEF RecordResult, ApplyReceipt, NewsIsTrue, SaysDead
    <2>2. Drop(w, i) \/ (i.res = "invalid" /\ Replace(w, i, [i EXCEPT !.step = "disable"]))
      BY <1>7 DEF RecordResult, ApplyReceipt
    <2>3. CASE Drop(w, i)
      <3>1. NewsIsKept
        BY <2>3, NewsMoves
      <3> QED BY <1>7, <1>q, <3>1 DEF RecordResult, ApplyReceipt
    <2>4. CASE i.res = "invalid" /\ Replace(w, i, [i EXCEPT !.step = "disable"])
      <3>1. NewsIsKept
        BY <2>1, <2>4, NewsMoves
      <3> QED BY <1>7, <1>q, <3>1 DEF RecordResult, ApplyReceipt
    <2> QED BY <2>2, <2>3, <2>4
  <1>8. ASSUME NEW S \in SUBSET Deliveries, CollectReceipts(w, S) PROVE NewsIsTrue'
    <2>1. \A i \in {ReceiptItem(x) : x \in S} : ~SaysDead(i)
      BY DEF ReceiptItem, SaysDead
    <2> QED BY <1>8, <1>q, <2>1, NewsMoves DEF CollectReceipts
  <1>9. CASE ReceiptsAnswered(w)
    <2>1. PICK answer \in [hand[w] -> ReceiptAnswer] :
             /\ \A i \in hand[w] : answer[i] = "invalid" => i.token \in dead
             /\ hand' = [hand EXCEPT ![w] =
                 {[i EXCEPT !.step = "apply", !.res = answer[i]] : i \in hand[w]}]
      BY <1>9 DEF ReceiptsAnswered
    <2> DEFINE S == {[i EXCEPT !.step = "apply", !.res = answer[i]] : i \in hand[w]}
    <2>2. ASSUME NEW j \in S, SaysDead(j) PROVE j.token \in dead
      <3>1. PICK i \in hand[w] : j = [i EXCEPT !.step = "apply", !.res = answer[i]]
        OBVIOUS
      <3>2. j.step = "apply" /\ j.token = i.token /\ j.res = answer[i]
        BY <1>h, <3>1 DEF Item
      <3> QED BY <2>1, <2>2, <3>2 DEF SaysDead
    <2>3. \A v \in Workers : hand'[v] = IF v = w THEN S ELSE hand[v]
      BY <2>1 DEF TypeInv, TypeOK
    <2>4. NewsIsKept
      <3> HIDE DEF S
      <3> QED BY <2>2, <2>3 DEF NewsIsKept
    <2> QED BY <1>9, <1>q, <2>4 DEF ReceiptsAnswered
  <1>10. ASSUME NEW chunk \in SUBSET hand[w], NEW k \in 2 .. BatchSize, RefuseChunk(w, chunk, k)
         PROVE  NewsIsTrue'
    <2>1. hand' = [hand EXCEPT ![w] = (hand[w] \ chunk) \cup Halves(chunk, k)]
      BY <1>10 DEF RefuseChunk
    <2>2. ASSUME NEW j \in Halves(chunk, k) PROVE ~SaysDead(j)
      <3>1. chunk \in SUBSET Item
        BY <1>h
      <3>2. PICK i \in chunk : j.step = i.step
        BY <3>1, HalvesTyped
      <3>3. j.step = "send"
        BY <1>10, <3>2 DEF RefuseChunk, Request
      <3> QED BY <3>3 DEF SaysDead
    <2>3. \A v \in Workers : hand'[v] \subseteq hand[v] \cup Halves(chunk, k)
      BY <2>1 DEF TypeInv, TypeOK
    <2>4. NewsIsKept
      BY <2>2, <2>3 DEF NewsIsKept
    <2> QED BY <1>10, <1>q, <2>4 DEF RefuseChunk
  <1> QED BY <1>1, <1>2, <1>3, <1>4, <1>5, <1>6, <1>7, <1>8, <1>9, <1>10
          DEF RunStep, DispatchStep, ReceiptStep, Fault

LEMMA NewsNext == TypeInv /\ NewsIsTrue /\ [Next]_vars => NewsIsTrue'
  <1> SUFFICES ASSUME TypeInv, NewsIsTrue, [Next]_vars PROVE NewsIsTrue'
    OBVIOUS
  <1>1. CASE \/ \E m \in Messages : Enqueue(m)
             \/ Time \/ Environment \/ UNCHANGED vars
    <2>1. hand' = hand /\ dead \subseteq dead'
      BY <1>1 DEF Enqueue, Time, MessageExpires, BecomesDue, LeaseRunsOut, TicketAges, Environment,
             Register, SignOut, Reconsider, DeleteAccount, TokenDies, Outside, vars, rows, outside,
             local, history
    <2> QED BY <2>1 DEF NewsIsTrue
  <1>2. CASE \E w \in Workers : RunStep(w) \/ Fault(w)
    BY <1>2, RunStepNews
  <1> QED BY <1>1, <1>2 DEF Next

\* The one step of the pipeline that changes a device is InvalidateToken.
LEMMA OnlyInvalidateTouchesDevices ==
    ASSUME TypeInv, NewsIsTrue, [Next]_vars, churn' = churn,
           NEW d \in Devices, device'[d] # device[d]
    PROVE  device[d].token \in dead
  <1> USE DEF rows, outside, local, history, budget
  <1>1. device' # device
    OBVIOUS
  <1>2. ASSUME NEW w \in Workers, RunStep(w) \/ Fault(w)
        PROVE  \E i \in hand[w] : InvalidateToken(w, i)
    BY <1>1, <1>2 DEF RunStep, Fault, FanOutOne, DispatchStep, BeginDispatch, Claim, Process, Settle,
       SendChunk, RefuseChunk, RecordResult, EndDispatch, ReceiptStep, CollectReceipts,
       ReceiptsAnswered, ApplyReceipt, EndReceipts, Complete, Purge, ReceiptsFail, FanOutFails,
       StepFails, Crash
  <1>3. ~ Environment
    <2>1. churn \in Nat
      BY DEF TypeInv, TypeOK
    <2>2. Environment => churn' = churn + 1
      BY DEF Environment, Register, SignOut, Reconsider, DeleteAccount, TokenDies, Outside
    <2> QED BY <2>1, <2>2
  <1>4. ~ \E m \in Messages : Enqueue(m)
    BY <1>1 DEF Enqueue
  <1>5. ~ Time /\ ~ UNCHANGED vars
    BY <1>1 DEF Time, MessageExpires, BecomesDue, LeaseRunsOut, TicketAges, vars
  <1>w. PICK w \in Workers : \E i \in hand[w] : InvalidateToken(w, i)
    BY <1>2, <1>3, <1>4, <1>5 DEF Next
  <1>6. PICK i \in hand[w] : InvalidateToken(w, i)
    BY <1>w
  <1>7. device[i.x[2]].token = i.token /\ i.x[2] = d
    <2>1. device \in [Devices -> DeviceRow]
      BY DEF TypeInv, TypeOK
    <2> QED BY <1>6, <2>1 DEF InvalidateToken, Holds
  <1>8. SaysDead(i)
    BY <1>6 DEF InvalidateToken, SaysDead
  <1> QED BY <1>6, <1>7, <1>8 DEF NewsIsTrue

\* The pipeline disables no token that works, however late the news about an old token of
\* the device arrives (invalidate, devices.InvalidateToken).
THEOREM WorkingTokensStay == Spec => OnlyDeadTokensDisabled
  <1> DEFINE Sound == \A d \in Devices :
                churn' = churn /\ device'[d] # device[d] => device[d].token \in dead
  <1>1. Init => NewsIsTrue
    BY DEF Init, NewsIsTrue
  <1>2. TypeInv /\ NewsIsTrue /\ [Next]_vars => [Sound]_vars
    BY OnlyInvalidateTouchesDevices
  <1> QED BY <1>1, <1>2, NewsNext, TypeInvariant, PTL DEF Spec, OnlyDeadTokensDisabled

=============================================================================
