------------------------- MODULE PushPipelineProofs -------------------------
(* What holds of the push pipeline for any number of messages, devices, workers, *)
(* attempts, faults and changes from outside.                                    *)
EXTENDS PushPipeline, TLAPS

-----------------------------------------------------------------------------
(* The values that the actions write *)

LEMMA NoRowTyped == NoRow \in Row
  BY AttemptsAssumption DEF NoRow, Row, OpenStatus, FinalStatus

LEMMA FinishTyped ==
    ASSUME NEW row \in Row, NEW status \in FinalStatus
    PROVE  Finish(row, status) \in Row /\ Finish(row, status).status = status
  BY DEF Finish, Row

LEMMA OutcomeTyped ==
    ASSUME NEW row \in Row, NEW i \in Item
    PROVE  Outcome(row, i) \in Row
  <1>1. Accept(row, i) \in Row
    <2>1. i.token \in Tokens \cup {None} /\ i.n \in 0 .. MaxAttempts /\ 0 \in 0 .. MaxAttempts
      BY AttemptsAssumption DEF Item
    <2>2. ASSUME NEW r \in Row
          PROVE  [r EXCEPT !.token = i.token, !.ticket = 0] \in Row
      BY <2>1 DEF Row
    <2>3. Finish(row, "unconfirmed") \in Row
      BY FinishTyped DEF FinalStatus
    <2>4. [row EXCEPT !.status = "accepted", !.lease = "null", !.due = FALSE, !.old = FALSE,
                      !.ticket = i.n, !.token = i.token] \in Row
      BY <2>1 DEF Row, OpenStatus
    <2> QED
      BY <2>2, <2>3, <2>4 DEF Accept
  <1>2. Fail(row, i) \in Row
    BY DEF Fail, Finish, Row, Item, OpenStatus, FinalStatus
  <1>3. RetryOrFail(row, i) \in Row
    <2>1. i.token \in Tokens \cup {None}
      BY DEF Item
    <2>2. [row EXCEPT !.status = "pending", !.lease = "null", !.due = FALSE,
                      !.token = i.token] \in Row
      BY <2>1 DEF Row, OpenStatus
    <2> QED
      BY <1>2, <2>2 DEF RetryOrFail
  <1> QED
    BY <1>1, <1>2, <1>3 DEF Outcome

LEMMA ReceiptOutcomeTyped ==
    ASSUME NEW row \in Row, NEW i \in Item
    PROVE  ReceiptOutcome(row, i) \in Row
  <1>1. AskLater(row) \in Row
    BY DEF AskLater, Row
  <1>2. [row EXCEPT !.status = "pending", !.lease = "null", !.due = FALSE, !.ticket = 0] \in Row
    <2>1. 0 \in 0 .. MaxAttempts
      BY AttemptsAssumption
    <2> QED
      BY <2>1 DEF Row, OpenStatus
  <1> QED
    BY <1>1, <1>2, FinishTyped DEF ReceiptOutcome, FinalStatus

LEMMA FreshTyped ==
    ASSUME NEW x \in Deliveries, NEW n \in 0 .. MaxAttempts, NEW step \in Step
    PROVE  Fresh(x, n, step) \in Item
  BY BatchAssumption DEF Fresh, Item, Result

LEMMA RecheckTyped ==
    ASSUME TypeOK, NEW i \in Item
    PROVE  Recheck(i) \in Item
  <1>1. i.x \in Messages \X Devices /\ i.x[2] \in Devices
    BY DEF Item, Deliveries
  <1>2. device[i.x[2]].token \in Tokens \cup {None}
    BY <1>1 DEF TypeOK, DeviceRow
  <1> QED
    BY <1>1, <1>2 DEF Recheck, Item, Step, Result

LEMMA ReceiptItemTyped ==
    ASSUME TypeOK, NEW x \in Deliveries
    PROVE  ReceiptItem(x) \in Item
  <1>1. delivery[x] \in Row
    BY DEF TypeOK
  <1>2. delivery[x].attempts \in 0 .. MaxAttempts /\ delivery[x].token \in Tokens \cup {None}
        /\ delivery[x].old \in BOOLEAN
    BY <1>1 DEF Row
  <1> QED
    BY <1>2, BatchAssumption DEF ReceiptItem, Item, Step, Result

LEMMA SentTyped ==
    ASSUME NEW chunk \in SUBSET Item, NEW answer \in Answers(chunk)
    PROVE  Sent(chunk, answer) \in SUBSET Item
  <1>1. \A i \in chunk : answer[i] \in
            {"accepted", "unticketed", "invalid", "retry", "rejected", "lost", "malformed"}
    BY DEF Answers
  <1>2. \A i \in chunk : Reported(answer[i]) \in Result
    BY <1>1 DEF Reported, Result
  <1>3. \A i \in Item, r \in Result : [i EXCEPT !.step = "record", !.res = r] \in Item
    BY DEF Item, Step
  <1> QED
    BY <1>2, <1>3 DEF Sent

\* What is left of a refused request: the same items, each for a smaller request.
LEMMA HalvesTyped ==
    ASSUME NEW chunk \in SUBSET Item, NEW k \in 2 .. BatchSize
    PROVE  /\ Half(k) \in 1 .. k - 1
           /\ Halves(chunk, k) \in SUBSET Item
           /\ \A j \in Halves(chunk, k) : \E i \in chunk :
                 /\ j = [i EXCEPT !.part = Half(k)]
                 /\ j.x = i.x /\ j.n = i.n /\ j.step = i.step /\ j.res = i.res
                 /\ j.token = i.token /\ j.part = Half(k)
  <1>1. k \in Nat /\ k >= 2 /\ k <= BatchSize /\ BatchSize \in Nat
    BY BatchAssumption
  <1>2. Half(k) \in 1 .. k - 1
    BY <1>1 DEF Half
  <1>3. Half(k) \in 1 .. BatchSize
    BY <1>1, <1>2
  <1>4. ASSUME NEW i \in Item
        PROVE  /\ [i EXCEPT !.part = Half(k)] \in Item
               /\ [i EXCEPT !.part = Half(k)].x = i.x /\ [i EXCEPT !.part = Half(k)].n = i.n
               /\ [i EXCEPT !.part = Half(k)].step = i.step /\ [i EXCEPT !.part = Half(k)].res = i.res
               /\ [i EXCEPT !.part = Half(k)].token = i.token /\ [i EXCEPT !.part = Half(k)].part = Half(k)
    BY <1>3 DEF Item
  <1>5. Halves(chunk, k) = {[i EXCEPT !.part = Half(k)] : i \in chunk}
    BY DEF Halves
  <1>6. Halves(chunk, k) \in SUBSET Item
    BY <1>4, <1>5
  <1>7. ASSUME NEW j \in Halves(chunk, k)
        PROVE  \E i \in chunk : /\ j = [i EXCEPT !.part = Half(k)]
                                /\ j.x = i.x /\ j.n = i.n /\ j.step = i.step /\ j.res = i.res
                                /\ j.token = i.token /\ j.part = Half(k)
    <2>1. PICK i \in chunk : j = [i EXCEPT !.part = Half(k)]
      BY <1>5, <1>7
    <2> QED BY <1>4, <2>1
  <1> QED BY <1>2, <1>5, <1>6, <1>7

LEMMA ClaimsOfTyped ==
    ASSUME NEW chunk \in SUBSET Item, NEW x
    PROVE  ClaimsOf(chunk, x) \subseteq 0 .. MaxAttempts
  BY DEF ClaimsOf, Item

-----------------------------------------------------------------------------
(* Type correctness *)

\* What a verdict of process may be: without it Settle could write any result.
VerdictsSettle ==
    \A w \in Workers : \A i \in hand[w] : i.step = "settle" => i.res \in {"expired", "skipped"}

TypeInv == TypeOK /\ VerdictsSettle

LEMMA TypeInit == Init => TypeInv
  BY NoRowTyped, DevicesAssumption, DeadAssumption, AttemptsAssumption
  DEF Init, TypeInv, VerdictsSettle, TypeOK, MessageStatus, Phase, DeviceRow

\* Leaving a step empties the hand, a round fills it.
LEMMA EnterTyped ==
    ASSUME TypeInv, NEW w \in Workers, NEW p \in Phase, Enter(w, p)
    PROVE  /\ phase' \in [Workers -> Phase] /\ rounds' \in [Workers -> Nat]
           /\ hand' \in [Workers -> SUBSET Item] /\ VerdictsSettle'
  BY DEF TypeInv, VerdictsSettle, TypeOK, Enter

LEMMA RoundTyped ==
    ASSUME TypeInv, NEW w \in Workers, NEW S \in SUBSET Item, Round(w, S),
           \A i \in S : i.step # "settle"
    PROVE  /\ phase' \in [Workers -> Phase] /\ rounds' \in [Workers -> Nat]
           /\ hand' \in [Workers -> SUBSET Item] /\ VerdictsSettle'
  BY DEF TypeInv, VerdictsSettle, TypeOK, Round

\* The other actions change the hand of one worker.
LEMMA HandTyped ==
    ASSUME TypeInv, NEW w \in Workers, NEW S \in SUBSET Item,
           hand' = [hand EXCEPT ![w] = S],
           \A i \in S : i.step = "settle" => i.res \in {"expired", "skipped"}
    PROVE  hand' \in [Workers -> SUBSET Item] /\ VerdictsSettle'
  BY DEF TypeInv, VerdictsSettle, TypeOK

LEMMA PassOnTyped ==
    ASSUME TypeInv, NEW w \in Workers, NEW i \in hand[w],
           NEW j \in Item, j.step # "settle",
           Drop(w, i) \/ Replace(w, i, j)
    PROVE  hand' \in [Workers -> SUBSET Item] /\ VerdictsSettle'
  <1>1. CASE Drop(w, i)
    BY <1>1, HandTyped DEF Drop, TypeInv, VerdictsSettle, TypeOK
  <1>2. CASE Replace(w, i, j)
    BY <1>2, HandTyped DEF Replace, TypeInv, VerdictsSettle, TypeOK
  <1> QED
    BY <1>1, <1>2

LEMMA WhileSendingTyped ==
    ASSUME TypeOK, NEW x \in Deliveries, NEW row \in Row, WhileSending(x, row)
    PROVE  delivery' \in [Deliveries -> Row]
  BY DEF TypeOK, WhileSending

LEMMA DispatchTyped ==
    ASSUME TypeInv, NEW w \in Workers, DispatchStep(w) \/ FanOutFails(w)
    PROVE  TypeInv'
  <1> USE DEF rows, outside, local, history, budget
  <1>h. \A i \in hand[w] : i \in Item /\ i.x \in Deliveries /\ i.n \in 0 .. MaxAttempts
    BY DEF TypeInv, TypeOK, Item
  <1>1. CASE BeginDispatch(w) \/ FanOutFails(w)
    <2>1. ASSUME NEW x \in Deliveries
          PROVE  [delivery[x] EXCEPT !.status = "failed", !.lease = "null"] \in Row
      <3>1. delivery[x] \in Row
        BY DEF TypeInv, TypeOK
      <3> QED BY <3>1 DEF Row, FinalStatus
    <2>2. delivery' \in [Deliveries -> Row]
      BY <1>1, <2>1 DEF BeginDispatch, FanOutFails, CloseInterrupted, TypeInv, TypeOK
    <2> QED
      BY <1>1, <2>2, EnterTyped DEF BeginDispatch, FanOutFails, TypeInv, TypeOK, Phase
  <1>2. ASSUME NEW S \in SUBSET Deliveries, Claim(w, S)
        PROVE  TypeInv'
    <2>1. ASSUME NEW x \in S
          PROVE  /\ delivery[x].attempts + 1 \in 0 .. MaxAttempts
                 /\ [delivery[x] EXCEPT !.status = "sending", !.lease = "running",
                                        !.attempts = @ + 1] \in Row
      <3>1. delivery[x] \in Row /\ delivery[x].attempts < MaxAttempts
        BY <1>2 DEF Claim, Claimable, TypeInv, TypeOK
      <3>2. delivery[x].attempts \in 0 .. MaxAttempts
        BY <3>1 DEF Row
      <3>3. delivery[x].attempts + 1 \in 0 .. MaxAttempts
        BY <3>1, <3>2, AttemptsAssumption
      <3> QED
        BY <3>1, <3>3 DEF Row, OpenStatus
    <2>2. delivery' \in [Deliveries -> Row]
      BY <1>2, <2>1 DEF Claim, TypeInv, TypeOK
    <2>3. {Fresh(x, delivery[x].attempts + 1, "claimed") : x \in S} \in SUBSET Item
      BY <2>1, FreshTyped DEF Step
    <2>4. \A i \in {Fresh(x, delivery[x].attempts + 1, "claimed") : x \in S} : i.step # "settle"
      BY DEF Fresh
    <2> QED
      BY <1>2, <2>2, <2>3, <2>4, RoundTyped DEF Claim, TypeInv, TypeOK
  <1>3. CASE Process(w)
    <2>1. {Recheck(i) : i \in hand[w]} \in SUBSET Item
      BY RecheckTyped DEF TypeInv, TypeOK
    <2>2. ASSUME NEW i \in hand[w], Recheck(i).step = "settle"
          PROVE  Recheck(i).res \in {"expired", "skipped"}
      BY <1>h, <2>2 DEF Recheck, Item
    <2> QED
      BY <1>3, <2>1, <2>2, HandTyped DEF Process, TypeInv, TypeOK
  <1>4. ASSUME NEW i \in hand[w], Settle(w, i)
        PROVE  TypeInv'
    <2>1. Finish(delivery[i.x], i.res) \in Row
      BY <1>h, <1>4, FinishTyped DEF Settle, TypeInv, VerdictsSettle, TypeOK, FinalStatus
    <2> QED
      BY <1>h, <1>4, <2>1, WhileSendingTyped, HandTyped
      DEF Settle, Drop, TypeInv, VerdictsSettle, TypeOK
  <1>5. ASSUME NEW chunk \in SUBSET hand[w], SendChunk(w, chunk)
        PROVE  TypeInv'
    <2>1. PICK answer \in Answers(chunk) :
             /\ hand' = [hand EXCEPT ![w] = (@ \ chunk) \cup Sent(chunk, answer)]
             /\ taken' = [x \in Deliveries |->
                    taken[x] \cup ClaimsOf({i \in chunk : Takes(answer[i])}, x)]
             /\ doubt' = doubt \cup {i.x : i \in {j \in chunk : answer[j] = "lost"}}
      BY <1>5 DEF SendChunk
    <2>2. Sent(chunk, answer) \in SUBSET Item /\ \A i \in Sent(chunk, answer) : i.step = "record"
      <3>1. chunk \in SUBSET Item
        BY <1>h
      <3>2. Sent(chunk, answer) \in SUBSET Item
        BY <3>1, SentTyped
      <3>3. \A i \in Item : \A r : [i EXCEPT !.step = "record", !.res = r].step = "record"
        BY DEF Item
      <3>4. \A i \in Sent(chunk, answer) : i.step = "record"
        BY <3>1, <3>3 DEF Sent
      <3> QED BY <3>2, <3>4
    <2>3. hand' \in [Workers -> SUBSET Item] /\ VerdictsSettle'
      BY <1>h, <2>1, <2>2, HandTyped DEF TypeInv, VerdictsSettle, TypeOK
    <2>4. \A x \in Deliveries : ClaimsOf(chunk, x) \subseteq 0 .. MaxAttempts
                             /\ ClaimsOf({i \in chunk : Takes(answer[i])}, x) \subseteq 0 .. MaxAttempts
      BY <1>h DEF ClaimsOf
    <2>5. taken' \in [Deliveries -> SUBSET (0 .. MaxAttempts)]
      BY <2>1, <2>4 DEF TypeInv, TypeOK
    <2>6. sends' \in [Deliveries -> SUBSET (0 .. MaxAttempts)]
      BY <1>5, <2>4 DEF SendChunk, TypeInv, TypeOK
    <2>7. doubt' \subseteq Deliveries
      BY <1>h, <2>1 DEF TypeInv, TypeOK
    <2> QED
      BY <1>5, <2>3, <2>5, <2>6, <2>7 DEF SendChunk, TypeInv, TypeOK
  <1>6. ASSUME NEW i \in hand[w], RecordResult(w, i)
        PROVE  TypeInv'
    <2>1. Outcome(delivery[i.x], i) \in Row
      BY <1>h, OutcomeTyped DEF TypeInv, TypeOK
    <2>2. [i EXCEPT !.step = "disable"] \in Item /\ [i EXCEPT !.step = "disable"].step = "disable"
      BY <1>h DEF Item, Step
    <2>3. hand' \in [Workers -> SUBSET Item] /\ VerdictsSettle'
      BY <1>h, <1>6, <2>2, PassOnTyped DEF RecordResult
    <2>4. recorded' \in [Deliveries -> 0 .. MaxAttempts]
      BY <1>h, <1>6 DEF RecordResult, TypeInv, TypeOK
    <2> QED
      BY <1>h, <1>6, <2>1, <2>3, <2>4, WhileSendingTyped DEF RecordResult, TypeInv, TypeOK
  <1>7. ASSUME NEW i \in hand[w], InvalidateToken(w, i)
        PROVE  TypeInv'
    <2>1. hand' \in [Workers -> SUBSET Item] /\ VerdictsSettle'
      BY <1>7, HandTyped DEF InvalidateToken, Drop, TypeInv, VerdictsSettle, TypeOK
    <2>2. device' \in [Devices -> DeviceRow]
      <3>1. i.x[2] \in Devices
        BY <1>h DEF Deliveries
      <3>2. ASSUME NEW r \in DeviceRow
            PROVE  [r EXCEPT !.token = None, !.able = FALSE] \in DeviceRow
        BY DEF DeviceRow
      <3>3. device \in [Devices -> DeviceRow]
        BY DEF TypeInv, TypeOK
      <3> QED
        BY <1>7, <3>1, <3>2, <3>3 DEF InvalidateToken, DeviceRow
    <2> QED
      BY <1>7, <2>1, <2>2 DEF InvalidateToken, TypeInv, TypeOK
  <1>8. CASE EndDispatch(w)
    BY <1>8, EnterTyped DEF EndDispatch, TypeInv, TypeOK, Phase
  <1>9. ASSUME NEW chunk \in SUBSET hand[w], NEW k \in 2 .. BatchSize, RefuseChunk(w, chunk, k)
        PROVE  TypeInv'
    <2>1. hand' = [hand EXCEPT ![w] = (hand[w] \ chunk) \cup Halves(chunk, k)]
      BY <1>9 DEF RefuseChunk
    <2>2. /\ Halves(chunk, k) \in SUBSET Item
          /\ \A j \in Halves(chunk, k) : j.step # "settle"
      <3>1. \A i \in chunk : i.step = "send"
        BY <1>9 DEF RefuseChunk, Request
      <3>2. chunk \in SUBSET Item
        BY <1>h
      <3>3. Halves(chunk, k) \in SUBSET Item
        BY <3>2, HalvesTyped
      <3>4. \A j \in Halves(chunk, k) : \E i \in chunk : j.step = i.step
        BY <3>2, HalvesTyped
      <3> QED BY <3>1, <3>3, <3>4
    <2>3. hand' \in [Workers -> SUBSET Item] /\ VerdictsSettle'
      BY <1>h, <2>1, <2>2, HandTyped DEF TypeInv, VerdictsSettle, TypeOK
    <2> QED
      BY <1>9, <2>3 DEF RefuseChunk, TypeInv, TypeOK
  <1> QED
    BY <1>1, <1>2, <1>3, <1>4, <1>5, <1>6, <1>7, <1>8, <1>9 DEF DispatchStep

LEMMA ReceiptTyped ==
    ASSUME TypeInv, NEW w \in Workers, ReceiptStep(w) \/ ReceiptsFail(w)
    PROVE  TypeInv'
  <1> USE DEF rows, outside, local, history, budget
  <1>h. \A i \in hand[w] : i \in Item /\ i.x \in Deliveries /\ i.n \in 0 .. MaxAttempts
    BY DEF TypeInv, TypeOK, Item
  <1>r. \A x \in Deliveries : delivery[x] \in Row
    BY DEF TypeInv, TypeOK
  <1>1. ASSUME NEW S \in SUBSET Deliveries, CollectReceipts(w, S)
        PROVE  TypeInv'
    <2>1. ASSUME NEW x \in S
          PROVE  [delivery[x] EXCEPT !.lease = "running"] \in Row
      BY <1>r DEF Row
    <2>2. delivery' \in [Deliveries -> Row]
      BY <1>1, <1>r, <2>1 DEF CollectReceipts
    <2>3. {ReceiptItem(x) : x \in S} \in SUBSET Item
      BY ReceiptItemTyped DEF TypeInv
    <2>4. \A i \in {ReceiptItem(x) : x \in S} : i.step # "settle"
      BY DEF ReceiptItem
    <2> QED
      BY <1>1, <2>2, <2>3, <2>4, RoundTyped DEF CollectReceipts, TypeInv, TypeOK
  <1>2. CASE ReceiptsAnswered(w)
    <2>1. PICK answer \in [hand[w] -> ReceiptAnswer] :
             hand' = [hand EXCEPT ![w] =
                 {[i EXCEPT !.step = "apply", !.res = answer[i]] : i \in @}]
      BY <1>2 DEF ReceiptsAnswered
    <2>2. ASSUME NEW i \in hand[w]
          PROVE  /\ [i EXCEPT !.step = "apply", !.res = answer[i]] \in Item
                 /\ [i EXCEPT !.step = "apply", !.res = answer[i]].step = "apply"
      <3>1. answer[i] \in Result
        BY DEF ReceiptAnswer, Result
      <3> QED
        BY <1>h, <3>1 DEF Item, Step
    <2> DEFINE S == {[i EXCEPT !.step = "apply", !.res = answer[i]] : i \in hand[w]}
    <2>3. S \in SUBSET Item /\ \A i \in S : i.step = "apply"
      BY <2>2
    <2>4. hand' = [hand EXCEPT ![w] = S]
      BY <2>1
    <2>5. hand' \in [Workers -> SUBSET Item] /\ VerdictsSettle'
      BY <2>3, <2>4, HandTyped
    <2> QED
      BY <1>2, <2>5 DEF ReceiptsAnswered, TypeInv, TypeOK
  <1>3. ASSUME NEW i \in hand[w], ApplyReceipt(w, i)
        PROVE  TypeInv'
    <2>1. delivery' \in [Deliveries -> Row]
      BY <1>h, <1>r, <1>3, ReceiptOutcomeTyped DEF ApplyReceipt, TypeInv, TypeOK
    <2>2. [i EXCEPT !.step = "disable"] \in Item /\ [i EXCEPT !.step = "disable"].step = "disable"
      BY <1>h DEF Item, Step
    <2>3. hand' \in [Workers -> SUBSET Item] /\ VerdictsSettle'
      BY <1>h, <1>3, <2>2, PassOnTyped DEF ApplyReceipt
    <2>4. doubt' \subseteq Deliveries
      BY <1>h, <1>3 DEF ApplyReceipt, TypeInv, TypeOK
    <2> QED
      BY <1>3, <2>1, <2>3, <2>4 DEF ApplyReceipt, TypeInv, TypeOK
  <1>4. CASE EndReceipts(w)
    BY <1>4, EnterTyped DEF EndReceipts, TypeInv, TypeOK, Phase
  <1>5. CASE ReceiptsFail(w)
    <2>1. ASSUME NEW x \in Deliveries
          PROVE  AskLater(delivery[x]) \in Row
      BY <1>r DEF AskLater, Row
    <2>2. delivery' \in [Deliveries -> Row]
      BY <1>5, <1>r, <2>1 DEF ReceiptsFail
    <2> QED
      BY <1>5, <2>2, EnterTyped DEF ReceiptsFail, TypeInv, TypeOK, Phase
  <1> QED
    BY <1>1, <1>2, <1>3, <1>4, <1>5 DEF ReceiptStep

LEMMA MessagesTyped ==
    ASSUME TypeInv, NEW w \in Workers,
           \/ \E m \in Messages : Enqueue(m) \/ FanOutOne(w, m)
           \/ Complete(w)
           \/ \E S \in SUBSET Messages : Purge(w, S)
           \/ StepFails(w)
           \/ Crash(w)
    PROVE  TypeInv'
  <1> USE DEF rows, outside, local, history, budget
  <1>1. ASSUME NEW m \in Messages, Enqueue(m)
        PROVE  TypeInv'
    BY <1>1 DEF Enqueue, TypeInv, VerdictsSettle, TypeOK, MessageStatus
  <1>2. ASSUME NEW m \in Messages, FanOutOne(w, m)
        PROVE  TypeInv'
    <2>1. ASSUME NEW d \in Devices
          PROVE  FreshRow(d) \in Row
      <3>1. device[d].owner \in Users \cup {None}
        BY DEF TypeInv, TypeOK, DeviceRow
      <3>2. 0 \in 0 .. MaxAttempts
        BY AttemptsAssumption
      <3> QED
        BY <3>1, <3>2 DEF FreshRow, NoRow, Row, OpenStatus
    <2>2. delivery' \in [Deliveries -> Row]
      BY <1>2, <2>1 DEF FanOutOne, Deliveries, TypeInv, TypeOK
    <2>3. message' \in [Messages -> MessageStatus]
      BY <1>2 DEF FanOutOne, TypeInv, TypeOK, MessageStatus
    <2> QED
      BY <1>2, <2>2, <2>3, RoundTyped DEF FanOutOne, TypeInv, TypeOK
  <1>3. CASE Complete(w)
    BY <1>3, EnterTyped DEF Complete, TypeInv, TypeOK, Phase, MessageStatus
  <1>4. ASSUME NEW S \in SUBSET Messages, Purge(w, S)
        PROVE  TypeInv'
    <2>1. delivery' \in [Deliveries -> Row]
      BY <1>4, NoRowTyped DEF Purge, TypeInv, TypeOK
    <2> QED
      BY <1>4, <2>1, EnterTyped DEF Purge, TypeInv, TypeOK, Phase, MessageStatus
  <1>5. CASE StepFails(w)
    <2>1. NextPhase[phase[w]] \in Phase
      BY DEF TypeInv, TypeOK, NextPhase, Phase
    <2> QED
      BY <1>5, <2>1, EnterTyped DEF StepFails, TypeInv, TypeOK
  <1>6. CASE Crash(w)
    BY <1>6, EnterTyped DEF Crash, TypeInv, TypeOK, Phase
  <1> QED
    BY <1>1, <1>2, <1>3, <1>4, <1>5, <1>6

LEMMA TimeTyped ==
    ASSUME TypeInv, Time
    PROVE  TypeInv'
  <1> USE DEF rows, outside, local, history, budget
  <1>r. \A x \in Deliveries : delivery[x] \in Row
    BY DEF TypeInv, TypeOK
  <1>1. ASSUME NEW m \in Messages, MessageExpires(m)
        PROVE  TypeInv'
    BY <1>1 DEF MessageExpires, TypeInv, VerdictsSettle, TypeOK
  <1>2. ASSUME NEW x \in Deliveries, BecomesDue(x)
        PROVE  TypeInv'
    <2>1. [delivery[x] EXCEPT !.due = TRUE] \in Row
      BY <1>r DEF Row
    <2> QED
      BY <1>2, <1>r, <2>1 DEF BecomesDue, TypeInv, VerdictsSettle, TypeOK
  <1>3. ASSUME NEW x \in Deliveries, LeaseRunsOut(x)
        PROVE  TypeInv'
    <2>1. [delivery[x] EXCEPT !.lease = "over"] \in Row
      BY <1>r DEF Row
    <2> QED
      BY <1>3, <1>r, <2>1 DEF LeaseRunsOut, TypeInv, VerdictsSettle, TypeOK
  <1>4. ASSUME NEW x \in Deliveries, TicketAges(x)
        PROVE  TypeInv'
    <2>1. [delivery[x] EXCEPT !.old = TRUE] \in Row
      BY <1>r DEF Row
    <2> QED
      BY <1>4, <1>r, <2>1 DEF TicketAges, TypeInv, VerdictsSettle, TypeOK
  <1> QED
    BY <1>1, <1>2, <1>3, <1>4 DEF Time

LEMMA EnvironmentTyped ==
    ASSUME TypeInv, Environment
    PROVE  TypeInv'
  <1> USE DEF rows, outside, local, history, budget
  <1>d. device \in [Devices -> DeviceRow] /\ churn \in Nat
    BY DEF TypeInv, TypeOK
  <1>e. ASSUME NEW r \in DeviceRow, NEW b \in BOOLEAN
        PROVE  /\ [r EXCEPT !.token = None, !.able = FALSE] \in DeviceRow
               /\ [r EXCEPT !.able = b] \in DeviceRow
               /\ r.able \in BOOLEAN
    BY DEF DeviceRow
  <1>1. ASSUME NEW d \in Devices, NEW u \in Users, NEW t \in Tokens \cup {None}, Register(d, u, t)
        PROVE  TypeInv'
    <2>1. device' \in [Devices -> DeviceRow]
      <3>1. ASSUME NEW able \in BOOLEAN
            PROVE  [owner |-> u, token |-> t, able |-> able] \in DeviceRow
        BY DEF DeviceRow
      <3> QED
        BY <1>1, <1>d, <1>e, <3>1 DEF Register
    <2>2. Outside /\ UNCHANGED << delivery, dead >>
      BY <1>1 DEF Register
    <2> QED
      BY <2>1, <2>2 DEF Outside, TypeInv, VerdictsSettle, TypeOK
  <1>2. ASSUME NEW d \in Devices, SignOut(d)
        PROVE  TypeInv'
    <2>1. device' \in [Devices -> DeviceRow]
      BY <1>2, <1>d, <1>e DEF SignOut
    <2> QED
      BY <1>2, <2>1 DEF SignOut, Outside, TypeInv, VerdictsSettle, TypeOK
  <1>3. ASSUME NEW d \in Devices, Reconsider(d)
        PROVE  TypeInv'
    <2>1. device' \in [Devices -> DeviceRow]
      BY <1>3, <1>d, <1>e DEF Reconsider
    <2> QED
      BY <1>3, <2>1 DEF Reconsider, Outside, TypeInv, VerdictsSettle, TypeOK
  <1>4. ASSUME NEW u \in Users, DeleteAccount(u)
        PROVE  TypeInv'
    <2>1. NoDevice \in DeviceRow
      BY DEF NoDevice, DeviceRow
    <2> QED
      BY <1>4, <1>d, <2>1, NoRowTyped
      DEF DeleteAccount, Outside, TypeInv, VerdictsSettle, TypeOK
  <1>5. ASSUME NEW t \in Tokens, TokenDies(t)
        PROVE  TypeInv'
    BY <1>5 DEF TokenDies, Outside, TypeInv, VerdictsSettle, TypeOK
  <1> QED
    BY <1>1, <1>2, <1>3, <1>4, <1>5 DEF Environment

LEMMA TypeNext == TypeInv /\ [Next]_vars => TypeInv'
  <1> SUFFICES ASSUME TypeInv, [Next]_vars PROVE TypeInv'
    OBVIOUS
  <1>1. CASE \E m \in Messages : Enqueue(m)
    BY <1>1 DEF Enqueue, TypeInv, VerdictsSettle, TypeOK, MessageStatus, outside, local, history, budget
  <1>2. CASE \E w \in Workers : RunStep(w) \/ Fault(w)
    BY <1>2, DispatchTyped, ReceiptTyped, MessagesTyped DEF RunStep, Fault
  <1>3. CASE Time
    BY <1>3, TimeTyped
  <1>4. CASE Environment
    BY <1>4, EnvironmentTyped
  <1>5. CASE UNCHANGED vars
    BY <1>5 DEF vars, rows, outside, local, history, budget, TypeInv, VerdictsSettle, TypeOK
  <1> QED
    BY <1>1, <1>2, <1>3, <1>4, <1>5 DEF Next

LEMMA TypeInvariant == Spec => []TypeInv
  BY TypeInit, TypeNext, PTL DEF Spec

\* Every reachable state is well typed, for any instance of the pipeline.
THEOREM TypeCorrect == Spec => []TypeOK
  BY TypeInvariant, PTL DEF TypeInv

-----------------------------------------------------------------------------
(* The pipeline implements the delivery log *)

LogOf == [x \in Deliveries |-> Public(delivery[x].status)]

LEMMA LogInit == Init => Log!LogInit
  BY DEF Init, Log!LogInit, Log!Entries, Deliveries, NoRow, Public, OpenStatus

\* What the log shows of a well-typed row.
LEMMA PublicOf ==
    ASSUME NEW row \in Row
    PROVE  /\ Public(row.status) \in {"absent", "open"} \cup FinalStatus
           /\ Public(row.status) = "open" <=> row.status \in OpenStatus
           /\ row.status \in FinalStatus => Public(row.status) = row.status
           /\ row.status = "absent" <=> Public(row.status) = "absent"
  BY DEF Row, Public, OpenStatus, FinalStatus

\* A step that only moves rows from an open status to any other settles some
\* entries of the log, or none.
LEMMA SettlesTheLog ==
    ASSUME TypeInv, TypeInv', UNCHANGED message,
           \A x \in Deliveries :
              \/ delivery'[x].status = delivery[x].status
              \/ delivery[x].status \in OpenStatus /\ delivery'[x].status # "absent"
    PROVE  Log!LogNext
  <1>1. \A x \in Deliveries : delivery[x] \in Row /\ delivery'[x] \in Row
    BY DEF TypeInv, TypeOK
  <1>2. ASSUME NEW x \in Deliveries, Public(delivery'[x].status) # Public(delivery[x].status)
        PROVE  /\ Public(delivery[x].status) = "open"
               /\ Public(delivery'[x].status) \in FinalStatus
    BY <1>1, <1>2, PublicOf
  <1>3. \A x \in Deliveries : Public(delivery'[x].status) \in {"absent", "open"} \cup FinalStatus
    BY <1>1, PublicOf
  <1>4. Log!Settles
    BY <1>2, <1>3 DEF Log!Settles, Log!Entries, Deliveries
  <1> QED
    BY <1>4 DEF Log!LogNext

LEMMA WhileSendingSettles ==
    ASSUME TypeInv, TypeInv', UNCHANGED message, NEW x \in Deliveries, NEW row \in Row,
           row.status # "absent", WhileSending(x, row)
    PROVE  Log!LogNext
  <1>1. delivery \in [Deliveries -> Row]
    BY DEF TypeInv, TypeOK
  <1> QED
    BY <1>1, SettlesTheLog DEF WhileSending, OpenStatus

LEMMA OutcomeIsNotAbsent ==
    ASSUME NEW row \in Row, NEW i \in Item
    PROVE  /\ Outcome(row, i).status # "absent"
           /\ row.status = "accepted" => ReceiptOutcome(row, i).status # "absent"
  <1>1. ASSUME NEW status \in FinalStatus
        PROVE  Finish(row, status) \in Row /\ Finish(row, status).status # "absent"
    BY DEF Finish, FinalStatus, Row
  <1>2. Accept(row, i).status # "absent"
    BY <1>1 DEF Accept, FinalStatus, Row
  <1>3. Fail(row, i).status # "absent"
    BY <1>1 DEF Fail, FinalStatus, Row
  <1>4. RetryOrFail(row, i).status # "absent"
    BY <1>3 DEF RetryOrFail, Row
  <1>5. row.status = "accepted" => AskLater(row).status = "accepted"
    BY DEF AskLater, Row
  <1>6. [row EXCEPT !.status = "pending", !.lease = "null", !.due = FALSE, !.ticket = 0].status
           = "pending"
    BY DEF Row
  <1> QED
    BY <1>1, <1>2, <1>3, <1>4, <1>5, <1>6 DEF Outcome, ReceiptOutcome, FinalStatus

LEMMA DispatchLogged ==
    ASSUME TypeInv, TypeInv', NEW w \in Workers, DispatchStep(w) \/ FanOutFails(w)
    PROVE  Log!LogNext
  <1> USE DEF rows, outside, local, history, budget
  <1>h. \A i \in hand[w] : i \in Item /\ i.x \in Deliveries
    BY DEF TypeInv, TypeOK, Item
  <1>r. \A x \in Deliveries : delivery[x] \in Row
    BY DEF TypeInv, TypeOK
  <1>1. CASE BeginDispatch(w) \/ FanOutFails(w)
    <2>1. \A x \in Deliveries : Interrupted(x) =>
             /\ delivery[x].status \in OpenStatus
             /\ [delivery[x] EXCEPT !.status = "failed", !.lease = "null"].status = "failed"
      BY <1>r DEF Interrupted, OpenStatus, Row
    <2> QED
      BY <1>1, <2>1, SettlesTheLog DEF BeginDispatch, FanOutFails, CloseInterrupted
  <1>2. ASSUME NEW S \in SUBSET Deliveries, Claim(w, S)
        PROVE  Log!LogNext
    <2>1. \A x \in S :
             /\ delivery[x].status \in OpenStatus
             /\ [delivery[x] EXCEPT !.status = "sending", !.lease = "running",
                                    !.attempts = @ + 1].status = "sending"
      BY <1>2, <1>r DEF Claim, Claimable, OpenStatus, Row
    <2> QED
      BY <1>2, <2>1, SettlesTheLog DEF Claim
  <1>3. ASSUME NEW i \in hand[w], Settle(w, i)
        PROVE  Log!LogNext
    <2>1. i.res \in FinalStatus
      BY <1>3 DEF Settle, TypeInv, VerdictsSettle, FinalStatus
    <2>2. Finish(delivery[i.x], i.res) \in Row /\ Finish(delivery[i.x], i.res).status # "absent"
      BY <1>h, <1>r, <2>1, FinishTyped DEF FinalStatus
    <2> QED
      BY <1>h, <1>3, <2>2, WhileSendingSettles DEF Settle
  <1>4. ASSUME NEW i \in hand[w], RecordResult(w, i)
        PROVE  Log!LogNext
    BY <1>h, <1>r, <1>4, OutcomeTyped, OutcomeIsNotAbsent, WhileSendingSettles DEF RecordResult
  <1>5. ASSUME UNCHANGED << message, delivery >>
        PROVE  Log!LogNext
    BY <1>5, SettlesTheLog
  <1> QED
    BY <1>1, <1>2, <1>3, <1>4, <1>5
    DEF DispatchStep, Process, SendChunk, RefuseChunk, InvalidateToken, EndDispatch

LEMMA ReceiptLogged ==
    ASSUME TypeInv, TypeInv', NEW w \in Workers, ReceiptStep(w) \/ ReceiptsFail(w)
    PROVE  Log!LogNext
  <1> USE DEF rows, outside, local, history, budget
  <1>h. \A i \in hand[w] : i \in Item /\ i.x \in Deliveries
    BY DEF TypeInv, TypeOK, Item
  <1>r. delivery \in [Deliveries -> Row]
    BY DEF TypeInv, TypeOK
  <1>1. ASSUME NEW S \in SUBSET Deliveries, CollectReceipts(w, S)
        PROVE  Log!LogNext
    <2>1. \A x \in Deliveries : delivery'[x].status = delivery[x].status
      BY <1>1, <1>r DEF CollectReceipts, Row
    <2> QED
      BY <1>1, <2>1, SettlesTheLog DEF CollectReceipts
  <1>2. ASSUME NEW i \in hand[w], ApplyReceipt(w, i)
        PROVE  Log!LogNext
    <2>1. \A x \in Deliveries :
             \/ delivery'[x].status = delivery[x].status
             \/ delivery[x].status \in OpenStatus /\ delivery'[x].status # "absent"
      BY <1>h, <1>r, <1>2, OutcomeIsNotAbsent DEF ApplyReceipt, OpenStatus
    <2> QED
      BY <1>2, <2>1, SettlesTheLog DEF ApplyReceipt
  <1>3. CASE ReceiptsFail(w)
    <2>1. \A x \in Deliveries : delivery'[x].status = delivery[x].status
      BY <1>3, <1>r DEF ReceiptsFail, AskLater, Row
    <2> QED
      BY <1>3, <2>1, SettlesTheLog DEF ReceiptsFail
  <1>4. ASSUME UNCHANGED << message, delivery >>
        PROVE  Log!LogNext
    BY <1>4, SettlesTheLog
  <1> QED
    BY <1>1, <1>2, <1>3, <1>4 DEF ReceiptStep, ReceiptsAnswered, EndReceipts

LEMMA MessagesLogged ==
    ASSUME TypeInv, TypeInv', NEW w \in Workers,
           \/ \E m \in Messages : Enqueue(m) \/ FanOutOne(w, m)
           \/ Complete(w)
           \/ \E S \in SUBSET Messages : Purge(w, S)
           \/ StepFails(w)
           \/ Crash(w)
    PROVE  Log!LogNext
  <1> USE DEF rows, outside, local, history, budget
  <1>r. delivery \in [Deliveries -> Row]
    BY DEF TypeInv, TypeOK
  <1>1. ASSUME NEW m \in Messages, Enqueue(m)
        PROVE  Log!LogNext
    <2>1. Log!Queue(m)
      BY <1>1 DEF Enqueue, Log!Queue
    <2> QED
      BY <2>1 DEF Log!LogNext
  <1>2. ASSUME NEW m \in Messages, FanOutOne(w, m)
        PROVE  Log!LogNext
    <2>1. CASE m \in expired
      <3>1. Log!Cancel(m)
        BY <1>2, <2>1 DEF FanOutOne, Log!Cancel
      <3> QED
        BY <3>1 DEF Log!LogNext
    <2>2. CASE m \notin expired
      <3>1. Resolve(m) \in SUBSET Devices
        BY DEF Resolve
      <3>2. \A d \in Devices : Public(FreshRow(d).status) = "open"
        BY DEF FreshRow, NoRow, Public, OpenStatus
      <3>3. \A x \in Deliveries : Public(delivery'[x].status) =
               IF x[1] = m /\ x[2] \in Resolve(m) THEN "open" ELSE Public(delivery[x].status)
        BY <1>2, <2>2, <3>2 DEF FanOutOne, Deliveries
      <3>4. Log!FanOut(m)
        BY <1>2, <2>2, <3>1, <3>3 DEF FanOutOne, Log!FanOut, Log!Entries, Deliveries
      <3> QED
        BY <3>4 DEF Log!LogNext
    <2> QED
      BY <2>1, <2>2
  <1>3. CASE Complete(w)
    <2> DEFINE S == {m \in Messages : message[m] = "fanned_out" /\ AllSettled(m)}
    <2>1. \A m \in S : \A d \in Devices : Public(delivery[<<m, d>>].status) # "open"
      BY <1>r, PublicOf DEF AllSettled, Deliveries
    <2>2. Log!CompleteAll(S)
      BY <1>3, <2>1 DEF Complete, Log!CompleteAll, Deliveries
    <2> QED
      BY <2>2 DEF Log!LogNext
  <1>4. ASSUME NEW S \in SUBSET Messages, Purge(w, S)
        PROVE  Log!LogNext
    <2>1. Public(NoRow.status) = "absent"
      BY DEF NoRow, Public, OpenStatus
    <2>2. Log!Forget(S)
      BY <1>4, <2>1 DEF Purge, Log!Forget, Log!Entries, Deliveries
    <2> QED
      BY <2>2 DEF Log!LogNext
  <1>5. ASSUME UNCHANGED << message, delivery >>
        PROVE  Log!LogNext
    BY <1>5, SettlesTheLog
  <1> QED
    BY <1>1, <1>2, <1>3, <1>4, <1>5 DEF StepFails, Crash

LEMMA OutsideLogged ==
    ASSUME TypeInv, TypeInv', Time \/ Environment
    PROVE  Log!LogNext
  <1> USE DEF rows, outside, local, history, budget
  <1>r. delivery \in [Deliveries -> Row]
    BY DEF TypeInv, TypeOK
  <1>1. CASE Time
    <2>1. \A x \in Deliveries : delivery'[x].status = delivery[x].status
      BY <1>1, <1>r DEF Time, MessageExpires, BecomesDue, LeaseRunsOut, TicketAges, Row
    <2> QED
      BY <1>1, <2>1, SettlesTheLog DEF Time, MessageExpires, BecomesDue, LeaseRunsOut, TicketAges
  <1>2. ASSUME NEW u \in Users, DeleteAccount(u)
        PROVE  Log!LogNext
    <2> DEFINE D == {d \in Devices : device[d].owner = u}
    <2>1. Public(NoRow.status) = "absent"
      BY DEF NoRow, Public, OpenStatus
    <2>2. \A x \in Deliveries : x[2] \in D <=> device[x[2]].owner = u
      BY DEF Deliveries
    <2>3. Log!DropDevices(D)
      BY <1>2, <2>1, <2>2 DEF DeleteAccount, Outside, Log!DropDevices, Log!Entries, Deliveries
    <2> QED
      BY <2>3 DEF Log!LogNext
  <1>3. ASSUME UNCHANGED << message, delivery >>
        PROVE  Log!LogNext
    BY <1>3, SettlesTheLog
  <1> QED
    BY <1>1, <1>2, <1>3
    DEF Environment, Outside, Register, SignOut, Reconsider, TokenDies

LEMMA LogStep ==
    ASSUME TypeInv, TypeInv', [Next]_vars
    PROVE  [Log!LogNext]_(Log!logVars)
  <1>1. CASE \E m \in Messages : Enqueue(m)
    <2>1. ASSUME NEW m \in Messages, Enqueue(m)
          PROVE  Log!Queue(m)
      BY <2>1 DEF Enqueue, Log!Queue
    <2> QED
      BY <1>1, <2>1 DEF Log!LogNext
  <1>2. CASE \E w \in Workers : RunStep(w) \/ Fault(w)
    BY <1>2, DispatchLogged, ReceiptLogged, MessagesLogged DEF RunStep, Fault
  <1>3. CASE Time \/ Environment
    BY <1>3, OutsideLogged
  <1>4. CASE UNCHANGED vars
    BY <1>4 DEF vars, rows, Log!logVars
  <1> QED
    BY <1>1, <1>2, <1>3, <1>4 DEF Next

\* The pipeline implements the delivery log: an outcome is recorded once and is
\* never revised, a message is completed only when all its deliveries are
\* settled, and nothing is logged for a message that is not sent out.
THEOREM LogKept == Spec => KeepsTheLog
  <1>1. TypeInv /\ TypeInv' /\ [Next]_vars => [Log!LogNext]_(Log!logVars)
    BY LogStep
  <1> QED
    BY <1>1, LogInit, TypeInvariant, PTL DEF Spec, KeepsTheLog, Log!LogSpec

-----------------------------------------------------------------------------
(* Completed messages *)

\* CompletedMeansSettled, said of the log.
LogSettled ==
    \A m \in Messages :
        /\ message[m] = "completed" => \A d \in Devices : Public(delivery[<<m, d>>].status) # "open"
        /\ message[m] \in {"absent", "pending", "cancelled", "purged"} =>
               \A d \in Devices : Public(delivery[<<m, d>>].status) = "absent"

LEMMA LogSettledIsCompletedMeansSettled ==
    ASSUME TypeInv
    PROVE  LogSettled <=> CompletedMeansSettled
  <1>1. \A m \in Messages, d \in Devices : delivery[<<m, d>>] \in Row
    BY DEF TypeInv, TypeOK, Deliveries
  <1> QED
    BY <1>1, PublicOf DEF LogSettled, CompletedMeansSettled

LEMMA LogSettledNext ==
    ASSUME TypeInv, LogSettled, [Log!LogNext]_(Log!logVars)
    PROVE  LogSettled'
  <1> DEFINE entry(m, d) == Public(delivery[<<m, d>>].status)
  <1>m. message \in [Messages -> MessageStatus]
    BY DEF TypeInv, TypeOK
  <1>v. \A m \in Messages, d \in Devices : <<m, d>> \in Deliveries /\ <<m, d>>[1] = m /\ <<m, d>>[2] = d
    BY DEF Deliveries
  <1>l. \A m \in Messages, d \in Devices :
           LogOf[<<m, d>>] = entry(m, d) /\ LogOf'[<<m, d>>] = entry(m, d)'
    BY <1>v DEF LogOf
  <1>f. "open" \notin FinalStatus /\ "absent" \notin FinalStatus
    BY DEF FinalStatus
  <1>1. ASSUME NEW m \in Messages, Log!Queue(m) \/ Log!Cancel(m)
        PROVE  LogSettled'
    <2>0. LogOf' = LogOf
      BY <1>1 DEF Log!Queue, Log!Cancel, LogOf
    <2>1. \A n \in Messages, d \in Devices : entry(n, d)' = entry(n, d)
      BY <1>l, <2>0
    <2> QED
      BY <1>1, <1>m, <2>1 DEF LogSettled, Log!Queue, Log!Cancel
  <1>2. ASSUME NEW m \in Messages, Log!FanOut(m)
        PROVE  LogSettled'
    <2>1. \A n \in Messages, d \in Devices : n # m => entry(n, d)' = entry(n, d)
      BY <1>2, <1>v DEF Log!FanOut, Log!Entries, Deliveries
    <2> QED
      BY <1>2, <1>m, <2>1 DEF LogSettled, Log!FanOut
  <1>3. CASE Log!Settles
    <2>1. \A n \in Messages, d \in Devices :
             entry(n, d)' # entry(n, d) => entry(n, d) = "open" /\ entry(n, d)' \in FinalStatus
      BY <1>3, <1>v, <1>l DEF Log!Settles, Log!Entries, Deliveries, LogOf
    <2> QED
      BY <1>3, <1>f, <2>1 DEF LogSettled, Log!Settles
  <1>4. ASSUME NEW S \in SUBSET Messages, Log!CompleteAll(S)
        PROVE  LogSettled'
    <2>0. LogOf' = LogOf
      BY <1>4 DEF Log!CompleteAll, LogOf
    <2>1. \A n \in Messages, d \in Devices : entry(n, d)' = entry(n, d)
      BY <1>l, <2>0
    <2>2. \A n \in S, d \in Devices : entry(n, d) # "open"
      BY <1>4, <1>v DEF Log!CompleteAll
    <2> QED
      BY <1>4, <1>m, <2>1, <2>2 DEF LogSettled, Log!CompleteAll
  <1>5. ASSUME NEW S \in SUBSET Messages, Log!Forget(S)
        PROVE  LogSettled'
    <2>1. \A n \in Messages, d \in Devices :
             entry(n, d)' = IF n \in S THEN "absent" ELSE entry(n, d)
      <3>1. LogOf' = [x \in Deliveries |-> IF x[1] \in S THEN "absent" ELSE LogOf[x]]
        BY <1>5 DEF Log!Forget, Log!Entries, Deliveries, LogOf
      <3>2. ASSUME NEW n \in Messages, NEW d \in Devices
            PROVE  LogOf'[<<n, d>>] = IF n \in S THEN "absent" ELSE LogOf[<<n, d>>]
        BY <1>v, <3>1
      <3> HIDE DEF entry
      <3> QED
        BY <1>l, <3>2
    <2> QED
      BY <1>5, <1>m, <2>1 DEF LogSettled, Log!Forget
  <1>6. ASSUME NEW D \in SUBSET Devices, Log!DropDevices(D)
        PROVE  LogSettled'
    <2>1. \A n \in Messages, d \in Devices :
             entry(n, d)' = IF d \in D THEN "absent" ELSE entry(n, d)
      <3>1. LogOf' = [x \in Deliveries |-> IF x[2] \in D THEN "absent" ELSE LogOf[x]]
        BY <1>6 DEF Log!DropDevices, Log!Entries, Deliveries, LogOf
      <3>2. ASSUME NEW n \in Messages, NEW d \in Devices
            PROVE  LogOf'[<<n, d>>] = IF d \in D THEN "absent" ELSE LogOf[<<n, d>>]
        BY <1>v, <3>1
      <3> HIDE DEF entry
      <3> QED
        BY <1>l, <3>2
    <2> QED
      BY <1>6, <2>1 DEF LogSettled, Log!DropDevices
  <1>7. CASE UNCHANGED Log!logVars
    <2>0. LogOf' = LogOf
      BY <1>7 DEF Log!logVars, LogOf
    <2>1. \A n \in Messages, d \in Devices : entry(n, d)' = entry(n, d)
      BY <1>l, <2>0
    <2> QED
      BY <1>7, <2>1 DEF LogSettled, Log!logVars
  <1> QED
    BY <1>1, <1>2, <1>3, <1>4, <1>5, <1>6, <1>7 DEF Log!LogNext

\* A message is completed only when every delivery has its outcome, and one that
\* was not fanned out has none, however many workers work on it.
THEOREM CompletedSettled == Spec => []CompletedMeansSettled
  <1>1. Init => LogSettled
    BY DEF Init, LogSettled, NoRow, Public, OpenStatus, Deliveries
  <1>2. TypeInv /\ TypeInv' /\ LogSettled /\ [Next]_vars => LogSettled'
    BY LogStep, LogSettledNext
  <1>3. TypeInv /\ LogSettled => CompletedMeansSettled
    BY LogSettledIsCompletedMeansSettled
  <1> QED
    BY <1>1, <1>2, <1>3, TypeInvariant, PTL DEF Spec

=============================================================================
