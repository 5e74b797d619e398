-------------------------- MODULE PushClaimsProofs --------------------------
(***************************************************************************)
(* How often a delivery is handed to the provider, for all workers,        *)
(* messages, devices and bounds: once per claim, apart from the requests   *)
(* the provider refuses whole, and once altogether unless something that   *)
(* nobody could see made it doubtful.                                      *)
(***************************************************************************)
EXTENDS PushPipelineProofs

-----------------------------------------------------------------------------
(* Claims *)

\* An item on its way from the claim to the record of its outcome; one not sent yet.
Live(i) == i.step \in {"claimed", "settle", "send", "record"}
Unsent(i) == i.step \in {"claimed", "settle", "send"}
Queued(m) == message[m] \notin {"absent", "pending"}

\* Nothing is worked on before its message is fanned out, so that a new row never meets old
\* work; a row counts every claim there was, so that a new claim has a new number.
WorkIsQueued ==
    /\ \A x \in Deliveries : sends[x] # {} => Queued(x[1])
    /\ \A w \in Workers : \A i \in hand[w] : Live(i) => Queued(i.x[1])

ClaimsAreCounted ==
    /\ \A x \in Deliveries : delivery[x].status # "absent" =>
          \A n \in sends[x] : n <= delivery[x].attempts
    /\ \A w \in Workers : \A i \in hand[w] :
          Live(i) /\ delivery[i.x].status # "absent" => i.n <= delivery[i.x].attempts

\* A claim is held once, and an unsent one has not been sent.
ClaimsAreHeldOnce ==
    /\ \A w, v \in Workers : \A i \in hand[w], j \in hand[v] :
          Live(i) /\ Live(j) /\ i.x = j.x /\ i.n = j.n => w = v /\ i = j
    /\ \A w \in Workers : \A i \in hand[w] : Unsent(i) => i.n \notin sends[i.x]

\* The recheck finds claimed rows only.
Uniform ==
    \A w \in Workers : \/ \A i \in hand[w] : i.step = "claimed"
                       \/ \A i \in hand[w] : i.step # "claimed"

ClaimsInv == WorkIsQueued /\ ClaimsAreCounted /\ ClaimsAreHeldOnce /\ Uniform

LEMMA ItemsTyped ==
    ASSUME TypeInv
    PROVE  /\ \A w \in Workers : \A i \in hand[w] :
                 i \in Item /\ i.x \in Deliveries /\ i.x[1] \in Messages /\ i.n \in Nat
           /\ delivery \in [Deliveries -> Row]
           /\ \A x \in Deliveries : x[1] \in Messages /\ delivery[x] \in Row /\ delivery[x].attempts \in Nat
  <1>1. \A w \in Workers : \A i \in hand[w] : i \in Item
    BY DEF TypeInv, TypeOK
  <1>2. \A i \in Item : i.x \in Deliveries /\ i.n \in Nat
    BY AttemptsAssumption DEF Item
  <1>3. \A x \in Deliveries : delivery[x] \in Row /\ x[1] \in Messages
    BY DEF TypeInv, TypeOK, Deliveries
  <1>4. \A row \in Row : row.attempts \in Nat
    BY AttemptsAssumption DEF Row
  <1>5. delivery \in [Deliveries -> Row]
    BY DEF TypeInv, TypeOK
  <1> QED BY <1>1, <1>2, <1>3, <1>4, <1>5

\* Steps that bring no live item: what the hands keep, they had.
Shrinks == \A v \in Workers : \A i \in hand'[v] : Live(i) => i \in hand[v]

\* Steps that claim nothing: a row keeps its count, goes, or is new.
CountKept(x) ==
    \/ delivery'[x].status = "absent"
    \/ delivery[x].status # "absent" /\ delivery'[x].attempts = delivery[x].attempts
    \/ message[x[1]] = "pending"

Advances == \A m \in Messages : Queued(m) => message'[m] \notin {"absent", "pending"}

LEMMA ShrinkingKeepsClaims ==
    ASSUME TypeInv, ClaimsInv, Shrinks, Uniform', sends' = sends, Advances,
           \A x \in Deliveries : CountKept(x)
    PROVE  ClaimsInv'
  <1>1. WorkIsQueued'
    BY ItemsTyped DEF ClaimsInv, WorkIsQueued, Shrinks, Advances, Queued
  <1>2. ClaimsAreCounted'
    <2>1. ASSUME NEW x \in Deliveries, delivery'[x].status # "absent", NEW n \in sends'[x]
          PROVE  n <= delivery'[x].attempts
      BY <2>1 DEF ClaimsInv, WorkIsQueued, ClaimsAreCounted, CountKept, Queued
    <2>2. ASSUME NEW w \in Workers, NEW i \in hand'[w], Live(i), delivery'[i.x].status # "absent"
          PROVE  i.n <= delivery'[i.x].attempts
      <3>1. i \in hand[w] /\ i.x \in Deliveries
        BY <2>2, ItemsTyped DEF Shrinks
      <3> QED BY <2>2, <3>1 DEF ClaimsInv, WorkIsQueued, ClaimsAreCounted, CountKept, Queued
    <2> QED BY <2>1, <2>2 DEF ClaimsAreCounted
  <1>3. ClaimsAreHeldOnce'
    <2>1. \A i : Unsent(i) => Live(i)
      BY DEF Unsent, Live
    <2> QED BY <2>1 DEF ClaimsInv, ClaimsAreHeldOnce, Shrinks
  <1> QED BY <1>1, <1>2, <1>3 DEF ClaimsInv

\* What the helpers that change one hand do.
LEMMA ShrinkingMoves ==
    ASSUME TypeInv, Uniform, NEW w \in Workers
    PROVE  /\ \A p : Enter(w, p) => Shrinks /\ Uniform'
           /\ \A S : Round(w, S) /\ (\A i \in S : ~Live(i)) => Shrinks /\ Uniform'
           /\ \A i : Drop(w, i) => Shrinks /\ Uniform'
           /\ \A i, j : Replace(w, i, j) /\ i \in hand[w] /\ i.step # "claimed" /\ ~Live(j)
                           => Shrinks /\ Uniform'
           /\ hand' = hand => Shrinks /\ Uniform'
  <1>1. ASSUME NEW S, hand' = [hand EXCEPT ![w] = S]
        PROVE  \A v \in Workers : hand'[v] = IF v = w THEN S ELSE hand[v]
    BY <1>1 DEF TypeInv, TypeOK
  <1>2. \A i : ~Live(i) => i.step # "claimed"
    BY DEF Live
  <1>3. ASSUME NEW S, \A v \in Workers : hand'[v] = (IF v = w THEN S ELSE hand[v]),
               \A i \in S : Live(i) => i \in hand[w],
               (\A i \in S : i.step = "claimed") \/ (\A i \in S : i.step # "claimed")
        PROVE  Shrinks /\ Uniform'
    BY <1>3 DEF Shrinks, Uniform
  <1>4. \A p : Enter(w, p) => Shrinks /\ Uniform'
    BY <1>1, <1>3 DEF Enter
  <1>5. \A S : Round(w, S) /\ (\A i \in S : ~Live(i)) => Shrinks /\ Uniform'
    BY <1>1, <1>2, <1>3 DEF Round
  <1>6. ASSUME NEW i, Drop(w, i) PROVE Shrinks /\ Uniform'
    <2>1. \A v \in Workers : hand'[v] = IF v = w THEN hand[w] \ {i} ELSE hand[v]
      BY <1>6, <1>1 DEF Drop
    <2> QED BY <2>1, <1>3 DEF Uniform
  <1>7. ASSUME NEW i, NEW j, Replace(w, i, j), i \in hand[w], i.step # "claimed", ~Live(j)
        PROVE  Shrinks /\ Uniform'
    <2>1. \A v \in Workers : hand'[v] = IF v = w THEN (hand[w] \ {i}) \cup {j} ELSE hand[v]
      BY <1>7, <1>1 DEF Replace
    <2>2. \A k \in hand[w] : k.step # "claimed"
      BY <1>7 DEF Uniform
    <2> QED BY <1>2, <1>3, <1>7, <2>1, <2>2
  <1>8. hand' = hand => Shrinks /\ Uniform'
    BY DEF Shrinks, Uniform
  <1> QED BY <1>4, <1>5, <1>6, <1>7, <1>8

LEMMA ClaimKeepsClaims ==
    ASSUME TypeInv, CompletedMeansSettled, ClaimsInv, NEW w \in Workers,
           NEW S \in SUBSET Deliveries, Claim(w, S)
    PROVE  ClaimsInv'
  <1> USE DEF rows, outside, local, history, budget
  <1> DEFINE new == {Fresh(x, delivery[x].attempts + 1, "claimed") : x \in S}
  <1>1. \A v \in Workers : hand'[v] = IF v = w THEN new ELSE hand[v]
    BY DEF Claim, Round, TypeInv, TypeOK
  <1>2. \A i \in new : /\ i.x \in S /\ i.n = delivery[i.x].attempts + 1 /\ i.step = "claimed"
                        /\ i = Fresh(i.x, i.n, "claimed")
    BY DEF Fresh
  <1> HIDE DEF new
  <1>3. ASSUME NEW x \in S
        PROVE  /\ x \in Deliveries /\ delivery[x].status # "absent" /\ Queued(x[1])
               /\ delivery'[x].attempts = delivery[x].attempts + 1
    <2>1. x \in Deliveries /\ delivery[x] \in Row /\ delivery[x].status \in {"pending", "sending"}
      BY ItemsTyped DEF Claim, Claimable
    <2>2. Queued(x[1])
      BY <2>1 DEF CompletedMeansSettled, Deliveries, Queued
    <2>3. delivery'[x].attempts = delivery[x].attempts + 1
      BY <2>1 DEF Claim, Row
    <2> QED BY <2>1, <2>2, <2>3
  <1>4. \A x \in Deliveries \ S : delivery'[x] = delivery[x]
    BY DEF Claim
  <1>5. message' = message /\ sends' = sends
    BY DEF Claim
  <1>6. WorkIsQueued'
    BY <1>1, <1>2, <1>3, <1>5 DEF ClaimsInv, WorkIsQueued, Queued
  <1>7. ClaimsAreCounted'
    <2>1. ASSUME NEW x \in Deliveries, delivery'[x].status # "absent", NEW n \in sends[x]
          PROVE  n <= delivery'[x].attempts
      <3>1. n \in Nat /\ delivery[x].attempts \in Nat
        BY ItemsTyped, AttemptsAssumption DEF TypeInv, TypeOK
      <3> QED BY <2>1, <1>3, <1>4, <3>1 DEF ClaimsInv, ClaimsAreCounted
    <2>2. ASSUME NEW v \in Workers, NEW i \in hand'[v], Live(i), delivery'[i.x].status # "absent"
          PROVE  i.n <= delivery'[i.x].attempts
      <3>1. CASE i \in hand[v]
        <4>1. i.n \in Nat /\ i.x \in Deliveries /\ delivery[i.x].attempts \in Nat
          BY <3>1, ItemsTyped
        <4> QED BY <2>2, <3>1, <4>1, <1>3, <1>4 DEF ClaimsInv, ClaimsAreCounted
      <3>2. CASE i \in new
        <4>1. delivery[i.x].attempts \in Nat
          BY <3>2, <1>2, ItemsTyped
        <4> QED BY <3>2, <4>1, <1>2, <1>3
      <3> QED BY <1>1, <2>2, <3>1, <3>2
    <2> QED BY <1>5, <2>1, <2>2 DEF ClaimsAreCounted
  <1>8. ClaimsAreHeldOnce'
    <2>1. ASSUME NEW i \in new, NEW v \in Workers, NEW j \in hand[v], Live(j), i.x = j.x
          PROVE  i.n # j.n
      <3>1. i.n = delivery[i.x].attempts + 1 /\ delivery[i.x].status # "absent"
        BY <1>2, <1>3
      <3>2. j.n \in Nat /\ delivery[i.x].attempts \in Nat /\ j.n <= delivery[i.x].attempts
        BY <2>1, <3>1, <1>2, ItemsTyped DEF ClaimsInv, ClaimsAreCounted
      <3> QED BY <3>1, <3>2
    <2>2. ASSUME NEW i \in new PROVE i.n \notin sends[i.x]
      <3>1. i.n = delivery[i.x].attempts + 1 /\ delivery[i.x].status # "absent" /\ i.x \in Deliveries
        BY <1>2, <1>3
      <3>2. \A n \in sends[i.x] : n \in Nat /\ n <= delivery[i.x].attempts
        BY <3>1, AttemptsAssumption DEF ClaimsInv, ClaimsAreCounted, TypeInv, TypeOK
      <3>3. delivery[i.x].attempts \in Nat
        BY <3>1, ItemsTyped
      <3> QED BY <3>1, <3>2, <3>3
    <2>3. \A v \in Workers : \A i \in hand'[v] : i \in hand[v] \/ (v = w /\ i \in new)
      BY <1>1
    <2>4. \A i \in new, j \in new : i.x = j.x /\ i.n = j.n => i = j
      BY <1>2
    <2>5. ASSUME NEW u \in Workers, NEW v \in Workers, NEW i \in hand'[u], NEW j \in hand'[v],
                 Live(i), Live(j), i.x = j.x, i.n = j.n
          PROVE  u = v /\ i = j
      <3>1. CASE i \in hand[u] /\ j \in hand[v]
        BY <2>5, <3>1 DEF ClaimsInv, ClaimsAreHeldOnce
      <3>2. CASE i \in new /\ u = w
        BY <2>1, <2>3, <2>4, <2>5, <3>2
      <3>3. CASE j \in new /\ v = w
        BY <2>1, <2>3, <2>4, <2>5, <3>3
      <3> QED BY <2>3, <3>1, <3>2, <3>3
    <2>6. ASSUME NEW v \in Workers, NEW i \in hand'[v], Unsent(i)
          PROVE  i.n \notin sends[i.x]
      BY <2>2, <2>3, <2>6 DEF ClaimsInv, ClaimsAreHeldOnce
    <2> QED BY <1>5, <2>5, <2>6 DEF ClaimsAreHeldOnce
  <1>9. Uniform'
    BY <1>1, <1>2 DEF ClaimsInv, Uniform
  <1> QED BY <1>6, <1>7, <1>8, <1>9 DEF ClaimsInv

LEMMA RecheckKeeps ==
    ASSUME NEW i \in Item
    PROVE  /\ Recheck(i).x = i.x /\ Recheck(i).n = i.n
           /\ Recheck(i).step \in {"settle", "send"}
  BY DEF Recheck, Item

LEMMA ProcessKeepsClaims ==
    ASSUME TypeInv, ClaimsInv, NEW w \in Workers, Process(w)
    PROVE  ClaimsInv'
  <1> USE DEF rows, outside, local, history, budget
  <1>1. \A i \in hand[w] : i.step = "claimed" /\ Live(i) /\ Unsent(i)
    BY DEF Process, ClaimsInv, Uniform, Live, Unsent
  <1>2. \A v \in Workers : hand'[v] = IF v = w THEN {Recheck(i) : i \in hand[w]} ELSE hand[v]
    BY DEF Process, TypeInv, TypeOK
  <1>3. UNCHANGED << message, sends, delivery >>
    BY DEF Process
  <1>4. ASSUME NEW v \in Workers, NEW j \in hand'[v]
        PROVE  \E i \in hand[v] :
                  /\ j.x = i.x /\ j.n = i.n /\ (Live(j) => Live(i)) /\ (Unsent(j) => Unsent(i))
                  /\ IF v = w THEN j = Recheck(i) /\ Live(i) ELSE j = i
    <2>1. CASE v # w
      BY <1>2, <1>4, <2>1
    <2>2. CASE v = w
      <3>1. PICK i \in hand[w] : j = Recheck(i)
        BY <1>2, <1>4, <2>2
      <3>2. j.x = i.x /\ j.n = i.n
        BY <3>1, ItemsTyped, RecheckKeeps
      <3> QED BY <1>1, <2>2, <3>1, <3>2
    <2> QED BY <2>1, <2>2
  <1>5. WorkIsQueued'
    BY <1>3, <1>4 DEF ClaimsInv, WorkIsQueued, Queued
  <1>6. ClaimsAreCounted'
    BY <1>3, <1>4 DEF ClaimsInv, ClaimsAreCounted
  <1>7. ClaimsAreHeldOnce'
    <2>1. ASSUME NEW u \in Workers, NEW v \in Workers, NEW i \in hand'[u], NEW j \in hand'[v],
                 Live(i), Live(j), i.x = j.x, i.n = j.n
          PROVE  u = v /\ i = j
      <3>1. PICK i0 \in hand[u] :
               /\ i.x = i0.x /\ i.n = i0.n /\ Live(i0)
               /\ IF u = w THEN i = Recheck(i0) ELSE i = i0
        BY <1>4, <2>1
      <3>2. PICK j0 \in hand[v] :
               /\ j.x = j0.x /\ j.n = j0.n /\ Live(j0)
               /\ IF v = w THEN j = Recheck(j0) ELSE j = j0
        BY <1>4, <2>1
      <3>3. Live(i0) /\ Live(j0) /\ i0.x = j0.x /\ i0.n = j0.n
        BY <2>1, <3>1, <3>2
      <3>4. \A i1 \in hand[u], j1 \in hand[v] :
               Live(i1) /\ Live(j1) /\ i1.x = j1.x /\ i1.n = j1.n => u = v /\ i1 = j1
        BY DEF ClaimsInv, ClaimsAreHeldOnce
      <3>5. u = v /\ i0 = j0
        BY <3>3, <3>4
      <3> QED BY <3>1, <3>2, <3>5
    <2>2. ASSUME NEW v \in Workers, NEW j \in hand'[v], Unsent(j)
          PROVE  j.n \notin sends[j.x]
      BY <1>4, <2>2 DEF ClaimsInv, ClaimsAreHeldOnce
    <2> QED BY <1>3, <2>1, <2>2 DEF ClaimsAreHeldOnce
  <1>8. Uniform'
    <2>1. \A i \in hand[w] : Recheck(i).step # "claimed"
      BY ItemsTyped, RecheckKeeps
    <2>2. \A j \in hand'[w] : j.step # "claimed"
      BY <1>2, <2>1
    <2>3. \A v \in Workers : v # w => hand'[v] = hand[v]
      BY <1>2
    <2> QED BY <2>2, <2>3 DEF ClaimsInv, Uniform
  <1> QED BY <1>5, <1>6, <1>7, <1>8 DEF ClaimsInv

LEMMA SendKeepsClaims ==
    ASSUME TypeInv, ClaimsInv, NEW w \in Workers, NEW chunk \in SUBSET hand[w], SendChunk(w, chunk)
    PROVE  ClaimsInv'
  <1> USE DEF rows, outside, local, history, budget
  <1>1. PICK answer \in Answers(chunk) :
           hand' = [hand EXCEPT ![w] = (hand[w] \ chunk) \cup Sent(chunk, answer)]
    BY DEF SendChunk
  <1>2. \A v \in Workers : hand'[v] = IF v = w THEN (hand[w] \ chunk) \cup Sent(chunk, answer)
                                               ELSE hand[v]
    BY <1>1 DEF TypeInv, TypeOK
  <1>3. \A i \in hand[w] : i.step = "send" /\ Live(i) /\ Unsent(i)
    BY DEF SendChunk, Request, Live, Unsent
  <1>4. /\ UNCHANGED << message, delivery >>
        /\ \A x \in Deliveries : sends'[x] = sends[x] \cup ClaimsOf(chunk, x)
    BY DEF SendChunk
  <1>5. \A x \in Deliveries : \A n \in ClaimsOf(chunk, x) : \E i \in chunk : i.x = x /\ i.n = n
    BY DEF ClaimsOf
  <1>6. ASSUME NEW v \in Workers, NEW j \in hand'[v]
        PROVE  \/ j \in hand[v] /\ (v = w => j \notin chunk)
               \/ v = w /\ j.step = "record" /\ \E i \in chunk :
                     /\ j = [i EXCEPT !.step = "record", !.res = Reported(answer[i])]
                     /\ j.x = i.x /\ j.n = i.n
    <2>1. chunk \in SUBSET Item
      BY ItemsTyped
    <2>2. CASE v = w /\ j \in Sent(chunk, answer)
      <3>1. PICK i \in chunk : j = [i EXCEPT !.step = "record", !.res = Reported(answer[i])]
        BY <2>2 DEF Sent
      <3>2. j.x = i.x /\ j.n = i.n /\ j.step = "record"
        BY <2>1, <3>1 DEF Item
      <3> QED BY <2>2, <3>1, <3>2
    <2>3. CASE j \in hand[v] /\ (v = w => j \notin chunk)
      BY <2>3
    <2> QED BY <1>2, <1>6, <2>2, <2>3
  <1>7. ASSUME NEW v \in Workers, NEW j \in hand'[v]
        PROVE  \E i \in hand[v] : /\ j.x = i.x /\ j.n = i.n /\ (Live(j) => Live(i))
                                  /\ IF v = w /\ i \in chunk
                                     THEN j = [i EXCEPT !.step = "record", !.res = Reported(answer[i])]
                                          /\ j.step = "record"
                                     ELSE j = i
    <2>1. CASE j \in hand[v] /\ (v = w => j \notin chunk)
      BY <2>1
    <2>2. CASE v = w /\ \E i \in chunk : /\ j = [i EXCEPT !.step = "record", !.res = Reported(answer[i])]
                                         /\ j.x = i.x /\ j.n = i.n /\ j.step = "record"
      BY <1>3, <2>2
    <2> QED BY <1>6, <1>7, <2>1, <2>2
  <1>8. WorkIsQueued'
    <2>1. ASSUME NEW x \in Deliveries, sends'[x] # {} PROVE Queued(x[1])
      BY <1>3, <1>4, <1>5, <2>1 DEF ClaimsInv, WorkIsQueued
    <2>2. ASSUME NEW v \in Workers, NEW j \in hand'[v], Live(j) PROVE Queued(j.x[1])
      BY <1>7, <2>2 DEF ClaimsInv, WorkIsQueued
    <2> QED BY <1>4, <2>1, <2>2 DEF WorkIsQueued, Queued
  <1>9. ClaimsAreCounted'
    <2>1. ASSUME NEW x \in Deliveries, delivery[x].status # "absent", NEW n \in sends'[x]
          PROVE  n <= delivery[x].attempts
      BY <1>3, <1>4, <1>5, <2>1 DEF ClaimsInv, ClaimsAreCounted
    <2>2. ASSUME NEW v \in Workers, NEW j \in hand'[v], Live(j), delivery[j.x].status # "absent"
          PROVE  j.n <= delivery[j.x].attempts
      <3>1. PICK i \in hand[v] : j.x = i.x /\ j.n = i.n /\ Live(i)
        BY <1>7, <2>2
      <3> QED BY <2>2, <3>1 DEF ClaimsInv, ClaimsAreCounted
    <2> QED BY <1>4, <2>1, <2>2 DEF ClaimsAreCounted
  <1>10. ClaimsAreHeldOnce'
    <2>1. ASSUME NEW u \in Workers, NEW v \in Workers, NEW i \in hand'[u], NEW j \in hand'[v],
                 Live(i), Live(j), i.x = j.x, i.n = j.n
          PROVE  u = v /\ i = j
      <3>1. PICK i0 \in hand[u] :
               /\ i.x = i0.x /\ i.n = i0.n /\ Live(i0)
               /\ IF u = w /\ i0 \in chunk
                  THEN i = [i0 EXCEPT !.step = "record", !.res = Reported(answer[i0])] ELSE i = i0
        BY <1>7, <2>1
      <3>2. PICK j0 \in hand[v] :
               /\ j.x = j0.x /\ j.n = j0.n /\ Live(j0)
               /\ IF v = w /\ j0 \in chunk
                  THEN j = [j0 EXCEPT !.step = "record", !.res = Reported(answer[j0])] ELSE j = j0
        BY <1>7, <2>1
      <3>3. Live(i0) /\ Live(j0) /\ i0.x = j0.x /\ i0.n = j0.n
        BY <2>1, <3>1, <3>2
      <3>4. \A i1 \in hand[u], j1 \in hand[v] :
               Live(i1) /\ Live(j1) /\ i1.x = j1.x /\ i1.n = j1.n => u = v /\ i1 = j1
        BY DEF ClaimsInv, ClaimsAreHeldOnce
      <3>5. u = v /\ i0 = j0
        BY <3>3, <3>4
      <3> QED BY <3>1, <3>2, <3>5
    <2>2. ASSUME NEW v \in Workers, NEW j \in hand'[v], Unsent(j)
          PROVE  j.n \notin sends'[j.x]
      <3>1. j \in hand[v] /\ (v = w => j \notin chunk)
        BY <1>6, <2>2 DEF Unsent
      <3>2. j.x \in Deliveries /\ Live(j)
        BY <2>2, <3>1, ItemsTyped DEF Live, Unsent
      <3>3. j.n \notin sends[j.x]
        BY <2>2, <3>1 DEF ClaimsInv, ClaimsAreHeldOnce
      <3>4. j.n \notin ClaimsOf(chunk, j.x)
        BY <1>3, <1>5, <3>1, <3>2 DEF ClaimsInv, ClaimsAreHeldOnce
      <3> QED BY <1>4, <3>2, <3>3, <3>4
    <2> QED BY <2>1, <2>2 DEF ClaimsAreHeldOnce
  <1>11. Uniform'
    <2>1. \A i \in hand'[w] : i.step # "claimed"
      BY <1>3, <1>6
    <2> QED BY <1>2, <2>1 DEF ClaimsInv, Uniform
  <1> QED BY <1>8, <1>9, <1>10, <1>11 DEF ClaimsInv

\* Item j after a request of w was refused, which was item i before.
From(w, chunk, k, v, i, j) ==
    /\ j.x = i.x /\ j.n = i.n /\ j.step = i.step /\ j.res = i.res
    /\ v = w /\ i \in chunk => j = [i EXCEPT !.part = Half(k)] /\ j.part = Half(k)
    /\ ~(v = w /\ i \in chunk) => j = i

\* The items after a refused request are those before it, some for a smaller request.
LEMMA RefusedItems ==
    ASSUME TypeInv, NEW w \in Workers, NEW chunk \in SUBSET hand[w], NEW k \in 2 .. BatchSize,
           RefuseChunk(w, chunk, k)
    PROVE  /\ Half(k) \in 1 .. k - 1
           /\ \A v \in Workers : \A j \in hand'[v] : \E i \in hand[v] : From(w, chunk, k, v, i, j)
  <1>1. \A v \in Workers : hand'[v] = IF v = w THEN (hand[w] \ chunk) \cup Halves(chunk, k)
                                               ELSE hand[v]
    BY DEF RefuseChunk, TypeInv, TypeOK
  <1>2. chunk \in SUBSET Item
    BY ItemsTyped
  <1>3. Half(k) \in 1 .. k - 1
    BY <1>2, HalvesTyped
  <1>4. ASSUME NEW v \in Workers, NEW j \in hand'[v]
        PROVE  \E i \in hand[v] : From(w, chunk, k, v, i, j)
    <2>1. CASE v = w /\ j \in Halves(chunk, k)
      BY <1>2, <2>1, HalvesTyped DEF From
    <2>2. CASE j \in hand[v] /\ (v = w => j \notin chunk)
      BY <2>2 DEF From
    <2> QED BY <1>1, <1>4, <2>1, <2>2
  <1> QED BY <1>3, <1>4

LEMMA RefuseKeepsClaims ==
    ASSUME TypeInv, ClaimsInv, NEW w \in Workers, NEW chunk \in SUBSET hand[w],
           NEW k \in 2 .. BatchSize, RefuseChunk(w, chunk, k)
    PROVE  ClaimsInv'
  <1>1. \A v \in Workers : \A j \in hand'[v] : \E i \in hand[v] : From(w, chunk, k, v, i, j)
    BY RefusedItems
  <1>2. UNCHANGED << message, sends, delivery >>
    BY DEF RefuseChunk, rows, history
  <1>3. \A v, i, j : From(w, chunk, k, v, i, j) =>
           j.x = i.x /\ j.n = i.n /\ (Live(j) <=> Live(i)) /\ (Unsent(j) <=> Unsent(i))
    BY DEF From, Live, Unsent
  <1>4. \A v, i, j, l : From(w, chunk, k, v, i, j) /\ From(w, chunk, k, v, i, l) => j = l
    BY DEF From
  <1>5. \A v, i, j : From(w, chunk, k, v, i, j) => (j.step = "claimed" <=> i.step = "claimed")
    BY DEF From
  <1>6. WorkIsQueued'
    BY <1>1, <1>2, <1>3 DEF ClaimsInv, WorkIsQueued, Queued
  <1>7. ClaimsAreCounted'
    BY <1>1, <1>2, <1>3 DEF ClaimsInv, ClaimsAreCounted
  <1>8. ClaimsAreHeldOnce'
    <2>1. ASSUME NEW u \in Workers, NEW v \in Workers, NEW i \in hand'[u], NEW j \in hand'[v],
                 Live(i), Live(j), i.x = j.x, i.n = j.n
          PROVE  u = v /\ i = j
      <3>1. PICK i0 \in hand[u] : From(w, chunk, k, u, i0, i)
        BY <1>1
      <3>2. PICK j0 \in hand[v] : From(w, chunk, k, v, j0, j)
        BY <1>1
      <3>3. u = v /\ i0 = j0
        BY <1>3, <2>1, <3>1, <3>2 DEF ClaimsInv, ClaimsAreHeldOnce
      <3> QED BY <1>4, <3>1, <3>2, <3>3
    <2>2. ASSUME NEW v \in Workers, NEW j \in hand'[v], Unsent(j)
          PROVE  j.n \notin sends[j.x]
      BY <1>1, <1>3, <2>2 DEF ClaimsInv, ClaimsAreHeldOnce
    <2> QED BY <1>2, <2>1, <2>2 DEF ClaimsAreHeldOnce
  <1>9. Uniform'
    BY <1>1, <1>5 DEF ClaimsInv, Uniform
  <1> QED BY <1>6, <1>7, <1>8, <1>9 DEF ClaimsInv

\* What the steps of dispatch and receipts write to a row leaves its count of claims alone.
LEMMA OutcomesKeepTheCount ==
    ASSUME NEW row \in Row, NEW i \in Item
    PROVE  /\ \A status : Finish(row, status).attempts = row.attempts
           /\ AskLater(row).attempts = row.attempts /\ AskLater(row).status = row.status
           /\ Outcome(row, i).attempts = row.attempts
           /\ ReceiptOutcome(row, i).attempts = row.attempts
  <1>1. \A status : Finish(row, status).attempts = row.attempts
    BY DEF Finish, Row
  <1>2. AskLater(row).attempts = row.attempts /\ AskLater(row).status = row.status
    BY DEF AskLater, Row
  <1>3. Fail(row, i).attempts = row.attempts
    BY DEF Fail, Finish, Row
  <1>4. RetryOrFail(row, i).attempts = row.attempts
    BY <1>3 DEF RetryOrFail, Row
  <1>5. Accept(row, i).attempts = row.attempts
    BY DEF Accept, Finish, Row
  <1>6. [row EXCEPT !.status = "pending", !.lease = "null", !.due = FALSE, !.ticket = 0].attempts
           = row.attempts
    BY DEF Row
  <1> QED BY <1>1, <1>2, <1>3, <1>4, <1>5, <1>6 DEF Outcome, ReceiptOutcome

LEMMA WhileSendingCounts ==
    ASSUME TypeInv, NEW x \in Deliveries, NEW row, row.attempts = delivery[x].attempts,
           WhileSending(x, row)
    PROVE  \A y \in Deliveries : CountKept(y)
  BY ItemsTyped DEF WhileSending, CountKept

LEMMA DispatchKeepsClaims ==
    ASSUME TypeInv, CompletedMeansSettled, ClaimsInv, NEW w \in Workers,
           DispatchStep(w) \/ FanOutFails(w)
    PROVE  ClaimsInv'
  <1> USE DEF rows, outside, local, history, budget
  <1>h. \A i \in hand[w] : i \in Item /\ i.x \in Deliveries
    BY ItemsTyped
  <1>r. delivery \in [Deliveries -> Row] /\ \A x \in Deliveries : delivery[x] \in Row
    BY ItemsTyped
  <1>u. Uniform
    BY DEF ClaimsInv
  <1>q. ASSUME message' = message, sends' = sends, Shrinks /\ Uniform',
               \A x \in Deliveries : CountKept(x)
        PROVE  ClaimsInv'
    BY <1>q, ShrinkingKeepsClaims DEF Advances, Queued
  <1>s. ASSUME delivery' = delivery, NEW x \in Deliveries
        PROVE  CountKept(x)
    BY <1>s DEF CountKept
  <1>d. \A i \in Item : [i EXCEPT !.step = "disable"].step = "disable"
    BY DEF Item
  <1>1. CASE BeginDispatch(w) \/ FanOutFails(w)
    <2>1. ASSUME NEW x \in Deliveries PROVE CountKept(x)
      <3>1. Interrupted(x) => /\ delivery[x].status # "absent"
               /\ [delivery[x] EXCEPT !.status = "failed", !.lease = "null"].attempts
                     = delivery[x].attempts
        BY <1>r DEF Interrupted, Row
      <3> QED BY <1>1, <3>1 DEF BeginDispatch, FanOutFails, CloseInterrupted, CountKept
    <2> QED BY <1>1, <1>q, <1>u, <2>1, ShrinkingMoves DEF BeginDispatch, FanOutFails
  <1>2. ASSUME NEW S \in SUBSET Deliveries, Claim(w, S) PROVE ClaimsInv'
    BY <1>2, ClaimKeepsClaims
  <1>3. CASE Process(w)
    BY <1>3, ProcessKeepsClaims
  <1>4. ASSUME NEW i \in hand[w], Settle(w, i) PROVE ClaimsInv'
    <2>1. \A x \in Deliveries : CountKept(x)
      BY <1>4, <1>h, <1>r, OutcomesKeepTheCount, WhileSendingCounts DEF Settle
    <2> QED BY <1>4, <1>q, <1>u, <2>1, ShrinkingMoves DEF Settle
  <1>5. ASSUME NEW chunk \in SUBSET hand[w], SendChunk(w, chunk) PROVE ClaimsInv'
    BY <1>5, SendKeepsClaims
  <1>6. ASSUME NEW i \in hand[w], RecordResult(w, i) PROVE ClaimsInv'
    <2>1. \A x \in Deliveries : CountKept(x)
      BY <1>6, <1>h, <1>r, OutcomesKeepTheCount, WhileSendingCounts DEF RecordResult
    <2>2. ~Live([i EXCEPT !.step = "disable"])
      BY <1>d, <1>h DEF Live
    <2>3. Shrinks /\ Uniform'
      BY <1>6, <1>u, <2>2, ShrinkingMoves DEF RecordResult
    <2> QED BY <1>6, <1>q, <2>1, <2>3 DEF RecordResult
  <1>7. ASSUME NEW i \in hand[w], InvalidateToken(w, i) PROVE ClaimsInv'
    BY <1>7, <1>q, <1>s, <1>u, ShrinkingMoves DEF InvalidateToken
  <1>8. CASE EndDispatch(w)
    BY <1>8, <1>q, <1>s, <1>u, ShrinkingMoves DEF EndDispatch
  <1>9. ASSUME NEW chunk \in SUBSET hand[w], NEW k \in 2 .. BatchSize, RefuseChunk(w, chunk, k)
        PROVE  ClaimsInv'
    BY <1>9, RefuseKeepsClaims
  <1> QED BY <1>1, <1>2, <1>3, <1>4, <1>5, <1>6, <1>7, <1>8, <1>9 DEF DispatchStep

LEMMA ReceiptsKeepClaims ==
    ASSUME TypeInv, ClaimsInv, NEW w \in Workers, ReceiptStep(w) \/ ReceiptsFail(w)
    PROVE  ClaimsInv'
  <1> USE DEF rows, outside, local, history, budget
  <1>h. \A i \in hand[w] : i \in Item /\ i.x \in Deliveries
    BY ItemsTyped
  <1>r. delivery \in [Deliveries -> Row] /\ \A x \in Deliveries : delivery[x] \in Row
    BY ItemsTyped
  <1>u. Uniform
    BY DEF ClaimsInv
  <1>q. ASSUME message' = message, sends' = sends, Shrinks /\ Uniform',
               \A x \in Deliveries : CountKept(x)
        PROVE  ClaimsInv'
    BY <1>q, ShrinkingKeepsClaims DEF Advances, Queued
  <1>s. ASSUME delivery' = delivery, NEW x \in Deliveries
        PROVE  CountKept(x)
    BY <1>s DEF CountKept
  <1>1. ASSUME NEW S \in SUBSET Deliveries, CollectReceipts(w, S) PROVE ClaimsInv'
    <2>1. ASSUME NEW x \in Deliveries PROVE CountKept(x)
      <3>1. /\ [delivery[x] EXCEPT !.lease = "running"].attempts = delivery[x].attempts
            /\ [delivery[x] EXCEPT !.lease = "running"].status = delivery[x].status
        BY <1>r DEF Row
      <3> QED BY <1>1, <3>1 DEF CollectReceipts, CountKept
    <2>2. \A i \in {ReceiptItem(x) : x \in S} : ~Live(i)
      BY DEF ReceiptItem, Live
    <2> QED BY <1>1, <1>q, <1>u, <2>1, <2>2, ShrinkingMoves DEF CollectReceipts
  <1>2. CASE ReceiptsAnswered(w)
    <2>1. PICK answer \in [hand[w] -> ReceiptAnswer] :
             hand' = [hand EXCEPT ![w] =
                 {[i EXCEPT !.step = "apply", !.res = answer[i]] : i \in hand[w]}]
      BY <1>2 DEF ReceiptsAnswered
    <2> DEFINE S == {[i EXCEPT !.step = "apply", !.res = answer[i]] : i \in hand[w]}
    <2>2. \A j \in S : j.step = "apply"
      BY <1>h DEF Item
    <2>3. \A v \in Workers : hand'[v] = IF v = w THEN S ELSE hand[v]
      BY <2>1 DEF TypeInv, TypeOK
    <2>4. Shrinks /\ Uniform'
      <3> HIDE DEF S
      <3> QED BY <1>u, <2>2, <2>3 DEF Shrinks, Uniform, Live
    <2> QED BY <1>2, <1>q, <1>s, <2>4 DEF ReceiptsAnswered
  <1>3. ASSUME NEW i \in hand[w], ApplyReceipt(w, i) PROVE ClaimsInv'
    <2>1. \A x \in Deliveries : CountKept(x)
      BY <1>3, <1>h, <1>r, OutcomesKeepTheCount DEF ApplyReceipt, CountKept
    <2>2. ~Live([i EXCEPT !.step = "disable"])
      BY <1>h DEF Live, Item
    <2>3. Shrinks /\ Uniform'
      BY <1>3, <1>u, <2>2, ShrinkingMoves DEF ApplyReceipt
    <2> QED BY <1>3, <1>q, <2>1, <2>3 DEF ApplyReceipt
  <1>4. CASE EndReceipts(w)
    BY <1>4, <1>q, <1>s, <1>u, ShrinkingMoves DEF EndReceipts
  <1>5. CASE ReceiptsFail(w)
    <2>1. \A x \in Deliveries : CountKept(x)
      <3>1. \A x \in Deliveries : /\ AskLater(delivery[x]).attempts = delivery[x].attempts
                                  /\ AskLater(delivery[x]).status = delivery[x].status
        BY <1>r DEF AskLater, Row
      <3> QED BY <1>5, <3>1 DEF ReceiptsFail, CountKept
    <2> QED BY <1>5, <1>q, <1>u, <2>1, ShrinkingMoves DEF ReceiptsFail
  <1> QED BY <1>1, <1>2, <1>3, <1>4, <1>5 DEF ReceiptStep

LEMMA MessagesKeepClaims ==
    ASSUME TypeInv, ClaimsInv, NEW w \in Workers,
           \/ \E m \in Messages : Enqueue(m) \/ FanOutOne(w, m)
           \/ Complete(w)
           \/ \E S \in SUBSET Messages : Purge(w, S)
           \/ StepFails(w)
           \/ Crash(w)
    PROVE  ClaimsInv'
  <1> USE DEF rows, outside, local, history, budget
  <1>m. message \in [Messages -> MessageStatus]
    BY DEF TypeInv, TypeOK
  <1>u. Uniform
    BY DEF ClaimsInv
  <1>q. ASSUME Advances, sends' = sends, Shrinks /\ Uniform',
               \A x \in Deliveries : CountKept(x)
        PROVE  ClaimsInv'
    BY <1>q, ShrinkingKeepsClaims
  <1>s. ASSUME delivery' = delivery, NEW x \in Deliveries
        PROVE  CountKept(x)
    BY <1>s DEF CountKept
  <1>1. ASSUME NEW m \in Messages, Enqueue(m) PROVE ClaimsInv'
    <2>1. Advances
      BY <1>1, <1>m DEF Enqueue, Advances, Queued
    <2> QED BY <1>1, <1>q, <1>s, <1>u, <2>1, ShrinkingMoves DEF Enqueue
  <1>2. ASSUME NEW m \in Messages, FanOutOne(w, m) PROVE ClaimsInv'
    <2>1. Advances
      BY <1>2, <1>m DEF FanOutOne, Advances, Queued
    <2>2. \A x \in Deliveries : CountKept(x)
      BY <1>2 DEF FanOutOne, CountKept
    <2> QED BY <1>2, <1>q, <1>u, <2>1, <2>2, ShrinkingMoves DEF FanOutOne
  <1>3. CASE Complete(w) \/ StepFails(w) \/ Crash(w)
    <2>1. Advances
      BY <1>3, <1>m DEF Complete, StepFails, Crash, Advances, Queued
    <2> QED BY <1>3, <1>q, <1>s, <1>u, <2>1, ShrinkingMoves DEF Complete, StepFails, Crash
  <1>4. ASSUME NEW S \in SUBSET Messages, Purge(w, S) PROVE ClaimsInv'
    <2>1. Advances
      BY <1>4, <1>m DEF Purge, Advances, Queued
    <2>2. \A x \in Deliveries : CountKept(x)
      BY <1>4 DEF Purge, CountKept, NoRow
    <2> QED BY <1>4, <1>q, <1>u, <2>1, <2>2, ShrinkingMoves DEF Purge
  <1> QED BY <1>1, <1>2, <1>3, <1>4

LEMMA OutsideKeepsClaims ==
    ASSUME TypeInv, ClaimsInv, Time \/ Environment
    PROVE  ClaimsInv'
  <1> USE DEF rows, outside, local, history, budget
  <1>r. delivery \in [Deliveries -> Row] /\ \A x \in Deliveries : delivery[x] \in Row
    BY ItemsTyped
  <1>1. hand' = hand /\ sends' = sends /\ message' = message
    BY DEF Time, MessageExpires, BecomesDue, LeaseRunsOut, TicketAges, Environment, Register,
           SignOut, Reconsider, DeleteAccount, TokenDies, Outside
  <1>2. ASSUME NEW x \in Deliveries PROVE CountKept(x)
    <2>1. CASE Time
      <3>1. \/ delivery'[x] = delivery[x]
            \/ delivery'[x] = [delivery[x] EXCEPT !.due = TRUE]
            \/ delivery'[x] = [delivery[x] EXCEPT !.lease = "over"]
            \/ delivery'[x] = [delivery[x] EXCEPT !.old = TRUE]
        BY <1>r, <2>1 DEF Time, MessageExpires, BecomesDue, LeaseRunsOut, TicketAges
      <3> QED BY <1>r, <3>1 DEF CountKept, Row
    <2>2. CASE Environment
      <3>1. delivery' = delivery \/ delivery'[x] \in {NoRow, delivery[x]}
        BY <2>2 DEF Environment, Register, SignOut, Reconsider, DeleteAccount, TokenDies, Outside
      <3> QED BY <3>1 DEF CountKept, NoRow
    <2> QED BY <2>1, <2>2
  <1>3. Shrinks /\ Uniform' /\ Advances
    BY <1>1 DEF Shrinks, ClaimsInv, Uniform, Advances, Queued
  <1> QED BY <1>1, <1>2, <1>3, ShrinkingKeepsClaims

LEMMA ClaimsNext == TypeInv /\ CompletedMeansSettled /\ ClaimsInv /\ [Next]_vars => ClaimsInv'
  <1> SUFFICES ASSUME TypeInv, CompletedMeansSettled, ClaimsInv, [Next]_vars PROVE ClaimsInv'
    OBVIOUS
  <1>1. CASE \E m \in Messages : Enqueue(m)
    <2>1. hand' = hand /\ sends' = sends /\ delivery' = delivery
      BY <1>1 DEF Enqueue, local, history
    <2>2. Advances
      BY <1>1 DEF Enqueue, TypeInv, TypeOK, Advances, Queued
    <2>3. Shrinks /\ Uniform' /\ \A x \in Deliveries : CountKept(x)
      BY <2>1 DEF Shrinks, ClaimsInv, Uniform, CountKept
    <2> QED BY <2>1, <2>2, <2>3, ShrinkingKeepsClaims
  <1>2. CASE \E w \in Workers : RunStep(w) \/ Fault(w)
    BY <1>2, DispatchKeepsClaims, ReceiptsKeepClaims, MessagesKeepClaims DEF RunStep, Fault
  <1>3. CASE Time \/ Environment
    BY <1>3, OutsideKeepsClaims
  <1>4. CASE UNCHANGED vars
    BY <1>4 DEF vars, rows, local, history, ClaimsInv, WorkIsQueued, ClaimsAreCounted,
                ClaimsAreHeldOnce, Uniform, Queued
  <1> QED BY <1>1, <1>2, <1>3, <1>4 DEF Next

LEMMA ClaimsInvariant == Spec => []ClaimsInv
  <1>1. Init => ClaimsInv
    BY DEF Init, ClaimsInv, WorkIsQueued, ClaimsAreCounted, ClaimsAreHeldOnce, Uniform
  <1> QED BY <1>1, ClaimsNext, TypeInvariant, CompletedSettled, PTL DEF Spec

\* An item to send was one before the step, unless the recheck has just found it or the
\* request it was in was refused.
LEMMA ItemsToSend ==
    ASSUME TypeInv, Uniform, [Next]_vars, NEW w \in Workers, NEW j \in hand'[w], j.step = "send"
    PROVE  \/ j \in hand[w]
           \/ \A i \in hand[w] : i.step = "claimed"
           \/ \E chunk \in SUBSET hand[w], k \in 2 .. BatchSize : RefuseChunk(w, chunk, k)
  <1> USE DEF rows, outside, local, history, budget
  <1>l. Live(j)
    BY DEF Live
  <1>k. Shrinks => j \in hand[w]
    BY <1>l DEF Shrinks
  <1>0. hand' = hand => j \in hand[w]
    OBVIOUS
  <1>1. ASSUME NEW v \in Workers, RunStep(v) \/ Fault(v), v # w
        PROVE  j \in hand[w]
    BY <1>1 DEF RunStep, Fault, FanOutOne, DispatchStep, BeginDispatch, Claim, Process, Settle,
       SendChunk, RefuseChunk, RecordResult, InvalidateToken, EndDispatch, ReceiptStep,
       CollectReceipts, ReceiptsAnswered, ApplyReceipt, EndReceipts, Complete, Purge, ReceiptsFail,
       FanOutFails, StepFails, Crash, Enter, Round, Drop, Replace, TypeInv, TypeOK
  <1>2. CASE RunStep(w) \/ Fault(w)
    <2>1. ASSUME NEW p, Enter(w, p) PROVE j \in hand[w]
      BY <2>1, <1>k, ShrinkingMoves
    <2>2. ASSUME NEW S, Round(w, S), \A i \in S : i.step # "send" PROVE j \in hand[w]
      BY <2>2 DEF Round, TypeInv, TypeOK
    <2>3. ASSUME NEW i \in hand[w],
                 \/ Drop(w, i)
                 \/ Replace(w, i, [i EXCEPT !.step = "disable"])
          PROVE  j \in hand[w]
      <3>1. [i EXCEPT !.step = "disable"].step = "disable"
        BY ItemsTyped DEF Item
      <3> QED BY <2>3, <3>1 DEF Drop, Replace, TypeInv, TypeOK
    <2>4. CASE Process(w)
      BY <2>4 DEF Process, Uniform
    <2>5. ASSUME NEW chunk \in SUBSET hand[w], SendChunk(w, chunk) PROVE j \in hand[w]
      <3>1. PICK answer \in Answers(chunk) :
               hand' = [hand EXCEPT ![w] = (hand[w] \ chunk) \cup Sent(chunk, answer)]
        BY <2>5 DEF SendChunk
      <3>2. \A i \in Sent(chunk, answer) : i.step = "record"
        <4>1. \A i \in chunk : i \in Item
          BY ItemsTyped
        <4> QED BY <4>1 DEF Sent, Item
      <3> QED BY <3>1, <3>2 DEF TypeInv, TypeOK
    <2>6. CASE ReceiptsAnswered(w)
      <3>1. PICK answer \in [hand[w] -> ReceiptAnswer] :
               hand' = [hand EXCEPT ![w] =
                   {[i EXCEPT !.step = "apply", !.res = answer[i]] : i \in hand[w]}]
        BY <2>6 DEF ReceiptsAnswered
      <3>2. \A i \in hand[w] : [i EXCEPT !.step = "apply", !.res = answer[i]].step = "apply"
        BY ItemsTyped DEF Item
      <3> QED BY <3>1, <3>2 DEF TypeInv, TypeOK
    <2>7. ASSUME NEW S \in SUBSET Deliveries, Claim(w, S) \/ CollectReceipts(w, S)
          PROVE  j \in hand[w]
      <3>1. \A i \in {Fresh(x, delivery[x].attempts + 1, "claimed") : x \in S} : i.step # "send"
        BY DEF Fresh
      <3>2. \A i \in {ReceiptItem(x) : x \in S} : i.step # "send"
        BY DEF ReceiptItem
      <3> QED BY <2>2, <2>7, <3>1, <3>2 DEF Claim, CollectReceipts
    <2>8. ASSUME NEW m \in Messages, FanOutOne(w, m) PROVE j \in hand[w]
      BY <2>2, <2>8 DEF FanOutOne
    <2>9. CASE \/ BeginDispatch(w) \/ EndDispatch(w) \/ EndReceipts(w) \/ Complete(w)
               \/ \E S \in SUBSET Messages : Purge(w, S)
               \/ Fault(w)
      BY <2>1, <2>9 DEF BeginDispatch, EndDispatch, EndReceipts, Complete, Purge, Fault,
         ReceiptsFail, FanOutFails, StepFails, Crash
    <2>10. ASSUME NEW i \in hand[w],
                  Settle(w, i) \/ RecordResult(w, i) \/ InvalidateToken(w, i) \/ ApplyReceipt(w, i)
           PROVE  j \in hand[w]
      BY <2>3, <2>10 DEF Settle, RecordResult, InvalidateToken, ApplyReceipt
    <2> QED BY <1>2, <2>4, <2>5, <2>6, <2>7, <2>8, <2>9, <2>10 DEF RunStep, DispatchStep, ReceiptStep
  <1>3. CASE \/ \E m \in Messages : Enqueue(m)
             \/ Time \/ Environment \/ UNCHANGED vars
    <2>1. hand' = hand
      BY <1>3 DEF Enqueue, Time, MessageExpires, BecomesDue, LeaseRunsOut, TicketAges, Environment,
         Register, SignOut, Reconsider, DeleteAccount, TokenDies, Outside, vars
    <2> QED BY <1>0, <2>1
  <1> QED BY <1>1, <1>2, <1>3 DEF Next

LEMMA RefusedIsSmaller ==
    ASSUME TypeInv, ClaimsInv, NEW w \in Workers, NEW chunk \in SUBSET hand[w],
           NEW k \in 2 .. BatchSize, RefuseChunk(w, chunk, k),
           NEW i \in hand[w], NEW j \in hand'[w],
           i.step = "send", i \notin hand'[w], j.step = "send", j.x = i.x, j.n = i.n
    PROVE  j.part < i.part
  <1>1. \A l \in hand[w] : l.step = "send" /\ l.x = i.x /\ l.n = i.n => l = i
    BY DEF ClaimsInv, ClaimsAreHeldOnce, Live
  <1>2. PICK l \in hand[w] : From(w, chunk, k, w, l, j)
    BY RefusedItems
  <1>3. l = i /\ i \in chunk /\ j.part = Half(k)
    BY <1>1, <1>2 DEF From
  <1>4. k <= i.part
    BY <1>3 DEF RefuseChunk, Request
  <1>5. Half(k) \in 1 .. k - 1
    BY RefusedItems
  <1>6. i.part \in Nat /\ k \in Nat
    BY ItemsTyped, BatchAssumption DEF Item
  <1>7. Half(k) \in Nat /\ Half(k) < k
    BY <1>5, <1>6
  <1> QED BY <1>3, <1>4, <1>6, <1>7

\* A claim whose push was in a request that was not refused whole is never sent again, and
\* a push that was in a refused one goes out in a smaller request, whatever workers do to
\* each other (claim, process, sendChunk).
THEOREM ClaimsAnsweredOnce == Spec => ClaimsAreAnsweredOnce
  <1> DEFINE Once == \A w \in Workers : \A i \in hand[w], j \in hand'[w] :
          (i.step = "send" /\ i \notin hand'[w] /\ j.x = i.x /\ j.n = i.n)
              => i.n \notin sends[i.x] /\ (j.step = "send" => j.part < i.part)
  <1>1. ASSUME TypeInv, ClaimsInv, [Next]_vars,
               NEW w \in Workers, NEW i \in hand[w], NEW j \in hand'[w],
               i.step = "send", i \notin hand'[w], j.x = i.x, j.n = i.n
        PROVE  i.n \notin sends[i.x] /\ (j.step = "send" => j.part < i.part)
    <2>1. i.n \notin sends[i.x]
      BY <1>1 DEF ClaimsInv, ClaimsAreHeldOnce, Unsent
    <2>2. ASSUME j.step = "send" PROVE j.part < i.part
      <3>1. \A l \in hand[w] : l.step = "send" /\ l.x = i.x /\ l.n = i.n => l = i
        BY <1>1 DEF ClaimsInv, ClaimsAreHeldOnce, Live
      <3>2. j \notin hand[w]
        BY <1>1, <2>2, <3>1
      <3>3. PICK chunk \in SUBSET hand[w], k \in 2 .. BatchSize : RefuseChunk(w, chunk, k)
        BY <1>1, <2>2, <3>2, ItemsToSend DEF ClaimsInv
      <3> QED BY <1>1, <2>2, <3>3, RefusedIsSmaller
    <2> QED BY <2>1, <2>2
  <1>2. TypeInv /\ ClaimsInv /\ [Next]_vars => [Once]_vars
    BY <1>1
  <1> QED BY <1>2, TypeInvariant, ClaimsInvariant, PTL DEF Spec, ClaimsAreAnsweredOnce

-----------------------------------------------------------------------------
(* Deliveries beyond doubt *)

\* A delivery under no doubt is worked on by one worker, under a lease that runs; nothing
\* was taken of it before the claim that this worker holds.
Calm(x) ==
    /\ \A a, b \in taken[x] : a = b
    /\ delivery[x].status = "pending" => taken[x] = {}
    /\ delivery[x].status = "sending" => delivery[x].lease = "running"
    /\ \A w \in Workers : \A i \in hand[w] : Live(i) /\ i.x = x =>
          /\ delivery[x].status \in {"absent", "sending"}
          /\ taken[x] \subseteq {i.n}
          /\ i.step = "record" /\ i.res = "retry" => taken[x] = {}
          /\ \A v \in Workers : \A j \in hand[v] : Live(j) /\ j.x = x => v = w /\ j = i

TakenWasSent == \A x \in Deliveries : taken[x] \subseteq sends[x]

OnceInv == TakenWasSent /\ \A x \in Deliveries \ doubt : Calm(x)

\* No worker is left with work on x.
NoneLeft(x) == \A v \in Workers : \A j \in hand'[v] : Live(j) => j.x # x

\* How a step may change the row of a delivery that stays beyond doubt.
RowKept(x) ==
    \/ /\ delivery'[x].status = delivery[x].status
       /\ delivery[x].status = "sending" => delivery'[x].lease = delivery[x].lease
    \/ delivery'[x].status = "absent"
    \/ /\ delivery'[x].status # "sending" /\ NoneLeft(x)
       /\ delivery'[x].status = "pending" => taken[x] = {}

LEMMA CalmKept ==
    ASSUME NEW x \in Deliveries, Calm(x), Shrinks, taken' = taken, RowKept(x)
    PROVE  Calm(x)'
  <1>1. CASE NoneLeft(x) /\ delivery'[x].status # "sending"
             /\ (delivery'[x].status = "pending" => taken[x] = {})
    BY <1>1 DEF Calm, NoneLeft
  <1>2. CASE \/ delivery'[x].status = "absent"
             \/ /\ delivery'[x].status = delivery[x].status
                /\ delivery[x].status = "sending" => delivery'[x].lease = delivery[x].lease
    <2>1. ASSUME NEW w \in Workers, NEW i \in hand'[w], Live(i), i.x = x
          PROVE  /\ delivery'[x].status \in {"absent", "sending"}
                 /\ taken[x] \subseteq {i.n}
                 /\ i.step = "record" /\ i.res = "retry" => taken[x] = {}
                 /\ \A v \in Workers : \A j \in hand'[v] : Live(j) /\ j.x = x => v = w /\ j = i
      BY <1>2, <2>1 DEF Calm, Shrinks
    <2> QED BY <1>2, <2>1 DEF Calm
  <1> QED BY <1>1, <1>2 DEF RowKept

LEMMA OnceKept ==
    ASSUME OnceInv, Shrinks, taken' = taken, sends' = sends, doubt \subseteq doubt',
           \A x \in Deliveries \ doubt' : Calm(x) => RowKept(x)
    PROVE  OnceInv'
  <1>1. TakenWasSent'
    BY DEF OnceInv, TakenWasSent
  <1>2. \A x \in Deliveries \ doubt' : Calm(x)'
    BY CalmKept DEF OnceInv
  <1> QED BY <1>1, <1>2 DEF OnceInv

\* The one item of a delivery leaves the hands, or stops being live.
LEMMA NoneLeftOf ==
    ASSUME TypeInv, NEW w \in Workers, NEW i \in hand[w], Live(i), Calm(i.x),
           \/ Drop(w, i)
           \/ \E j : Replace(w, i, j) /\ ~Live(j)
    PROVE  NoneLeft(i.x)
  <1>1. \A v \in Workers : \A j \in hand'[v] : Live(j) => j \in hand[v] /\ (v = w => j # i)
    <2>1. CASE Drop(w, i)
      BY <2>1 DEF Drop, TypeInv, TypeOK
    <2>2. ASSUME NEW j, Replace(w, i, j), ~Live(j)
          PROVE  \A v \in Workers : \A k \in hand'[v] : Live(k) => k \in hand[v] /\ (v = w => k # i)
      <3>1. \A v \in Workers : hand'[v] = IF v = w THEN (hand[w] \ {i}) \cup {j} ELSE hand[v]
        BY <2>2 DEF Replace, TypeInv, TypeOK
      <3> QED BY <2>2, <3>1
    <2> QED BY <2>1, <2>2
  <1> QED BY <1>1 DEF NoneLeft, Calm

LEMMA ClaimKeepsOnce ==
    ASSUME TypeInv, ClaimsInv, OnceInv, NEW w \in Workers,
           NEW S \in SUBSET Deliveries, Claim(w, S)
    PROVE  OnceInv'
  <1> USE DEF rows, outside, local, history, budget
  <1> DEFINE new == {Fresh(x, delivery[x].attempts + 1, "claimed") : x \in S}
  <1>1. \A v \in Workers : hand'[v] = IF v = w THEN new ELSE hand[v]
    BY DEF Claim, Round, TypeInv, TypeOK
  <1>2. \A i \in new : i.x \in S /\ i.step = "claimed" /\ i = Fresh(i.x, delivery[i.x].attempts + 1, "claimed")
    BY DEF Fresh
  <1> HIDE DEF new
  <1>3. UNCHANGED << taken, sends, doubt >>
    BY DEF Claim
  <1>4. ASSUME NEW x \in Deliveries \ doubt PROVE Calm(x)'
    <2>1. CASE x \in S
      <3>1. delivery[x].status = "pending" /\ taken[x] = {}
        BY <1>4, <2>1 DEF Claim, Claimable, OnceInv, Calm
      <3>2. delivery'[x].status = "sending" /\ delivery'[x].lease = "running"
        BY <2>1, ItemsTyped DEF Claim, Row
      <3>3. \A v \in Workers : \A j \in hand[v] : Live(j) => j.x # x
        BY <1>4, <3>1 DEF OnceInv, Calm
      <3>4. ASSUME NEW v \in Workers, NEW j \in hand'[v], Live(j), j.x = x
            PROVE  v = w /\ j \in new /\ j = Fresh(x, delivery[x].attempts + 1, "claimed") /\ j.step = "claimed"
        BY <1>1, <1>2, <3>3, <3>4
      <3> QED BY <1>3, <3>1, <3>2, <3>4 DEF Calm
    <2>2. CASE x \notin S
      <3>1. delivery'[x] = delivery[x]
        BY <1>4, <2>2 DEF Claim
      <3>2. \A v \in Workers : \A j \in hand'[v] : j.x = x => j \in hand[v]
        BY <1>1, <1>2, <2>2
      <3> QED BY <1>3, <1>4, <3>1, <3>2 DEF OnceInv, Calm
    <2> QED BY <2>1, <2>2
  <1> QED BY <1>3, <1>4 DEF OnceInv, TakenWasSent

LEMMA ProcessKeepsOnce ==
    ASSUME TypeInv, ClaimsInv, OnceInv, NEW w \in Workers, Process(w)
    PROVE  OnceInv'
  <1> USE DEF rows, outside, local, history, budget
  <1>1. \A i \in hand[w] : Live(i)
    BY DEF Process, ClaimsInv, Uniform, Live
  <1>2. \A v \in Workers : hand'[v] = IF v = w THEN {Recheck(i) : i \in hand[w]} ELSE hand[v]
    BY DEF Process, TypeInv, TypeOK
  <1>3. UNCHANGED << taken, sends, doubt, delivery >>
    BY DEF Process
  <1>4. ASSUME NEW v \in Workers, NEW j \in hand'[v], Live(j)
        PROVE  \E i \in hand[v] :
                  /\ j.x = i.x /\ j.n = i.n /\ Live(i)
                  /\ IF v = w THEN j = Recheck(i) /\ j.step # "record" ELSE j = i
    <2>1. CASE v # w
      BY <1>2, <1>4, <2>1
    <2>2. CASE v = w
      <3>1. PICK i \in hand[w] : j = Recheck(i)
        BY <1>2, <1>4, <2>2
      <3>2. j.x = i.x /\ j.n = i.n /\ j.step # "record"
        BY <3>1, ItemsTyped, RecheckKeeps
      <3> QED BY <1>1, <2>2, <3>1, <3>2
    <2> QED BY <2>1, <2>2
  <1>5. ASSUME NEW x \in Deliveries \ doubt PROVE Calm(x)'
    <2>0. Calm(x)
      BY DEF OnceInv
    <2>1. ASSUME NEW v \in Workers, NEW j \in hand'[v], Live(j), j.x = x
          PROVE  /\ delivery[x].status \in {"absent", "sending"}
                 /\ taken[x] \subseteq {j.n}
                 /\ j.step = "record" /\ j.res = "retry" => taken[x] = {}
                 /\ \A u \in Workers : \A k \in hand'[u] : Live(k) /\ k.x = x => u = v /\ k = j
      <3>1. PICK i \in hand[v] :
               /\ j.x = i.x /\ j.n = i.n /\ Live(i)
               /\ IF v = w THEN j = Recheck(i) /\ j.step # "record" ELSE j = i
        BY <1>4, <2>1
      <3>2. /\ delivery[x].status \in {"absent", "sending"} /\ taken[x] \subseteq {j.n}
            /\ j.step = "record" /\ j.res = "retry" => taken[x] = {}
        BY <2>0, <2>1, <3>1 DEF Calm
      <3>3. ASSUME NEW u \in Workers, NEW k \in hand'[u], Live(k), k.x = x PROVE u = v /\ k = j
        <4>1. PICK l \in hand[u] :
                 /\ k.x = l.x /\ Live(l)
                 /\ IF u = w THEN k = Recheck(l) ELSE k = l
          BY <1>4, <3>3
        <4>2. u = v /\ l = i
          BY <2>0, <2>1, <3>1, <3>3, <4>1 DEF Calm
        <4> QED BY <3>1, <4>1, <4>2
      <3> QED BY <3>2, <3>3
    <2> QED BY <1>3, <2>0, <2>1 DEF Calm
  <1> QED BY <1>3, <1>5 DEF OnceInv, TakenWasSent

LEMMA SendKeepsOnce ==
    ASSUME TypeInv, ClaimsInv, OnceInv, NEW w \in Workers, NEW chunk \in SUBSET hand[w],
           SendChunk(w, chunk)
    PROVE  OnceInv'
  <1> USE DEF rows, outside, local, history, budget
  <1>1. PICK answer \in Answers(chunk) :
           /\ hand' = [hand EXCEPT ![w] = (hand[w] \ chunk) \cup Sent(chunk, answer)]
           /\ taken' = [x \in Deliveries |->
                 taken[x] \cup ClaimsOf({i \in chunk : Takes(answer[i])}, x)]
           /\ doubt' = doubt \cup {i.x : i \in {j \in chunk : answer[j] = "lost"}}
    BY DEF SendChunk
  <1>2. \A v \in Workers : hand'[v] = IF v = w THEN (hand[w] \ chunk) \cup Sent(chunk, answer)
                                               ELSE hand[v]
    BY <1>1 DEF TypeInv, TypeOK
  <1>3. \A i \in chunk : i \in Item /\ i.x \in Deliveries /\ i.step = "send" /\ Live(i) /\ Unsent(i)
    BY ItemsTyped DEF SendChunk, Request, Live, Unsent
  <1>4. /\ delivery' = delivery
        /\ sends' = [x \in Deliveries |-> sends[x] \cup ClaimsOf(chunk, x)]
    BY DEF SendChunk
  <1>5. \A x : /\ \A n \in ClaimsOf({i \in chunk : Takes(answer[i])}, x) :
                     \E i \in chunk : i.x = x /\ i.n = n /\ Takes(answer[i])
               /\ ClaimsOf({i \in chunk : Takes(answer[i])}, x) \subseteq ClaimsOf(chunk, x)
    BY DEF ClaimsOf
  <1>6. TakenWasSent'
    BY <1>1, <1>4, <1>5 DEF OnceInv, TakenWasSent
  <1>7. ASSUME NEW v \in Workers, NEW j \in hand'[v]
        PROVE  \/ j \in hand[v] /\ (v = w => j \notin chunk)
               \/ v = w /\ \E i \in chunk :
                     /\ j = [i EXCEPT !.step = "record", !.res = Reported(answer[i])]
                     /\ j.x = i.x /\ j.n = i.n /\ j.res = Reported(answer[i])
    <2>1. CASE v = w /\ j \in Sent(chunk, answer)
      <3>1. PICK i \in chunk : j = [i EXCEPT !.step = "record", !.res = Reported(answer[i])]
        BY <2>1 DEF Sent
      <3>2. j.x = i.x /\ j.n = i.n /\ j.res = Reported(answer[i])
        BY <1>3, <3>1 DEF Item
      <3> QED BY <2>1, <3>1, <3>2
    <2>2. CASE j \in hand[v] /\ (v = w => j \notin chunk)
      BY <2>2
    <2> QED BY <1>2, <1>7, <2>1, <2>2
  <1>8. ASSUME NEW x \in Deliveries \ doubt' PROVE Calm(x)'
    <2>0. Calm(x) /\ x \notin doubt
      BY <1>1 DEF OnceInv
    <2>1. CASE \A i \in chunk : i.x # x
      <3>1. taken'[x] = taken[x]
        <4>1. ClaimsOf({i \in chunk : Takes(answer[i])}, x) = {}
          BY <1>5, <2>1
        <4> QED BY <1>1, <4>1
      <3>2. ASSUME NEW v \in Workers, NEW j \in hand'[v], j.x = x PROVE j \in hand[v]
        <4>1. ~ \E i \in chunk : j.x = i.x
          BY <2>1, <3>2
        <4> QED BY <1>7, <4>1
      <3> QED BY <1>4, <2>0, <3>1, <3>2 DEF Calm
    <2>2. ASSUME NEW i \in chunk, i.x = x PROVE Calm(x)'
      <3>1. /\ \A v \in Workers : \A j \in hand[v] : Live(j) /\ j.x = x => v = w /\ j = i
            /\ delivery[x].status \in {"absent", "sending"} /\ taken[x] \subseteq {i.n}
        BY <1>3, <2>0, <2>2 DEF Calm
      <3>2. taken[x] = {}
        <4>1. i.n \notin sends[x]
          BY <1>3, <2>2 DEF ClaimsInv, ClaimsAreHeldOnce
        <4> QED BY <3>1, <4>1 DEF OnceInv, TakenWasSent
      <3>3. \A k \in chunk : k.x = x => k = i
        BY <1>3, <3>1
      <3>4. taken'[x] \subseteq {i.n} /\ (~Takes(answer[i]) => taken'[x] = {})
        BY <1>1, <1>5, <3>2, <3>3
      <3>5. Reported(answer[i]) = "retry" => ~Takes(answer[i])
        <4>1. answer[i] # "lost"
          BY <1>1, <2>2
        <4> QED BY <4>1 DEF Reported, Takes
      <3>6. ASSUME NEW v \in Workers, NEW j \in hand'[v], Live(j), j.x = x
            PROVE  /\ v = w /\ j = [i EXCEPT !.step = "record", !.res = Reported(answer[i])]
                   /\ j.n = i.n /\ j.res = Reported(answer[i])
        <4>1. CASE j \in hand[v] /\ (v = w => j \notin chunk)
          BY <2>2, <3>1, <3>6, <4>1
        <4>2. ASSUME v = w, NEW k \in chunk,
                     j = [k EXCEPT !.step = "record", !.res = Reported(answer[k])],
                     j.x = k.x, j.n = k.n, j.res = Reported(answer[k])
              PROVE  /\ v = w /\ j = [i EXCEPT !.step = "record", !.res = Reported(answer[i])]
                     /\ j.n = i.n /\ j.res = Reported(answer[i])
          BY <3>3, <3>6, <4>2
        <4> QED BY <1>7, <4>1, <4>2
      <3>7. \A a, b \in taken'[x] : a = b
        BY <3>4
      <3> QED BY <1>4, <2>0, <3>1, <3>4, <3>5, <3>6, <3>7 DEF Calm
    <2> QED BY <2>1, <2>2
  <1> QED BY <1>6, <1>8 DEF OnceInv

LEMMA RefuseKeepsOnce ==
    ASSUME TypeInv, OnceInv, NEW w \in Workers, NEW chunk \in SUBSET hand[w],
           NEW k \in 2 .. BatchSize, RefuseChunk(w, chunk, k)
    PROVE  OnceInv'
  <1>1. \A v \in Workers : \A j \in hand'[v] : \E i \in hand[v] : From(w, chunk, k, v, i, j)
    BY RefusedItems
  <1>2. UNCHANGED << taken, sends, doubt, delivery >>
    BY DEF RefuseChunk, rows, history
  <1>3. \A v, i, j : From(w, chunk, k, v, i, j) =>
           j.x = i.x /\ j.n = i.n /\ j.step = i.step /\ j.res = i.res /\ (Live(j) <=> Live(i))
    BY DEF From, Live
  <1>4. \A v, i, j, l : From(w, chunk, k, v, i, j) /\ From(w, chunk, k, v, i, l) => j = l
    BY DEF From
  <1>5. ASSUME NEW x \in Deliveries \ doubt PROVE Calm(x)'
    <2>0. Calm(x)
      BY DEF OnceInv
    <2>1. ASSUME NEW v \in Workers, NEW j \in hand'[v], Live(j), j.x = x
          PROVE  /\ delivery[x].status \in {"absent", "sending"}
                 /\ taken[x] \subseteq {j.n}
                 /\ j.step = "record" /\ j.res = "retry" => taken[x] = {}
                 /\ \A u \in Workers : \A l \in hand'[u] : Live(l) /\ l.x = x => u = v /\ l = j
      <3>1. PICK i \in hand[v] : From(w, chunk, k, v, i, j)
        BY <1>1
      <3>2. Live(i) /\ i.x = x /\ i.n = j.n /\ i.step = j.step /\ i.res = j.res
        BY <1>3, <2>1, <3>1
      <3>3. ASSUME NEW u \in Workers, NEW l \in hand'[u], Live(l), l.x = x PROVE u = v /\ l = j
        <4>1. PICK h \in hand[u] : From(w, chunk, k, u, h, l)
          BY <1>1
        <4>2. u = v /\ h = i
          BY <1>3, <2>0, <3>2, <3>3, <4>1 DEF Calm
        <4> QED BY <1>4, <3>1, <4>1, <4>2
      <3> QED BY <2>0, <3>2, <3>3 DEF Calm
    <2> QED BY <1>2, <2>0, <2>1 DEF Calm
  <1> QED BY <1>2, <1>5 DEF OnceInv, TakenWasSent

\* What an outcome leaves in the row.
LEMMA OutcomesOf ==
    ASSUME NEW row \in Row, NEW i \in Item
    PROVE  /\ Outcome(row, i).status \notin {"absent", "sending"}
           /\ Outcome(row, i).status = "pending" => i.res = "retry"
           /\ row.status = "accepted" =>
                 /\ ReceiptOutcome(row, i).status \notin {"absent", "sending"}
                 /\ ReceiptOutcome(row, i).status = "pending" => i.res = "retry" /\ MayRetry(i)
  <1>1. \A status : Finish(row, status).status = status
    BY DEF Finish, Row
  <1>2. AskLater(row).status = row.status
    BY DEF AskLater, Row
  <1>3. Fail(row, i).status = "failed"
    BY DEF Fail, Finish, Row
  <1>4. RetryOrFail(row, i).status \in {"failed", "pending"}
    BY <1>3 DEF RetryOrFail, Row
  <1>5. Accept(row, i).status \in {"unconfirmed", "accepted"}
    BY DEF Accept, Finish, Row
  <1>6. [row EXCEPT !.status = "pending", !.lease = "null", !.due = FALSE, !.ticket = 0].status
           = "pending"
    BY DEF Row
  <1> QED BY <1>1, <1>2, <1>3, <1>4, <1>5, <1>6 DEF Outcome, ReceiptOutcome

LEMMA DispatchKeepsOnce ==
    ASSUME TypeInv, ClaimsInv, OnceInv, NEW w \in Workers, DispatchStep(w) \/ FanOutFails(w)
    PROVE  OnceInv'
  <1> USE DEF rows, outside, local, history, budget
  <1>h. \A i \in hand[w] : i \in Item /\ i.x \in Deliveries
    BY ItemsTyped
  <1>r. delivery \in [Deliveries -> Row] /\ \A x \in Deliveries : delivery[x] \in Row
    BY ItemsTyped
  <1>u. Uniform
    BY DEF ClaimsInv
  <1>q. ASSUME taken' = taken, sends' = sends, doubt' = doubt, Shrinks,
               \A x \in Deliveries \ doubt : Calm(x) => RowKept(x)
        PROVE  OnceInv'
    BY <1>q, OnceKept
  <1>s. ASSUME delivery' = delivery, NEW x \in Deliveries PROVE RowKept(x)
    BY <1>s DEF RowKept
  <1>1. CASE BeginDispatch(w) \/ FanOutFails(w)
    <2>1. ASSUME NEW x \in Deliveries \ doubt, Calm(x) PROVE RowKept(x)
      BY <1>1, <2>1 DEF BeginDispatch, FanOutFails, CloseInterrupted, Interrupted, Calm, RowKept
    <2> QED BY <1>1, <1>q, <1>u, <2>1, ShrinkingMoves DEF BeginDispatch, FanOutFails
  <1>2. ASSUME NEW S \in SUBSET Deliveries, Claim(w, S) PROVE OnceInv'
    BY <1>2, ClaimKeepsOnce
  <1>3. CASE Process(w)
    BY <1>3, ProcessKeepsOnce
  <1>4. ASSUME NEW i \in hand[w], Settle(w, i) PROVE OnceInv'
    <2>1. Live(i) /\ i.x \in Deliveries /\ i.res \in {"expired", "skipped"}
      BY <1>4, <1>h DEF Settle, Live, TypeInv, VerdictsSettle
    <2>2. Finish(delivery[i.x], i.res).status = i.res
      BY <2>1, <1>r, FinishTyped DEF FinalStatus
    <2>3. ASSUME NEW x \in Deliveries \ doubt, Calm(x) PROVE RowKept(x)
      <3>1. x = i.x => NoneLeft(x)
        BY <1>4, <2>1, <2>3, NoneLeftOf DEF Settle
      <3> QED BY <1>4, <1>r, <2>1, <2>2, <3>1 DEF Settle, WhileSending, RowKept
    <2> QED BY <1>4, <1>q, <1>u, <2>3, ShrinkingMoves DEF Settle
  <1>5. ASSUME NEW chunk \in SUBSET hand[w], SendChunk(w, chunk) PROVE OnceInv'
    BY <1>5, SendKeepsOnce
  <1>6. ASSUME NEW i \in hand[w], RecordResult(w, i) PROVE OnceInv'
    <2>1. Live(i) /\ i.x \in Deliveries /\ i \in Item /\ i.step = "record"
      BY <1>6, <1>h DEF RecordResult, Live
    <2>2. ~Live([i EXCEPT !.step = "disable"])
      BY <2>1 DEF Live, Item
    <2>3. ASSUME NEW x \in Deliveries \ doubt, Calm(x) PROVE RowKept(x)
      <3>1. x = i.x => NoneLeft(x)
        BY <1>6, <2>1, <2>2, <2>3, NoneLeftOf DEF RecordResult
      <3>2. x = i.x => (i.res = "retry" => taken[x] = {})
        BY <2>1, <2>3 DEF Calm
      <3>3. /\ Outcome(delivery[i.x], i).status # "sending"
            /\ Outcome(delivery[i.x], i).status = "pending" => i.res = "retry"
        BY <1>r, <2>1, OutcomesOf
      <3> QED BY <1>6, <1>r, <2>1, <3>1, <3>2, <3>3 DEF RecordResult, WhileSending, RowKept
    <2>4. Shrinks
      BY <1>6, <1>u, <2>1, <2>2, ShrinkingMoves DEF RecordResult
    <2> QED BY <1>6, <1>q, <2>3, <2>4 DEF RecordResult
  <1>7. ASSUME NEW i \in hand[w], InvalidateToken(w, i) PROVE OnceInv'
    BY <1>7, <1>q, <1>s, <1>u, ShrinkingMoves DEF InvalidateToken
  <1>8. CASE EndDispatch(w)
    BY <1>8, <1>q, <1>s, <1>u, ShrinkingMoves DEF EndDispatch
  <1>9. ASSUME NEW chunk \in SUBSET hand[w], NEW k \in 2 .. BatchSize, RefuseChunk(w, chunk, k)
        PROVE  OnceInv'
    BY <1>9, RefuseKeepsOnce
  <1> QED BY <1>1, <1>2, <1>3, <1>4, <1>5, <1>6, <1>7, <1>8, <1>9 DEF DispatchStep

LEMMA ReceiptsKeepOnce ==
    ASSUME TypeInv, ClaimsInv, OnceInv, NEW w \in Workers, ReceiptStep(w) \/ ReceiptsFail(w)
    PROVE  OnceInv'
  <1> USE DEF rows, outside, local, history, budget
  <1>h. \A i \in hand[w] : i \in Item /\ i.x \in Deliveries
    BY ItemsTyped
  <1>r. delivery \in [Deliveries -> Row] /\ \A x \in Deliveries : delivery[x] \in Row
    BY ItemsTyped
  <1>u. Uniform
    BY DEF ClaimsInv
  <1>q. ASSUME taken' = taken, sends' = sends, doubt' = doubt, Shrinks,
               \A x \in Deliveries : Calm(x) => RowKept(x)
        PROVE  OnceInv'
    BY <1>q, OnceKept
  <1>s. ASSUME delivery' = delivery, NEW x \in Deliveries PROVE RowKept(x)
    BY <1>s DEF RowKept
  <1>1. ASSUME NEW S \in SUBSET Deliveries, CollectReceipts(w, S) PROVE OnceInv'
    <2>1. ASSUME NEW x \in Deliveries PROVE RowKept(x)
      <3>1. [delivery[x] EXCEPT !.lease = "running"].status = delivery[x].status
        BY <1>r DEF Row
      <3> QED BY <1>1, <3>1 DEF CollectReceipts, ReceiptDue, RowKept
    <2>2. \A i \in {ReceiptItem(x) : x \in S} : ~Live(i)
      BY DEF ReceiptItem, Live
    <2> QED BY <1>1, <1>q, <1>u, <2>1, <2>2, ShrinkingMoves DEF CollectReceipts
  <1>2. CASE ReceiptsAnswered(w)
    <2>1. PICK answer \in [hand[w] -> ReceiptAnswer] :
             hand' = [hand EXCEPT ![w] =
                 {[i EXCEPT !.step = "apply", !.res = answer[i]] : i \in hand[w]}]
      BY <1>2 DEF ReceiptsAnswered
    <2> DEFINE S == {[i EXCEPT !.step = "apply", !.res = answer[i]] : i \in hand[w]}
    <2>2. \A j \in S : j.step = "apply"
      BY <1>h DEF Item
    <2>3. \A v \in Workers : hand'[v] = IF v = w THEN S ELSE hand[v]
      BY <2>1 DEF TypeInv, TypeOK
    <2>4. Shrinks
      <3> HIDE DEF S
      <3> QED BY <2>2, <2>3 DEF Shrinks, Live
    <2> QED BY <1>2, <1>q, <1>s, <2>4 DEF ReceiptsAnswered
  <1>3. ASSUME NEW i \in hand[w], ApplyReceipt(w, i) PROVE OnceInv'
    <2>1. Shrinks
      <3>1. ~Live([i EXCEPT !.step = "disable"])
        BY <1>h DEF Live, Item
      <3> QED BY <1>3, <1>u, <3>1, ShrinkingMoves DEF ApplyReceipt
    <2>2. ASSUME NEW x \in Deliveries \ doubt', Calm(x) PROVE RowKept(x)
      <3>1. CASE x # i.x \/ delivery[x].status # "accepted"
        BY <1>3, <1>r, <3>1 DEF ApplyReceipt, RowKept
      <3>2. CASE x = i.x /\ delivery[x].status = "accepted"
        <4>1. ~(i.res = "retry" /\ MayRetry(i))
          BY <1>3, <2>2, <3>2 DEF ApplyReceipt
        <4>2. delivery'[x].status \notin {"pending", "sending"}
          BY <1>3, <1>h, <1>r, <3>2, <4>1, OutcomesOf DEF ApplyReceipt
        <4>3. NoneLeft(x)
          BY <2>1, <2>2, <3>2 DEF NoneLeft, Shrinks, Calm
        <4> QED BY <4>2, <4>3 DEF RowKept
      <3> QED BY <3>1, <3>2
    <2>3. doubt \subseteq doubt' /\ taken' = taken /\ sends' = sends
      BY <1>3 DEF ApplyReceipt
    <2> QED BY <2>1, <2>2, <2>3, OnceKept
  <1>4. CASE EndReceipts(w)
    BY <1>4, <1>q, <1>s, <1>u, ShrinkingMoves DEF EndReceipts
  <1>5. CASE ReceiptsFail(w)
    <2>1. ASSUME NEW x \in Deliveries PROVE RowKept(x)
      <3>1. AskLater(delivery[x]).status = delivery[x].status
        BY <1>r DEF AskLater, Row
      <3> QED BY <1>5, <3>1 DEF ReceiptsFail, RowKept
    <2> QED BY <1>5, <1>q, <1>u, <2>1, ShrinkingMoves DEF ReceiptsFail
  <1> QED BY <1>1, <1>2, <1>3, <1>4, <1>5 DEF ReceiptStep

LEMMA MessagesKeepOnce ==
    ASSUME TypeInv, ClaimsInv, OnceInv, NEW w \in Workers,
           \/ \E m \in Messages : Enqueue(m) \/ FanOutOne(w, m)
           \/ Complete(w)
           \/ \E S \in SUBSET Messages : Purge(w, S)
           \/ StepFails(w)
           \/ Crash(w)
    PROVE  OnceInv'
  <1> USE DEF rows, outside, local, history, budget
  <1>u. Uniform
    BY DEF ClaimsInv
  <1>q. ASSUME taken' = taken, sends' = sends, doubt' = doubt, Shrinks,
               \A x \in Deliveries : RowKept(x)
        PROVE  OnceInv'
    BY <1>q, OnceKept
  <1>s. ASSUME delivery' = delivery, NEW x \in Deliveries PROVE RowKept(x)
    BY <1>s DEF RowKept
  <1>1. ASSUME NEW m \in Messages, Enqueue(m) PROVE OnceInv'
    BY <1>1, <1>q, <1>s, <1>u, ShrinkingMoves DEF Enqueue
  <1>2. ASSUME NEW m \in Messages, FanOutOne(w, m) PROVE OnceInv'
    <2>1. Shrinks
      BY <1>2, <1>u, ShrinkingMoves DEF FanOutOne
    <2>2. ASSUME NEW x \in Deliveries PROVE RowKept(x)
      <3>1. CASE delivery'[x] = delivery[x]
        BY <3>1 DEF RowKept
      <3>2. CASE x[1] = m /\ delivery'[x].status = "pending"
        <4>1. ~Queued(x[1])
          BY <1>2, <3>2 DEF FanOutOne, Queued
        <4>2. taken[x] = {}
          BY <4>1 DEF ClaimsInv, WorkIsQueued, OnceInv, TakenWasSent
        <4>3. NoneLeft(x)
          BY <2>1, <4>1 DEF ClaimsInv, WorkIsQueued, NoneLeft, Shrinks
        <4> QED BY <3>2, <4>2, <4>3 DEF RowKept
      <3>3. \A d : FreshRow(d).status = "pending"
        BY DEF FreshRow, NoRow
      <3> QED BY <1>2, <3>1, <3>2, <3>3 DEF FanOutOne
    <2> QED BY <1>2, <1>q, <2>1, <2>2 DEF FanOutOne
  <1>3. CASE Complete(w) \/ StepFails(w) \/ Crash(w)
    BY <1>3, <1>q, <1>s, <1>u, ShrinkingMoves DEF Complete, StepFails, Crash
  <1>4. ASSUME NEW S \in SUBSET Messages, Purge(w, S) PROVE OnceInv'
    <2>1. \A x \in Deliveries : RowKept(x)
      BY <1>4 DEF Purge, RowKept, NoRow
    <2> QED BY <1>4, <1>q, <1>u, <2>1, ShrinkingMoves DEF Purge
  <1> QED BY <1>1, <1>2, <1>3, <1>4

LEMMA OutsideKeepsOnce ==
    ASSUME TypeInv, OnceInv, Time \/ Environment
    PROVE  OnceInv'
  <1> USE DEF rows, outside, local, history, budget
  <1>r. delivery \in [Deliveries -> Row] /\ \A x \in Deliveries : delivery[x] \in Row
    BY ItemsTyped
  <1>1. /\ hand' = hand /\ sends' = sends /\ taken' = taken
        /\ doubt \subseteq doubt'
    BY DEF Time, MessageExpires, BecomesDue, LeaseRunsOut, TicketAges, Environment, Register,
           SignOut, Reconsider, DeleteAccount, TokenDies, Outside
  <1>2. ASSUME NEW x \in Deliveries \ doubt' PROVE RowKept(x)
    <2>1. ASSUME NEW y \in Deliveries, BecomesDue(y) \/ TicketAges(y) PROVE RowKept(x)
      <3>1. \/ delivery'[x] = delivery[x]
            \/ delivery'[x] = [delivery[x] EXCEPT !.due = TRUE]
            \/ delivery'[x] = [delivery[x] EXCEPT !.old = TRUE]
        BY <1>r, <2>1 DEF BecomesDue, TicketAges
      <3> QED BY <1>r, <3>1 DEF RowKept, Row
    <2>2. ASSUME NEW y \in Deliveries, LeaseRunsOut(y) PROVE RowKept(x)
      <3>1. \/ delivery'[x] = delivery[x]
            \/ delivery[x].status # "sending" /\ delivery'[x] = [delivery[x] EXCEPT !.lease = "over"]
        BY <1>2, <1>r, <2>2 DEF LeaseRunsOut
      <3> QED BY <1>r, <3>1 DEF RowKept, Row
    <2>3. CASE Environment \/ \E m \in Messages : MessageExpires(m)
      <3>1. delivery' = delivery \/ delivery'[x] \in {NoRow, delivery[x]}
        BY <2>3 DEF MessageExpires, Environment, Register, SignOut, Reconsider, DeleteAccount,
                    TokenDies, Outside
      <3> QED BY <3>1 DEF RowKept, NoRow
    <2> QED BY <2>1, <2>2, <2>3 DEF Time
  <1>3. Shrinks
    BY <1>1 DEF Shrinks
  <1> QED BY <1>1, <1>2, <1>3, OnceKept

LEMMA OnceNext == TypeInv /\ ClaimsInv /\ OnceInv /\ [Next]_vars => OnceInv'
  <1> SUFFICES ASSUME TypeInv, ClaimsInv, OnceInv, [Next]_vars PROVE OnceInv'
    OBVIOUS
  <1>1. CASE \E m \in Messages : Enqueue(m)
    <2>1. UNCHANGED << hand, sends, taken, doubt, delivery >>
      BY <1>1 DEF Enqueue, local, history
    <2> QED BY <2>1 DEF OnceInv, TakenWasSent, Calm
  <1>2. CASE \E w \in Workers : RunStep(w) \/ Fault(w)
    BY <1>2, DispatchKeepsOnce, ReceiptsKeepOnce, MessagesKeepOnce DEF RunStep, Fault
  <1>3. CASE Time \/ Environment
    BY <1>3, OutsideKeepsOnce
  <1>4. CASE UNCHANGED vars
    BY <1>4 DEF vars, rows, local, history, OnceInv, TakenWasSent, Calm
  <1> QED BY <1>1, <1>2, <1>3, <1>4 DEF Next

\* The provider takes the push of a delivery once, whatever workers, crashes, retries and
\* purges do, unless an answer was lost, a lease ran out while its worker was sending, or a
\* receipt asked for another try (claim, accept, retryOrFail, applyReceipts).
THEOREM TakenOnce == Spec => []SentOnceUnlessInDoubt
  <1>1. Init => OnceInv
    BY DEF Init, OnceInv, TakenWasSent, Calm, NoRow
  <1>2. OnceInv => SentOnceUnlessInDoubt
    BY DEF OnceInv, Calm, SentOnceUnlessInDoubt
  <1> QED BY <1>1, <1>2, OnceNext, TypeInvariant, ClaimsInvariant, PTL DEF Spec

=============================================================================
