------------------------------- MODULE Outbox -------------------------------
(***************************************************************************)
(* What every sender of announcements promises: an item is told of once,   *)
(* recorded as sent only once it was, set aside only if it never will be,  *)
(* and an ending stays.  Replicas, leases, retries, refusals and the order *)
(* of the statements are not visible at this level.                        *)
(***************************************************************************)
EXTENDS Naturals

CONSTANT Items       \* what may be announced

VARIABLES
    standing,        \* what is recorded of each item
    told             \* the announcements of each item

outboxVars == << standing, told >>

OutboxTypeOK ==
    /\ standing \in [Items -> {"unknown", "waiting", "set_aside", "sent", "given_up", "gone"}]
    /\ told \in [Items -> 0 .. 1]

OutboxInit ==
    /\ standing \in [Items -> {"unknown", "waiting"}]
    /\ told = [i \in Items |-> 0]

Stand(S, s) == [i \in Items |-> IF i \in S THEN s ELSE standing[i]]

\* Some new items are to be announced, of which some are at once; others never will be.
Enter(S, now, aside) ==
    /\ \A i \in S \cup aside : standing[i] = "unknown"
    /\ now \subseteq S /\ S \cap aside = {}
    /\ standing' = [i \in Items |-> IF i \in S THEN "waiting"
                                    ELSE IF i \in aside THEN "set_aside" ELSE standing[i]]
    /\ told' = [i \in Items |-> IF i \in now THEN 1 ELSE told[i]]

\* Once; by somebody who may not know yet how the item ended.
Tell(i) ==
    /\ standing[i] \notin {"unknown", "set_aside"} /\ told[i] = 0
    /\ told' = [told EXCEPT ![i] = 1]
    /\ UNCHANGED standing

RecordSent(S) ==
    /\ \A i \in S : standing[i] = "waiting" /\ told[i] = 1
    /\ standing' = Stand(S, "sent") /\ UNCHANGED told

GiveUp(S) ==
    /\ \A i \in S : standing[i] = "waiting"
    /\ standing' = Stand(S, "given_up") /\ UNCHANGED told

\* What was to be announced is deleted, announced or not.
Withdraw(S) ==
    /\ \A i \in S : standing[i] # "unknown"
    /\ standing' = Stand(S, "gone") /\ UNCHANGED told

OutboxNext ==
    \/ \E S, aside \in SUBSET Items : \E now \in SUBSET S : Enter(S, now, aside)
    \/ \E i \in Items : Tell(i)
    \/ \E S \in SUBSET Items : RecordSent(S) \/ GiveUp(S) \/ Withdraw(S)

OutboxSpec == OutboxInit /\ [][OutboxNext]_outboxVars

=============================================================================
