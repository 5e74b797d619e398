-------------------------- MODULE MCPushPipeline --------------------------
(* The push pipeline on small instances. *)
EXTENDS PushPipeline, TLC

CONSTANTS m1, m2, d1, d2, u1, u2, t1, t2, w1, w2

\* One phone of the audience that may be pushed to.
OneDevice == { d1 :> [owner |-> u1, token |-> t1, able |-> TRUE] }

\* Two phones of two users, both in the audience.
TwoDevices == { (d1 :> [owner |-> u1, token |-> t1, able |-> TRUE]) @@
                (d2 :> [owner |-> u2, token |-> t2, able |-> TRUE]) }

ToEveryone == [m \in Messages |-> Users]
NoKeys == [m \in Messages |-> None]
SharedKey == [m \in Messages |-> m1]

WorkersAlike == Permutations(Workers)

\* With TwoDevices and ToEveryone the two phones, with their owners and tokens, are alike too.
Swapped == (d1 :> d2) @@ (d2 :> d1) @@ (u1 :> u2) @@ (u2 :> u1) @@ (t1 :> t2) @@ (t2 :> t1)
Unswapped == [v \in DOMAIN Swapped |-> v]
WorkersAndPhonesAlike == {p @@ q : p \in WorkersAlike, q \in {Swapped, Unswapped}}

=============================================================================
