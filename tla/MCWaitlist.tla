----------------------------- MODULE MCWaitlist -----------------------------
(* The waiting list of one resource on small instances. *)
EXTENDS Waitlist, TLC

CONSTANTS u1, u2, u3, r1, r2, s1

Alike == Permutations(Users) \cup Permutations(Requests)

=============================================================================
