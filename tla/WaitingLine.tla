----------------------------- MODULE WaitingLine -----------------------------
(***************************************************************************)
(* What the waiting list of a resource promises to the people in it: they  *)
(* are asked in the order in which they came, only for a resource that is  *)
(* free, and only passed over while nothing would reach them; and nobody   *)
(* changes the order.  Rows, locks, replicas, expirations and the          *)
(* statements that a hand-over is made of are not visible at this level.   *)
(***************************************************************************)

CONSTANT People

VARIABLES
    holding,      \* who has the resource
    waiting,      \* who is in the line
    before,       \* << v, u >>: v came before u, both are waiting
    asked,        \* who has been asked
    reachable     \* whom a notification would reach now

lineVars == << holding, waiting, before, asked, reachable >>

LineInit ==
    /\ holding = {} /\ waiting = {} /\ before = {} /\ asked = {}
    /\ reachable \in SUBSET People

\* One joins the line of a resource that is taken, behind everybody.
Join(u) ==
    /\ holding # {} /\ u \notin holding \cup waiting
    /\ waiting' = waiting \cup {u}
    /\ before' = before \cup (waiting \X {u})
    /\ UNCHANGED << holding, asked, reachable >>

Leaves(S) ==
    /\ waiting' = waiting \ S
    /\ before' = {p \in before : p[1] \notin S /\ p[2] \notin S}
    /\ asked' = asked \ S

Leave(S) == Leaves(S) /\ UNCHANGED << holding, reachable >>

\* One takes what is free: from the line, or past it.
TakeAndLeave(u) ==
    /\ holding = {} /\ u \in waiting
    /\ holding' = {u} /\ Leaves({u})
    /\ UNCHANGED reachable

TakePastTheLine(u) ==
    /\ holding = {} /\ holding' = {u}
    /\ UNCHANGED << waiting, before, asked, reachable >>

Release ==
    /\ holding # {} /\ holding' = {}
    /\ UNCHANGED << waiting, before, asked, reachable >>

\* The first person of the line who can be reached.
Ask(u) ==
    /\ holding = {} /\ u \in waiting \cap reachable
    /\ \A v \in People : << v, u >> \in before => v \notin reachable
    /\ asked' = asked \cup {u}
    /\ UNCHANGED << holding, waiting, before, reachable >>

StopAsking(u) ==
    /\ asked' = asked \ {u}
    /\ UNCHANGED << holding, waiting, before, reachable >>

ReachMoves ==
    /\ reachable' \in SUBSET People
    /\ UNCHANGED << holding, waiting, before, asked >>

LineNext ==
    \/ \E u \in People :
          Join(u) \/ TakeAndLeave(u) \/ TakePastTheLine(u) \/ Ask(u) \/ StopAsking(u)
    \/ \E S \in SUBSET People : Leave(S)
    \/ Release \/ ReachMoves

LineSpec == LineInit /\ [][LineNext]_lineVars

-----------------------------------------------------------------------------
\* What follows from these steps alone: one has the resource, those who are asked wait, and
\* of two who wait one came before the other.
LineOK ==
    /\ \A u, v \in holding : u = v
    /\ asked \subseteq waiting /\ before \subseteq waiting \X waiting
    /\ \A u, v \in waiting : << u, v >> \in before <=> u # v /\ << v, u >> \notin before
    /\ \A u, v, w \in waiting :
          << u, v >> \in before /\ << v, w >> \in before => << u, w >> \in before

\* Of two who go on waiting, who came first does not change.
NobodyOvertakes ==
    [][\A u, v \in waiting \cap waiting' : << u, v >> \in before' <=> << u, v >> \in before]_lineVars

=============================================================================
