---------------------------- MODULE TokenRegistry ----------------------------
(***************************************************************************)
(* What the registry of installations promises to whoever sends pushes: a  *)
(* registration happens at once.  It takes the token from every other      *)
(* installation and from every account but its own, and nothing else moves *)
(* a token to anybody.  Locks, the statements of a transaction, retries    *)
(* and the rows that older app versions wrote are not visible here.        *)
(***************************************************************************)

CONSTANTS Installations, LegacyIds, Owners, PushTokens, NoPushToken

VARIABLES
    active,   \* << installation, owner, token >>: who may be using what
    named     \* << owner, token >>: what the registrations tell the dispatch

registryVars == << active, named >>

RegistryInit == active = {} /\ named = {}

With(e, t) == IF t = NoPushToken THEN {} ELSE {<< e, t >>}
Used(i) == {<< d[2], d[3] >> : d \in {d \in active : d[1] = i}}

\* An installation reports its account and its token.
Registers(i, e, t) ==
    /\ active' = {d \in active : d[1] # i /\ (d[3] = t => t = NoPushToken)} \cup {<< i, e, t >>}
    /\ named' = ({m \in named : m[2] = t => m[1] = e} \ Used(i)) \cup With(e, t)

\* It signs out, or its token is dead.
Retires(i) ==
    /\ \E d \in active : d[1] = i
    /\ active' = {d \in active : d[1] # i}
    /\ named' = named \ Used(i)

\* The provider no longer knows the token.
Forgets(t) == named' = {m \in named : m[2] # t} /\ UNCHANGED active

\* An older app reports a token that no installation uses: nothing is taken from anybody.
Adopts(g, e, t) ==
    /\ \A d \in active : d[3] = t => d[1] = g
    /\ \A d \in active : d[1] = g => d[3] = t
    /\ \A m \in named : m[2] # t
    /\ active' = {d \in active : d[1] # g} \cup {<< g, e, t >>}
    /\ UNCHANGED named

RegistryNext ==
    \/ \E t \in PushTokens : Forgets(t)
    \/ \E i \in Installations, e \in Owners, t \in PushTokens \cup {NoPushToken} :
          Registers(i, e, t)
    \/ \E i \in Installations \cup LegacyIds : Retires(i)
    \/ \E g \in LegacyIds, e \in Owners, t \in PushTokens : Adopts(g, e, t)

RegistrySpec == RegistryInit /\ [][RegistryNext]_registryVars

-----------------------------------------------------------------------------
\* What follows from these steps alone: an installation has one account and a token one
\* installation, and an account is named with a token only while it uses it.
RegistryOK ==
    /\ \A d, f \in active : d[1] = f[1] \/ (d[3] = f[3] /\ d[3] # NoPushToken) => d = f
    /\ named \subseteq Owners \X PushTokens
    /\ \A m \in named : \E d \in active : m = << d[2], d[3] >>

=============================================================================
