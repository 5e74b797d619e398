------------------------------ MODULE Devices -------------------------------
(***************************************************************************)
(* App installations and the mirror of their push tokens that the direct   *)
(* dispatch still reads (services/devices, PATCH /newf/me of handlers/user, *)
(* pruneTokens of services/notification.go).  A registration is also the   *)
(* heartbeat that proves a session; it is a transaction of several         *)
(* statements, retried when two of them collide.                           *)
(***************************************************************************)
EXTENDS Naturals, FiniteSets

CONSTANTS
    Installations,        \* identifiers made by the app
    LegacyIds,            \* identifiers of the rows made for older app versions
    Owners,               \* accounts
    PushTokens,
    Callers,              \* transactions that may be under way at the same time
    MaxRegisterAttempts,  \* maxRegisterAttempts (5)
    MaxRegisterCalls,     \* bound: registrations that begin
    MaxDeviceEvents       \* bound: everything else that happens to a row

VARIABLES
    device,     \* rows of devices
    mirror,     \* rows of user_notification_tokens: account and token
    call,       \* transactions under way
    answered,   \* history: installations whose last heartbeat got its answer
    patched,    \* history: mirror rows that only older app versions wrote
    calls,      \* registrations begun
    deviceEvents

deviceVars == << device, mirror, call, answered, patched, calls, deviceEvents >>

-----------------------------------------------------------------------------
(* State *)

DeviceIds == Installations \cup LegacyIds
NoPushToken == "notoken"
NoOwner == "noowner"

\* seen: how long ago last_seen_at is: within WriteThrottle, PresenceWindow,
\* SessionTimeout, or longer.  proven: it is after the last change of the password.
Seen == {"throttled", "present", "session", "late"}
Device == [owner : Owners \cup {NoOwner}, token : PushTokens \cup {NoPushToken},
           status : {"none", "active", "disabled"}, seen : Seen, proven : BOOLEAN]
NoDevice == [owner |-> NoOwner, token |-> NoPushToken, status |-> "none",
             seen |-> "late", proven |-> FALSE]

\* A registration: who, what it reports, its stage, the rows it locked, the mirror rows
\* it deletes, and whether the password is the one it started under.
Call == [stage : {"idle", "take", "write"}, at : Installations, owner : Owners,
         token : PushTokens \cup {NoPushToken}, exists : BOOLEAN, locked : SUBSET DeviceIds,
         doomed : SUBSET (Owners \X PushTokens), proven : BOOLEAN,
         attempt : 1 .. MaxRegisterAttempts]
NoCall == [stage |-> "idle", at |-> CHOOSE i \in Installations : TRUE,
           owner |-> CHOOSE e \in Owners : TRUE, token |-> NoPushToken, exists |-> FALSE,
           locked |-> {}, doomed |-> {}, proven |-> FALSE, attempt |-> 1]

\* The identifier of a row made for an older version is drawn at random: no app has it.
ASSUME DevicesAssumption ==
    /\ Installations # {} /\ Owners # {} /\ Installations \cap LegacyIds = {}
    /\ NoPushToken \notin PushTokens
    /\ MaxRegisterAttempts \in Nat \ {0} /\ MaxRegisterCalls \in Nat /\ MaxDeviceEvents \in Nat

DevicesTypeOK ==
    /\ device \in [DeviceIds -> Device]
    /\ mirror \subseteq Owners \X PushTokens
    /\ call \in [Callers -> Call]
    /\ answered \subseteq Installations
    /\ patched \subseteq Owners \X PushTokens
    /\ calls \in 0 .. MaxRegisterCalls
    /\ deviceEvents \in 0 .. MaxDeviceEvents

DevicesInit ==
    /\ device = [i \in DeviceIds |-> NoDevice]
    /\ mirror = {}
    /\ call = [c \in Callers |-> NoCall]
    /\ answered = {} /\ patched = {}
    /\ calls = 0 /\ deviceEvents = 0

Exists(i) == device[i].status # "none"
Holders(t) == {i \in DeviceIds : device[i].token = t}
Others(c) == IF call[c].token = NoPushToken THEN {} ELSE Holders(call[c].token) \ {call[c].at}
LockedByOther(i, c) == \E d \in Callers \ {c} : i \in call[d].locked
Unlocked(i) == \A c \in Callers : i \notin call[c].locked
Gone(d) == [d EXCEPT !.status = "disabled", !.token = NoPushToken]
Calls(c, r) == call' = [call EXCEPT ![c] = r]
Happens == deviceEvents < MaxDeviceEvents /\ deviceEvents' = deviceEvents + 1

-----------------------------------------------------------------------------
(* RegisterDevice *)

\* Faulty variant: only recent.
FreshByAge(d) == d.seen = "throttled"

\* A heartbeat is left alone only if it is recent and after the last password change.
Fresh(d) == d.seen = "throttled" /\ d.proven

\* The row is read and locked.  The call may be the first attempt or another one.
Begin(c, i, e, t, n) ==
    LET d == device[i] IN
    /\ ~LockedByOther(i, c)
    /\ IF Exists(i) /\ d.status = "active" /\ d.owner = e /\ d.token = t /\ Fresh(d)
       THEN Calls(c, NoCall) /\ answered' = answered \cup {i}
       ELSE /\ Calls(c, [stage |-> IF t = NoPushToken THEN "write" ELSE "take",
                         at |-> i, owner |-> e, token |-> t, exists |-> Exists(i),
                         locked |-> IF Exists(i) THEN {i} ELSE {}, doomed |-> {},
                         proven |-> TRUE, attempt |-> n])
            /\ UNCHANGED answered
    /\ UNCHANGED << device, mirror, patched, deviceEvents >>

RegisterDevice(c, i, e, t) ==
    /\ call[c].stage = "idle"
    /\ calls < MaxRegisterCalls /\ calls' = calls + 1
    /\ Begin(c, i, e, t, 1)

\* The other installations that hold the token are locked to lose it, and the mirror rows
\* other accounts have of it are found.
TakeToken(c) ==
    LET r == call[c] IN
    /\ r.stage = "take"
    /\ \A i \in Others(c) : ~LockedByOther(i, c)
    /\ Calls(c, [r EXCEPT !.stage = "write", !.locked = @ \cup Others(c),
                          !.doomed = {m \in mirror : m[2] = r.token /\ m[1] # r.owner}])
    /\ UNCHANGED << device, mirror, answered, patched, calls, deviceEvents >>

\* Mirror rows of the previous account or the previous token of the installation.
Left(r) ==
    LET d == device[r.at] IN
    IF r.exists /\ d.token # NoPushToken /\ (d.token # r.token \/ d.owner # r.owner)
    THEN {<< d.owner, d.token >>} ELSE {}

\* Mirror rows a registration adds.
Added(r) == IF r.token = NoPushToken THEN {} ELSE {<< r.owner, r.token >>}

\* Faulty variant: the token stays with the accounts that had it.
MirrorKept(r) == (mirror \ Left(r)) \cup Added(r)

MirrorAfter(r) == (mirror \ (r.doomed \cup Left(r))) \cup Added(r)

\* Two registrations made the same row, or gave the token to two installations.
Collides(c) ==
    \/ ~call[c].exists /\ Exists(call[c].at)
    \/ ~(Others(c) \subseteq call[c].locked)

\* The writes and the commit; the answer of the handler.
Write(c) ==
    LET r == call[c] IN
    /\ r.stage = "write" /\ ~Collides(c)
    /\ device' = [i \in DeviceIds |->
           IF i = r.at THEN [owner |-> r.owner, token |-> r.token, status |-> "active",
                             seen |-> "throttled", proven |-> r.proven]
           ELSE IF i \in Others(c) THEN Gone(device[i])
           ELSE device[i]]
    /\ mirror' = MirrorAfter(r)
    /\ patched' = patched \ (r.doomed \cup Left(r) \cup Added(r))
    /\ answered' = (answered \ (Others(c) \cup {r.at})) \cup {i \in {r.at} : r.proven}
    /\ Calls(c, NoCall)
    /\ UNCHANGED << calls, deviceEvents >>

Deadlocked(c) ==
    call[c].stage = "take" /\ \E i \in Others(c) : LockedByOther(i, c)

\* isRaceError: a unique violation, or a deadlock (any wait between two callers may be
\* one).  Everything is rolled back and tried again, a bounded number of times.
RetryRegister(c) ==
    LET r == call[c] IN
    /\ Deadlocked(c) \/ (r.stage = "write" /\ Collides(c))
    /\ r.attempt < MaxRegisterAttempts
    /\ Begin(c, r.at, r.owner, r.token, r.attempt + 1)
    /\ UNCHANGED calls

\* The last attempt, another error, or a request that ends: an error, never a 200.
RegisterFails(c) ==
    /\ call[c].stage # "idle"
    /\ Calls(c, NoCall)
    /\ UNCHANGED << device, mirror, answered, patched, calls, deviceEvents >>

-----------------------------------------------------------------------------
(* The other writers *)

\* SignOut and InvalidateToken: one locked row, active, and its mirror row.
Disable(i) ==
    /\ device' = [device EXCEPT ![i] = Gone(@)]
    /\ mirror' = mirror \ {<< device[i].owner, device[i].token >>}
    /\ patched' = patched \ {<< device[i].owner, device[i].token >>}
    /\ answered' = answered \ {i}
    /\ UNCHANGED << call, calls >>

SignOut(i) == device[i].status = "active" /\ Unlocked(i) /\ Happens /\ Disable(i)

\* The provider reported a token dead; by now the device may hold another one.
InvalidateToken(i, t) ==
    /\ device[i].status = "active" /\ device[i].token = t /\ Unlocked(i)
    /\ Happens /\ Disable(i)

\* UpdateNewf with a token: the mirror first, whoever holds the token.
UpdateNewfToken(e, t) ==
    /\ << e, t >> \notin mirror
    /\ Happens
    /\ mirror' = mirror \cup {<< e, t >>}
    /\ patched' = patched \cup {<< e, t >>}
    /\ UNCHANGED << device, call, answered, calls >>

\* RegisterLegacyToken, in its own transaction: a new row, a legacy row taken over, or
\* nothing for a token a registered installation holds.
RegisterLegacyToken(e, t) ==
    /\ Happens
    /\ \E g \in LegacyIds :
          /\ Unlocked(g)
          /\ Holders(t) = {g} \/ (Holders(t) = {} /\ ~Exists(g))
          /\ device' = [device EXCEPT ![g] = [owner |-> e, token |-> t, status |-> "active",
                                              seen |-> "throttled", proven |-> TRUE]]
    /\ UNCHANGED << mirror, call, answered, patched, calls >>

\* pruneTokens: Expo no longer knows the token.
PruneToken(t) ==
    /\ \E m \in mirror : m[2] = t
    /\ Happens
    /\ mirror' = {m \in mirror : m[2] # t}
    /\ patched' = {m \in patched : m[2] # t}
    /\ UNCHANGED << device, call, answered, calls >>

\* Time passes without a proof.
DeviceAges(i) ==
    /\ Exists(i) /\ device[i].seen # "late"
    /\ Happens
    /\ device' = [device EXCEPT ![i].seen =
           CASE @ = "throttled" -> "present" [] @ = "present" -> "session" [] OTHER -> "late"]
    /\ answered' = IF device'[i].seen = "late" THEN answered \ {i} ELSE answered
    /\ UNCHANGED << mirror, call, patched, calls >>

\* password_updated_date moves past every proof, those under way included: last_seen_at is
\* the time their transaction began.
PasswordChanges(e) ==
    /\ Happens
    /\ device' = [i \in DeviceIds |->
           IF device[i].owner = e THEN [device[i] EXCEPT !.proven = FALSE] ELSE device[i]]
    /\ call' = [c \in Callers |->
           IF call[c].owner = e THEN [call[c] EXCEPT !.proven = FALSE] ELSE call[c]]
    /\ answered' = {i \in answered : device[i].owner # e}
    /\ UNCHANGED << mirror, patched, calls >>

DevicesNext ==
    \/ \E c \in Callers :
          \/ \E i \in Installations, e \in Owners, t \in PushTokens \cup {NoPushToken} :
                RegisterDevice(c, i, e, t)
          \/ TakeToken(c) \/ Write(c) \/ RetryRegister(c) \/ RegisterFails(c)
    \/ \E i \in DeviceIds : SignOut(i) \/ DeviceAges(i) \/ \E t \in PushTokens : InvalidateToken(i, t)
    \/ \E t \in PushTokens : PruneToken(t)
    \/ \E e \in Owners, t \in PushTokens : UpdateNewfToken(e, t) \/ RegisterLegacyToken(e, t)
    \/ \E e \in Owners : PasswordChanges(e)

DevicesSpec == DevicesInit /\ [][DevicesNext]_deviceVars

-----------------------------------------------------------------------------
(* Properties *)

\* StateSQL.
StateOf(d) ==
    IF d.status # "active" THEN "disabled"
    ELSE IF ~d.proven THEN "revoked"
    ELSE IF d.seen = "late" THEN "expired"
    ELSE IF d.seen = "session" THEN "active" ELSE "connected"

\* A heartbeat that was answered keeps the session usable until it times out, the password
\* changes, the app signs out or the token goes elsewhere: whatever happened before it, a
\* change of password or a skipped write included, the device is not revoked nor expired.
HeartbeatsCount == \A i \in answered : StateOf(device[i]) \in {"connected", "active"}

\* A token addresses one installation, and is never left attached to the previous account
\* of a phone: except for rows that older app versions wrote, the mirror names only the
\* account of an active device that holds the token, whatever registrations, sign-outs
\* and dead tokens raced.
MirrorHasNoStranger ==
    /\ \A t \in PushTokens : Cardinality(Holders(t)) <= 1
    /\ \A m \in mirror \ patched :
          \E i \in DeviceIds :
              device[i].status = "active" /\ device[i].owner = m[1] /\ device[i].token = m[2]

\* The rows, as a sender of pushes sees them, but for what older app versions wrote.
InUse == {<< i, device[i].owner, device[i].token >> : i \in {j \in DeviceIds : device[j].status = "active"}}
Registry == INSTANCE TokenRegistry WITH active <- InUse, named <- mirror \ patched

\* The statements of a registration, its locks, collisions and retries amount to one step of
\* TokenRegistry, whatever other registrations, sign-outs, dead tokens and older versions do
\* in between (devices.go:222): the mirror names whom a registration at once would name.
RegistrationsAreAtomic == Registry!RegistrySpec

=============================================================================
