------------------------------ MODULE Accounts ------------------------------
(***************************************************************************)
(* One account: registration, verification codes, passwords and standing   *)
(* (handlers/auth), and what the administration does to it.  A request is  *)
(* several statements, and the two ways of verifying an account lock its   *)
(* two rows in opposite orders.  The roles of the account are rows that    *)
(* handlers/club writes as well.                                           *)
(***************************************************************************)
EXTENDS Naturals, FiniteSets

CONSTANTS
    Clients,          \* requests that may be under way at the same time
    TargetRole,       \* the role verification gives: NEWF, or ACADEMICS
    MaxCodes,         \* bound: verification codes made
    MaxRegistrations  \* bound: accounts made under this address

ASSUME AccountsAssumption ==
    TargetRole \in {"NEWF", "ACADEMICS"} /\ MaxCodes \in Nat /\ MaxRegistrations \in Nat

VARIABLES
    account,       \* rows of newf and newf_roles of the address
    visit,         \* requests between two of their statements
    uses,          \* history: what each code was taken for
    codesMade,
    registrations

accountVars == << account, visit, uses, codesMade, registrations >>

-----------------------------------------------------------------------------
(* State *)

NoCode == 0
Codes == 1 .. MaxCodes
Roles == {"VERIFYING", "NEWF", "ACADEMICS", "respo"}

\* respo: responsible of some club, the other roles being the standing of the account.
\* fresh: verification_code_expiration is in the future.  shaped: history, the
\* administration chose the roles.
Account == [live : BOOLEAN, roles : SUBSET Roles, code : 0 .. MaxCodes,
            fresh : BOOLEAN, shaped : BOOLEAN]
NoAccount == [live |-> FALSE, roles |-> {}, code |-> NoCode, fresh |-> FALSE, shaped |-> FALSE]

Visit == [op : {"none", "verify", "validate", "resend", "oldpassword"}, code : 0 .. MaxCodes]
NoVisit == [op |-> "none", code |-> NoCode]

AccountsTypeOK ==
    /\ account \in Account
    /\ visit \in [Clients -> Visit]
    /\ uses \in [Codes -> [verify : Nat, password : Nat]]
    /\ codesMade \in 0 .. MaxCodes
    /\ registrations \in 0 .. MaxRegistrations

AccountsInit ==
    /\ account = NoAccount
    /\ visit = [c \in Clients |-> NoVisit]
    /\ uses = [k \in Codes |-> [verify |-> 0, password |-> 0]]
    /\ codesMade = 0
    /\ registrations = 0

\* The row of newf is locked by a validation under way, the role VERIFYING by a
\* verification under way.
AccountRowFree == \A c \in Clients : visit[c].op # "validate"
RoleRowFree == \A c \in Clients : visit[c].op # "verify"
Idle(c) == visit[c].op = "none"
Turns(c, v) == visit' = [visit EXCEPT ![c] = v]
Ends(c) == Turns(c, NoVisit)

\* A code is drawn: six digits that no other code of the history has.
Draws == codesMade < MaxCodes /\ codesMade' = codesMade + 1
WithCode(a) == [a EXCEPT !.code = codesMade + 1, !.fresh = TRUE]
Uncoded(a) == [a EXCEPT !.code = NoCode, !.fresh = FALSE]

-----------------------------------------------------------------------------
(* handlers/auth *)

\* A new address: account, role and code in one transaction.  When the subscription of
\* its last statement fails the whole transaction is lost.
Register ==
    /\ ~account.live /\ registrations < MaxRegistrations
    /\ Draws
    /\ account' = WithCode([NoAccount EXCEPT !.live = TRUE, !.roles = {"VERIFYING"}])
    /\ registrations' = registrations + 1
    /\ UNCHANGED << visit, uses >>

\* A known address only gets a new code, as if it had asked for one; so it is for an
\* account that is verified.
RegisterAgain ==
    /\ account.live /\ AccountRowFree
    /\ Draws
    /\ account' = WithCode(account)
    /\ UNCHANGED << visit, uses, registrations >>

\* Ten minutes pass.
CodeExpires ==
    /\ account.fresh
    /\ account' = [account EXCEPT !.fresh = FALSE]
    /\ UNCHANGED << visit, uses, codesMade, registrations >>

\* RequestVerificationCode asks whether the account exists, and updates it later.
RequestVerificationCode(c) ==
    /\ Idle(c) /\ account.live
    /\ Turns(c, [op |-> "resend", code |-> NoCode])
    /\ UNCHANGED << account, uses, codesMade, registrations >>

StoreCode(c) ==
    /\ visit[c].op = "resend"
    /\ IF account.live
       THEN AccountRowFree /\ Draws /\ account' = WithCode(account)
       ELSE UNCHANGED << account, codesMade >>
    /\ Ends(c)
    /\ UNCHANGED << uses, registrations >>

\* VerifyAccount, the first statement: the role VERIFYING is replaced while the code is
\* the current one.  The role stays locked until the end of the transaction.
VerifyAccount(c, k) ==
    /\ Idle(c) /\ RoleRowFree
    /\ account.live /\ "VERIFYING" \in account.roles /\ TargetRole \notin account.roles
    /\ account.code = k /\ account.fresh
    /\ Turns(c, [op |-> "verify", code |-> k])
    /\ UNCHANGED << account, uses, codesMade, registrations >>

Verified(a) == [a EXCEPT !.roles = (@ \ {"VERIFYING"}) \cup {TargetRole}]

\* The second statement clears whatever code there is by now; the commit.
FinishVerification(c) ==
    /\ visit[c].op = "verify" /\ AccountRowFree
    /\ account' = Uncoded(Verified(account))
    /\ uses' = [uses EXCEPT ![visit[c].code].verify = @ + 1]
    /\ Ends(c)
    /\ UNCHANGED << codesMade, registrations >>

\* Two rows locked in opposite orders: the database aborts one of the two.  A failing
\* statement or a lost connection aborts a transaction as well, and the failure of the
\* second statement of a verification only shows at its commit.
Rollback(c) ==
    /\ visit[c].op \in {"verify", "validate", "resend", "oldpassword"}
    /\ Ends(c)
    /\ UNCHANGED << account, uses, codesMade, registrations >>

\* Faulty variant: the code is compared and not cleared.
ChangeKeepingCode(k) ==
    /\ account.live /\ account.code = k /\ account.fresh /\ AccountRowFree
    /\ account' = account
    /\ uses' = [uses EXCEPT ![k].password = @ + 1]
    /\ UNCHANGED << visit, codesMade, registrations >>

\* ChangePassword with a code: one statement compares, stores and clears.
ChangeWithCode(k) ==
    /\ account.live /\ account.code = k /\ account.fresh /\ AccountRowFree
    /\ account' = Uncoded(account)
    /\ uses' = [uses EXCEPT ![k].password = @ + 1]
    /\ UNCHANGED << visit, codesMade, registrations >>

\* ChangePassword with the old password: read and compared, then written.  The code of
\* the account stays.
ComparePassword(c) ==
    /\ Idle(c) /\ account.live
    /\ Turns(c, [op |-> "oldpassword", code |-> NoCode])
    /\ UNCHANGED << account, uses, codesMade, registrations >>

StorePassword(c) ==
    /\ visit[c].op = "oldpassword" /\ AccountRowFree
    /\ Ends(c)
    /\ UNCHANGED << account, uses, codesMade, registrations >>

-----------------------------------------------------------------------------
(* handlers/admin *)

\* ValidateUser, the first statement: the code is cleared and the account row locked.
ValidateUser(c) ==
    /\ Idle(c) /\ AccountRowFree /\ account.live
    /\ Turns(c, [op |-> "validate", code |-> NoCode])
    /\ UNCHANGED << account, uses, codesMade, registrations >>

\* Faulty variant: the role is added and VERIFYING is not removed.
AddedOnly(a) == [a EXCEPT !.roles = @ \cup {"NEWF"}]

Validated(a) == [a EXCEPT !.roles = (@ \ {"VERIFYING"}) \cup {"NEWF"}]

\* The other statements, which need the role, and the commit.
FinishValidation(c) ==
    /\ visit[c].op = "validate" /\ RoleRowFree
    /\ account' = Uncoded(Validated(account))
    /\ Ends(c)
    /\ UNCHANGED << uses, codesMade, registrations >>

\* CreateUser gives the roles of its list that exist, and no code.
CreateUser(roles) ==
    /\ ~account.live /\ registrations < MaxRegistrations
    /\ account' = [NoAccount EXCEPT !.live = TRUE, !.roles = roles, !.shaped = TRUE]
    /\ registrations' = registrations + 1
    /\ UNCHANGED << visit, uses, codesMade >>

\* UpdateUser: the roles are replaced when a list is given, in a request that has another
\* field too; a code is cleared or stored, and keeps the expiration there was.
UpdateRoles(roles) ==
    /\ account.live /\ AccountRowFree /\ RoleRowFree
    /\ account' = [account EXCEPT !.roles = roles, !.shaped = TRUE]
    /\ UNCHANGED << visit, uses, codesMade, registrations >>

UpdateCode ==
    /\ account.live /\ AccountRowFree
    /\ \/ account' = Uncoded(account) /\ UNCHANGED codesMade
       \/ Draws /\ account' = [account EXCEPT !.code = codesMade + 1]
    /\ UNCHANGED << visit, uses, registrations >>

\* DeleteUser, and DeleteNewf of handlers/user: the roles go with the account.  It is
\* refused for an account that clubs or reviews still name.
DeleteUser ==
    /\ account.live /\ AccountRowFree /\ RoleRowFree
    /\ account' = NoAccount
    /\ UNCHANGED << visit, uses, codesMade, registrations >>

-----------------------------------------------------------------------------
(* handlers/club *)

\* CreateClub and AddClubRespo ask nothing of the account but that it exists; no row
\* they need is locked by the others.
GrantRespo ==
    /\ account.live
    /\ account' = [account EXCEPT !.roles = @ \cup {"respo"}]
    /\ UNCHANGED << visit, uses, codesMade, registrations >>

RemoveRespo ==
    /\ account.live
    /\ account' = [account EXCEPT !.roles = @ \ {"respo"}]
    /\ UNCHANGED << visit, uses, codesMade, registrations >>

-----------------------------------------------------------------------------
(* Specification *)

ClientStep(c) ==
    \/ RequestVerificationCode(c) \/ StoreCode(c)
    \/ \E k \in Codes : VerifyAccount(c, k)
    \/ FinishVerification(c) \/ Rollback(c)
    \/ ComparePassword(c) \/ StorePassword(c)
    \/ ValidateUser(c) \/ FinishValidation(c)

AccountsNext ==
    \/ Register \/ RegisterAgain \/ CodeExpires \/ UpdateCode \/ DeleteUser
    \/ GrantRespo \/ RemoveRespo
    \/ \E k \in Codes : ChangeWithCode(k)
    \/ \E roles \in SUBSET Roles : CreateUser(roles) \/ UpdateRoles(roles)
    \/ \E c \in Clients : ClientStep(c)

AccountsSpec == AccountsInit /\ [][AccountsNext]_accountVars

-----------------------------------------------------------------------------
(* Properties *)

Standing(a) == a.roles \ {"respo"}

\* However verification by code, validation by the administration, new codes, deletions
\* and database errors interleave, an account whose roles the administration did not
\* choose either waits for its verification or has a standing and does not wait, whether
\* or not a club makes it responsible meanwhile: Login refuses any account that still has
\* VERIFYING (auth_handlers.go:561, club_handler.go:847).
OneStanding ==
    account.live /\ ~account.shaped =>
        \/ Standing(account) = {"VERIFYING"}
        \/ Standing(account) # {} /\ "VERIFYING" \notin Standing(account)

\* A verification code verifies an account at most once and changes a password at most
\* once, even when both requests, a new code and a validation race.
CodesAreUsedOnce == \A k \in Codes : uses[k].verify <= 1 /\ uses[k].password <= 1

=============================================================================
