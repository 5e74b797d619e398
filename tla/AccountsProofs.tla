--------------------------- MODULE AccountsProofs ---------------------------
(* What holds of an account for all requests, codes and registrations. *)
EXTENDS Accounts, TLAPS

USE AccountsAssumption DEF AccountsAssumption, NoCode, Codes, Roles

-----------------------------------------------------------------------------
(* Types *)

\* The values the actions store.
LEMMA TypedCodes ==
    ASSUME NEW a \in Account, NEW k \in 0 .. MaxCodes, NEW fresh \in BOOLEAN
    PROVE  /\ [a EXCEPT !.code = k, !.fresh = fresh] \in Account
           /\ [a EXCEPT !.code = k] \in Account
BY DEF Account

LEMMA TypedUncoded == ASSUME NEW a \in Account PROVE Uncoded(a) \in Account
<1>1. 0 \in 0 .. MaxCodes
  OBVIOUS
<1> QED BY <1>1, TypedCodes DEF Uncoded

LEMMA TypedWithCode ==
    ASSUME NEW a \in Account, codesMade \in 0 .. MaxCodes, codesMade < MaxCodes
    PROVE  WithCode(a) \in Account
<1>1. codesMade + 1 \in 0 .. MaxCodes
  OBVIOUS
<1> QED BY <1>1, TypedCodes DEF WithCode

Uses == [Codes -> [verify : Nat, password : Nat]]

LEMMA TypedUse ==
    ASSUME NEW u \in Uses, NEW k
    PROVE  /\ [u EXCEPT ![k].verify = @ + 1] \in Uses
           /\ [u EXCEPT ![k].password = @ + 1] \in Uses
<1>1. CASE k \in Codes
  BY <1>1 DEF Uses
<1>2. CASE k \notin Codes
  BY <1>2 DEF Uses
<1> QED BY <1>1, <1>2

LEMMA NoAccountTyped == NoAccount \in Account
BY DEF Account, NoAccount

LEMMA TypedRoles ==
    ASSUME NEW a \in Account
    PROVE  Verified(a) \in Account /\ Validated(a) \in Account
BY DEF Account, Verified, Validated

LEMMA TypedVisit ==
    ASSUME AccountsTypeOK, NEW c \in Clients, NEW v \in Visit, Turns(c, v)
    PROVE  visit' \in [Clients -> Visit]
BY DEF AccountsTypeOK, Turns

LEMMA NoVisitTyped == NoVisit \in Visit
BY DEF NoVisit, Visit

LEMMA TypedCode ==
    ASSUME AccountsTypeOK, Draws
    PROVE  codesMade' \in 0 .. MaxCodes /\ codesMade < MaxCodes
BY DEF AccountsTypeOK, Draws

LEMMA ClientStepKeepsType ==
    ASSUME AccountsTypeOK, NEW c \in Clients, ClientStep(c)
    PROVE  AccountsTypeOK'
<1>1. CASE RequestVerificationCode(c) \/ ComparePassword(c) \/ ValidateUser(c)
  <2>1. \E v \in Visit : Turns(c, v)
    BY <1>1 DEF RequestVerificationCode, ComparePassword, ValidateUser, Visit
  <2>2. visit' \in [Clients -> Visit]
    BY <2>1, TypedVisit
  <2> QED
    BY <1>1, <2>2 DEF RequestVerificationCode, ComparePassword, ValidateUser, AccountsTypeOK
<1>2. CASE Rollback(c) \/ StorePassword(c)
  BY <1>2, TypedVisit, NoVisitTyped DEF Rollback, StorePassword, Ends, AccountsTypeOK
<1>3. CASE StoreCode(c)
  <2>1. visit' \in [Clients -> Visit]
    BY <1>3, TypedVisit, NoVisitTyped DEF StoreCode, Ends
  <2>2. account' \in Account /\ codesMade' \in 0 .. MaxCodes
    <3>1. CASE account.live
      BY <1>3, <3>1, TypedCode, TypedWithCode DEF StoreCode, AccountsTypeOK
    <3>2. CASE ~account.live
      BY <1>3, <3>2 DEF StoreCode, AccountsTypeOK
    <3> QED BY <3>1, <3>2
  <2> QED BY <1>3, <2>1, <2>2 DEF StoreCode, AccountsTypeOK
<1>4. ASSUME NEW k \in Codes, VerifyAccount(c, k) PROVE AccountsTypeOK'
  <2>1. [op |-> "verify", code |-> k] \in Visit
    BY DEF Visit
  <2>2. visit' \in [Clients -> Visit]
    BY <1>4, <2>1, TypedVisit DEF VerifyAccount
  <2> QED BY <1>4, <2>2 DEF VerifyAccount, AccountsTypeOK
<1>5. CASE FinishVerification(c)
  <2>1. visit' \in [Clients -> Visit]
    BY <1>5, TypedVisit, NoVisitTyped DEF FinishVerification, Ends
  <2>2. account' \in Account
    BY <1>5, TypedRoles, TypedUncoded DEF FinishVerification, AccountsTypeOK
  <2>3. uses' \in [Codes -> [verify : Nat, password : Nat]]
    BY <1>5, TypedUse DEF FinishVerification, AccountsTypeOK, Uses
  <2> QED BY <1>5, <2>1, <2>2, <2>3 DEF FinishVerification, AccountsTypeOK
<1>6. CASE FinishValidation(c)
  <2>1. visit' \in [Clients -> Visit]
    BY <1>6, TypedVisit, NoVisitTyped DEF FinishValidation, Ends
  <2>2. account' \in Account
    BY <1>6, TypedRoles, TypedUncoded DEF FinishValidation, AccountsTypeOK
  <2> QED BY <1>6, <2>1, <2>2 DEF FinishValidation, AccountsTypeOK
<1> QED BY <1>1, <1>2, <1>3, <1>4, <1>5, <1>6 DEF ClientStep

LEMMA NextKeepsType ==
    ASSUME AccountsTypeOK, [AccountsNext]_accountVars
    PROVE  AccountsTypeOK'
<1>1. CASE Register
  <2>1. [NoAccount EXCEPT !.live = TRUE, !.roles = {"VERIFYING"}] \in Account
    BY NoAccountTyped DEF Account
  <2>2. account' \in Account /\ codesMade' \in 0 .. MaxCodes
    BY <1>1, <2>1, TypedCode, TypedWithCode DEF Register, AccountsTypeOK
  <2>3. registrations' \in 0 .. MaxRegistrations
    BY <1>1 DEF Register, AccountsTypeOK
  <2> QED BY <1>1, <2>2, <2>3 DEF Register, AccountsTypeOK
<1>2. CASE RegisterAgain
  <2>1. account' \in Account /\ codesMade' \in 0 .. MaxCodes
    BY <1>2, TypedCode, TypedWithCode DEF RegisterAgain, AccountsTypeOK
  <2> QED BY <1>2, <2>1 DEF RegisterAgain, AccountsTypeOK
<1>3. CASE CodeExpires
  <2>1. account' \in Account
    BY <1>3 DEF CodeExpires, AccountsTypeOK, Account
  <2> QED BY <1>3, <2>1 DEF CodeExpires, AccountsTypeOK
<1>4. CASE UpdateCode
  <2>1. CASE account' = Uncoded(account) /\ UNCHANGED codesMade
    BY <1>4, <2>1, TypedUncoded DEF UpdateCode, AccountsTypeOK
  <2>2. CASE Draws /\ account' = [account EXCEPT !.code = codesMade + 1]
    <3>1. codesMade + 1 \in 0 .. MaxCodes
      BY <2>2, TypedCode DEF Draws
    <3>2. account' \in Account /\ codesMade' \in 0 .. MaxCodes
      BY <2>2, <3>1, TypedCodes DEF Draws, AccountsTypeOK
    <3> QED BY <1>4, <3>2 DEF UpdateCode, AccountsTypeOK
  <2> QED BY <1>4, <2>1, <2>2 DEF UpdateCode
<1>5. CASE DeleteUser
  BY <1>5, NoAccountTyped DEF DeleteUser, AccountsTypeOK
<1>6. ASSUME NEW k \in Codes, ChangeWithCode(k) PROVE AccountsTypeOK'
  BY <1>6, TypedUse, TypedUncoded DEF ChangeWithCode, AccountsTypeOK, Uses
<1>7. ASSUME NEW roles \in SUBSET Roles, CreateUser(roles) \/ UpdateRoles(roles)
      PROVE  AccountsTypeOK'
  <2>1. CASE CreateUser(roles)
    <3>1. account' \in Account
      BY <2>1, NoAccountTyped DEF CreateUser, Account
    <3>2. registrations' \in 0 .. MaxRegistrations
      BY <2>1 DEF CreateUser, AccountsTypeOK
    <3> QED BY <2>1, <3>1, <3>2 DEF CreateUser, AccountsTypeOK
  <2>2. CASE UpdateRoles(roles)
    <3>1. account' \in Account
      BY <2>2 DEF UpdateRoles, AccountsTypeOK, Account
    <3> QED BY <2>2, <3>1 DEF UpdateRoles, AccountsTypeOK
  <2> QED BY <1>7, <2>1, <2>2
<1>8. ASSUME NEW c \in Clients, ClientStep(c) PROVE AccountsTypeOK'
  BY <1>8, ClientStepKeepsType
<1>9. CASE GrantRespo \/ RemoveRespo
  <2>1. account' \in Account
    BY <1>9 DEF GrantRespo, RemoveRespo, AccountsTypeOK, Account
  <2> QED BY <1>9, <2>1 DEF GrantRespo, RemoveRespo, AccountsTypeOK
<1>10. CASE UNCHANGED accountVars
  BY <1>10 DEF accountVars, AccountsTypeOK
<1> QED BY <1>1, <1>2, <1>3, <1>4, <1>5, <1>6, <1>7, <1>8, <1>9, <1>10 DEF AccountsNext

LEMMA InitTyped == AccountsInit => AccountsTypeOK
BY NoVisitTyped DEF AccountsInit, AccountsTypeOK, Account, NoAccount

\* Every variable keeps its type: a code stored in an account or held by a request is one
\* of those made.
THEOREM AccountsTyped == AccountsSpec => []AccountsTypeOK
BY InitTyped, NextKeepsType, PTL DEF AccountsSpec

-----------------------------------------------------------------------------
(* Standing *)

LEMMA StandingOfVerified ==
    ASSUME NEW a \in Account
    PROVE  /\ TargetRole \in Standing(Uncoded(Verified(a)))
           /\ "VERIFYING" \notin Standing(Uncoded(Verified(a)))
           /\ "NEWF" \in Standing(Uncoded(Validated(a)))
           /\ "VERIFYING" \notin Standing(Uncoded(Validated(a)))
BY DEF Account, Verified, Validated, Uncoded, Standing

\* A code that comes or goes leaves the standing alone.
LEMMA CodeKeepsStanding ==
    ASSUME AccountsTypeOK, OneStanding, NEW k, NEW fresh,
           \/ account' = [account EXCEPT !.code = k, !.fresh = fresh]
           \/ account' = [account EXCEPT !.code = k]
    PROVE  OneStanding'
<1>1. account \in Account
  BY DEF AccountsTypeOK
<1>2. account'.live = account.live /\ account'.roles = account.roles /\ account'.shaped = account.shaped
  <2>1. CASE account' = [account EXCEPT !.code = k, !.fresh = fresh]
    BY <1>1, <2>1 DEF Account
  <2>2. CASE account' = [account EXCEPT !.code = k]
    BY <1>1, <2>2 DEF Account
  <2> QED BY <2>1, <2>2
<1> QED BY <1>2 DEF OneStanding, Standing

LEMMA NextKeepsStanding ==
    ASSUME AccountsTypeOK, OneStanding, [AccountsNext]_accountVars
    PROVE  OneStanding'
<1>0. account \in Account
  BY DEF AccountsTypeOK
<1>1. CASE Register
  <2>1. account'.roles = {"VERIFYING"}
    BY <1>1, NoAccountTyped DEF Register, WithCode, NoAccount
  <2> QED BY <2>1 DEF OneStanding, Standing
<1>2. CASE RegisterAgain
  BY <1>2, CodeKeepsStanding DEF RegisterAgain, WithCode
<1>3. CASE CodeExpires
  BY <1>0, <1>3 DEF CodeExpires, OneStanding, Standing, Account
<1>4. CASE UpdateCode
  BY <1>4, CodeKeepsStanding DEF UpdateCode, Uncoded
<1>5. CASE DeleteUser
  BY <1>5 DEF DeleteUser, NoAccount, OneStanding
<1>6. ASSUME NEW k \in Codes, ChangeWithCode(k) PROVE OneStanding'
  BY <1>6, CodeKeepsStanding DEF ChangeWithCode, Uncoded
<1>7. ASSUME NEW roles \in SUBSET Roles, CreateUser(roles) \/ UpdateRoles(roles)
      PROVE  OneStanding'
  <2>1. account'.shaped
    BY <1>0, <1>7, NoAccountTyped DEF CreateUser, UpdateRoles, Account
  <2> QED BY <2>1 DEF OneStanding
<1>8. ASSUME NEW c \in Clients, ClientStep(c) PROVE OneStanding'
  <2>1. CASE UNCHANGED account
    BY <2>1 DEF OneStanding, Standing
  <2>2. CASE StoreCode(c)
    <3>1. CASE account' = WithCode(account)
      BY <3>1, CodeKeepsStanding DEF WithCode
    <3> QED BY <2>1, <2>2, <3>1 DEF StoreCode
  <2>3. CASE FinishVerification(c) \/ FinishValidation(c)
    <3>1. account' = Uncoded(Verified(account)) \/ account' = Uncoded(Validated(account))
      BY <2>3 DEF FinishVerification, FinishValidation
    <3>2. Standing(account') # {} /\ "VERIFYING" \notin Standing(account')
      BY <1>0, <3>1, StandingOfVerified
    <3> QED BY <3>2 DEF OneStanding, Standing
  <2> QED
    BY <1>8, <2>1, <2>2, <2>3 DEF ClientStep, RequestVerificationCode, VerifyAccount, Rollback,
       ComparePassword, StorePassword, ValidateUser
<1>9. CASE GrantRespo \/ RemoveRespo
  <2>1. /\ account'.live = account.live /\ account'.shaped = account.shaped
        /\ Standing(account') = Standing(account)
    BY <1>0, <1>9 DEF GrantRespo, RemoveRespo, Standing, Account
  <2> QED BY <2>1 DEF OneStanding, Standing
<1>10. CASE UNCHANGED accountVars
  BY <1>10 DEF accountVars, OneStanding, Standing
<1> QED BY <1>1, <1>2, <1>3, <1>4, <1>5, <1>6, <1>7, <1>8, <1>9, <1>10 DEF AccountsNext

\* Whatever order verifications by code, validations by the administration, new codes and
\* deletions take, and whatever clubs make of it, an account the administration did not shape
\* waits for its verification, or has a standing and does not wait (auth_handlers.go,
\* VerifyAccount).
THEOREM StandingKept == AccountsSpec => []OneStanding
<1>1. AccountsInit => AccountsTypeOK /\ OneStanding
  BY InitTyped DEF AccountsInit, NoAccount, OneStanding
<1>2. AccountsTypeOK /\ OneStanding /\ [AccountsNext]_accountVars => (AccountsTypeOK /\ OneStanding)'
  BY NextKeepsType, NextKeepsStanding
<1> QED BY <1>1, <1>2, PTL DEF AccountsSpec

-----------------------------------------------------------------------------
(* Codes *)

\* Why a code is used once.  A code that was used is none the account has or will be given;
\* the role is locked by one verification at a time, whose code is unused so far and was
\* given out.
CodeSpent(k) ==
    /\ uses[k].verify \in {0, 1} /\ uses[k].password \in {0, 1}
    /\ uses[k].verify = 1 \/ uses[k].password = 1 => k <= codesMade /\ account.code # k

OneVerification ==
    \A c \in Clients : visit[c].op = "verify" =>
        /\ visit[c].code \in Codes /\ visit[c].code <= codesMade
        /\ uses[visit[c].code].verify = 0
        /\ \A d \in Clients : visit[d].op = "verify" => c = d

SpentCodes ==
    /\ account.code <= codesMade
    /\ \A k \in Codes : CodeSpent(k)
    /\ OneVerification

\* What the steps that use no code change: the code of the account to none, to the same or
\* to a new one.
LEMMA OtherCode ==
    ASSUME AccountsTypeOK, SpentCodes, uses' = uses, codesMade' \in Nat,
           codesMade <= codesMade',
           \/ account'.code = 0
           \/ account'.code = account.code
           \/ account'.code = codesMade + 1 /\ codesMade' = codesMade + 1
    PROVE  account'.code <= codesMade' /\ \A k \in Codes : CodeSpent(k)'
<1>1. codesMade \in Nat /\ account.code \in Nat
  BY DEF AccountsTypeOK, Account
<1>2. account'.code <= codesMade'
  BY <1>1 DEF SpentCodes
<1>3. ASSUME NEW k \in Codes PROVE CodeSpent(k)'
  BY <1>1, <1>3 DEF SpentCodes, CodeSpent
<1> QED BY <1>2, <1>3

\* Requests that neither start a verification nor end another one's.
LEMMA OtherVisit ==
    ASSUME AccountsTypeOK, OneVerification, NEW c \in Clients, NEW v, v.op # "verify", Turns(c, v),
           uses' = uses, codesMade' \in Nat, codesMade <= codesMade'
    PROVE  OneVerification'
<1>1. codesMade \in Nat
  BY DEF AccountsTypeOK
<1>2. \A d \in Clients : visit'[d] = IF d = c THEN v ELSE visit[d]
  BY DEF Turns, AccountsTypeOK
<1>3. \A d \in Clients : visit'[d].op = "verify" => visit[d].op = "verify" /\ visit'[d] = visit[d]
  BY <1>2
<1> QED BY <1>1, <1>3 DEF OneVerification

LEMMA MoreCodes ==
    ASSUME AccountsTypeOK, OneVerification, visit' = visit, \A k \in Codes : uses'[k].verify = uses[k].verify,
           codesMade' \in Nat, codesMade <= codesMade'
    PROVE  OneVerification'
<1>1. codesMade \in Nat
  BY DEF AccountsTypeOK
<1> QED BY <1>1 DEF OneVerification

LEMMA CodeOf ==
    ASSUME NEW a \in Account, NEW k
    PROVE  /\ Uncoded(a).code = 0 /\ WithCode(a).code = codesMade + 1 /\ NoAccount.code = 0
           /\ [a EXCEPT !.code = k].code = k
           /\ [a EXCEPT !.fresh = FALSE].code = a.code
           /\ \A roles : [a EXCEPT !.roles = roles, !.shaped = TRUE].code = a.code
BY DEF Account, Uncoded, WithCode, NoAccount

LEMMA ClientStepKeepsSpent ==
    ASSUME AccountsTypeOK, SpentCodes, NEW c \in Clients, ClientStep(c)
    PROVE  SpentCodes'
<1>0. account \in Account /\ codesMade \in Nat
  BY DEF AccountsTypeOK
<1>1. CASE \/ RequestVerificationCode(c) \/ Rollback(c) \/ ComparePassword(c)
           \/ StorePassword(c) \/ ValidateUser(c)
  <2>1. /\ UNCHANGED << account, uses, codesMade >>
        /\ \E v : v.op # "verify" /\ Turns(c, v)
    BY <1>1 DEF RequestVerificationCode, Rollback, ComparePassword, StorePassword, ValidateUser,
                Ends, NoVisit
  <2>2. OneVerification'
    BY <1>0, <2>1, OtherVisit DEF SpentCodes
  <2> QED BY <1>0, <2>1, <2>2, OtherCode DEF SpentCodes
<1>2. CASE StoreCode(c)
  <2>1. /\ uses' = uses /\ Turns(c, NoVisit) /\ NoVisit.op # "verify"
    BY <1>2 DEF StoreCode, Ends, NoVisit
  <2>2. \/ account' = account /\ codesMade' = codesMade
        \/ account' = WithCode(account) /\ codesMade' = codesMade + 1
    BY <1>2 DEF StoreCode, Draws
  <2>3. codesMade' \in Nat /\ codesMade <= codesMade'
    BY <1>0, <2>2
  <2>4. OneVerification'
    BY <2>1, <2>3, OtherVisit DEF SpentCodes
  <2>5. \/ account'.code = account.code
        \/ account'.code = codesMade + 1 /\ codesMade' = codesMade + 1
    BY <1>0, <2>2, CodeOf
  <2> QED BY <2>1, <2>3, <2>4, <2>5, OtherCode DEF SpentCodes
<1>3. ASSUME NEW k \in Codes, VerifyAccount(c, k) PROVE SpentCodes'
  <2>1. UNCHANGED << account, uses, codesMade >> /\ account.code = k
    BY <1>3 DEF VerifyAccount
  <2>2. visit' = [visit EXCEPT ![c] = [op |-> "verify", code |-> k]]
    BY <1>3 DEF VerifyAccount, Turns
  <2>3. \A d \in Clients : d # c => visit'[d] = visit[d] /\ visit[d].op # "verify"
    BY <1>3, <2>2 DEF VerifyAccount, RoleRowFree, AccountsTypeOK
  <2>4. visit'[c].op = "verify" /\ visit'[c].code = k
    BY <2>2 DEF AccountsTypeOK
  <2>5. uses[k].verify = 0 /\ k <= codesMade
    BY <1>3, <2>1 DEF SpentCodes, CodeSpent
  <2>6. OneVerification'
    BY <1>3, <2>1, <2>3, <2>4, <2>5 DEF OneVerification
  <2> QED BY <1>0, <2>1, <2>6, OtherCode DEF SpentCodes
<1>4. CASE FinishVerification(c)
  <2> DEFINE k == visit[c].code
  <2>1. k \in Codes /\ k <= codesMade /\ uses[k].verify = 0 /\ visit[c].op = "verify"
    BY <1>4 DEF FinishVerification, SpentCodes, OneVerification
  <2>2. Verified(account) \in Account
    BY <1>0, TypedRoles
  <2>3. account'.code = 0 /\ codesMade' = codesMade
    BY <1>4, <2>2, CodeOf DEF FinishVerification
  <2>4. uses' = [uses EXCEPT ![k].verify = @ + 1]
    BY <1>4 DEF FinishVerification
  <2>5. ASSUME NEW i \in Codes PROVE CodeSpent(i)'
    <3>1. CASE i = k
      <4>1. uses'[i].verify = 1 /\ uses'[i].password = uses[i].password
        BY <2>1, <2>4, <3>1 DEF AccountsTypeOK
      <4> QED BY <2>1, <2>3, <3>1, <4>1 DEF SpentCodes, CodeSpent
    <3>2. CASE i # k
      <4>1. uses'[i] = uses[i]
        BY <2>4, <3>2 DEF AccountsTypeOK
      <4> QED BY <2>3, <4>1 DEF SpentCodes, CodeSpent
    <3> QED BY <3>1, <3>2
  <2>6. ASSUME NEW d \in Clients PROVE visit'[d].op # "verify"
    <3>1. CASE d = c
      BY <1>4, <3>1 DEF FinishVerification, Ends, Turns, NoVisit, AccountsTypeOK
    <3>2. CASE d # c
      <4>1. visit'[d] = visit[d]
        BY <1>4, <3>2 DEF FinishVerification, Ends, Turns, AccountsTypeOK
      <4> QED BY <2>1, <3>2, <4>1 DEF SpentCodes, OneVerification
    <3> QED BY <3>1, <3>2
  <2> QED BY <1>0, <2>3, <2>5, <2>6 DEF SpentCodes, OneVerification
<1>5. CASE FinishValidation(c)
  <2>1. uses' = uses /\ codesMade' = codesMade /\ Turns(c, NoVisit) /\ NoVisit.op # "verify"
    BY <1>5 DEF FinishValidation, Ends, NoVisit
  <2>2. account'.code = 0
    BY <1>0, <1>5, TypedRoles, CodeOf DEF FinishValidation
  <2>3. OneVerification'
    BY <1>0, <2>1, OtherVisit DEF SpentCodes
  <2> QED BY <1>0, <2>1, <2>2, <2>3, OtherCode DEF SpentCodes
<1> QED BY <1>1, <1>2, <1>3, <1>4, <1>5 DEF ClientStep

LEMMA NextKeepsSpent ==
    ASSUME AccountsTypeOK, SpentCodes, [AccountsNext]_accountVars
    PROVE  SpentCodes'
<1>0. account \in Account /\ codesMade \in Nat
  BY DEF AccountsTypeOK
<1>1. CASE \/ Register \/ RegisterAgain \/ CodeExpires \/ UpdateCode \/ DeleteUser
           \/ GrantRespo \/ RemoveRespo
           \/ \E roles \in SUBSET Roles : CreateUser(roles) \/ UpdateRoles(roles)
           \/ UNCHANGED accountVars
  <2>1. uses' = uses /\ visit' = visit /\ codesMade' \in {codesMade, codesMade + 1}
    BY <1>1 DEF Register, RegisterAgain, CodeExpires, UpdateCode, DeleteUser, CreateUser,
                UpdateRoles, GrantRespo, RemoveRespo, Draws, accountVars
  <2>2. \/ account'.code = 0
        \/ account'.code = account.code
        \/ account'.code = codesMade + 1 /\ codesMade' = codesMade + 1
    <3>1. CASE Register
      <4>1. [NoAccount EXCEPT !.live = TRUE, !.roles = {"VERIFYING"}] \in Account
        BY NoAccountTyped DEF Account
      <4> QED BY <3>1, <4>1, CodeOf DEF Register, Draws
    <3>2. CASE RegisterAgain \/ DeleteUser \/ UNCHANGED accountVars
      BY <1>0, <3>2, CodeOf DEF RegisterAgain, DeleteUser, Draws, accountVars
    <3>4. CASE CodeExpires
      BY <1>0, <3>4, CodeOf DEF CodeExpires
    <3>5. CASE UpdateCode
      <4>1. \/ account' = Uncoded(account)
            \/ account' = [account EXCEPT !.code = codesMade + 1] /\ codesMade' = codesMade + 1
        BY <3>5 DEF UpdateCode, Draws
      <4>2. Uncoded(account).code = 0 /\ [account EXCEPT !.code = codesMade + 1].code = codesMade + 1
        BY <1>0, CodeOf
      <4> QED BY <4>1, <4>2
    <3>3. ASSUME NEW roles \in SUBSET Roles, CreateUser(roles) \/ UpdateRoles(roles)
          PROVE  account'.code \in {0, account.code}
      <4>1. CASE CreateUser(roles)
        BY <4>1 DEF CreateUser, NoAccount
      <4>2. CASE UpdateRoles(roles)
        BY <1>0, <4>2, CodeOf DEF UpdateRoles
      <4> QED BY <3>3, <4>1, <4>2
    <3>6. CASE GrantRespo \/ RemoveRespo
      BY <1>0, <3>6 DEF GrantRespo, RemoveRespo, Account
    <3> QED BY <1>1, <3>1, <3>2, <3>3, <3>4, <3>5, <3>6
  <2>3. OneVerification'
    BY <1>0, <2>1, MoreCodes DEF SpentCodes
  <2> QED BY <1>0, <2>1, <2>2, <2>3, OtherCode DEF SpentCodes
<1>2. ASSUME NEW k \in Codes, ChangeWithCode(k) PROVE SpentCodes'
  <2>1. /\ account' = Uncoded(account) /\ visit' = visit /\ codesMade' = codesMade
        /\ account.code = k /\ uses' = [uses EXCEPT ![k].password = @ + 1]
    BY <1>2 DEF ChangeWithCode
  <2>2. account'.code = 0
    BY <1>0, <2>1, CodeOf
  <2>3. uses'[k].password = uses[k].password + 1 /\ \A i \in Codes : uses'[i].verify = uses[i].verify
    BY <1>2, <2>1 DEF AccountsTypeOK
  <2>4. \A i \in Codes : i # k => uses'[i] = uses[i]
    BY <2>1 DEF AccountsTypeOK
  <2>5. CodeSpent(k)
    BY <1>2 DEF SpentCodes
  <2>6. uses[k].password = 0 /\ k <= codesMade
    BY <2>1, <2>5 DEF SpentCodes, CodeSpent
  <2>7. ASSUME NEW i \in Codes PROVE CodeSpent(i)'
    BY <2>1, <2>2, <2>3, <2>4, <2>6 DEF SpentCodes, CodeSpent
  <2>8. OneVerification'
    BY <1>0, <2>1, <2>3, MoreCodes DEF SpentCodes
  <2> QED BY <1>0, <2>1, <2>2, <2>7, <2>8 DEF SpentCodes
<1>3. ASSUME NEW c \in Clients, ClientStep(c) PROVE SpentCodes'
  BY <1>3, ClientStepKeepsSpent
<1> QED BY <1>1, <1>2, <1>3 DEF AccountsNext

\* A code that was sent to a person verifies the account at most once and changes the
\* password at most once, for any number of requests under way and of codes asked for
\* (auth_handlers.go, VerifyAccount and ChangePassword).
THEOREM CodesSpentOnce == AccountsSpec => []CodesAreUsedOnce
<1>1. AccountsInit => AccountsTypeOK /\ SpentCodes
  BY InitTyped DEF AccountsInit, NoAccount, NoVisit, SpentCodes, CodeSpent, OneVerification
<1>2. AccountsTypeOK /\ SpentCodes /\ [AccountsNext]_accountVars => (AccountsTypeOK /\ SpentCodes)'
  BY NextKeepsType, NextKeepsSpent
<1>3. SpentCodes => CodesAreUsedOnce
  BY DEF SpentCodes, CodeSpent, CodesAreUsedOnce
<1> QED BY <1>1, <1>2, <1>3, PTL DEF AccountsSpec

=============================================================================
