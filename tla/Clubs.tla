------------------------------- MODULE Clubs --------------------------------
(***************************************************************************)
(* Clubs, their members and their responsibles (handlers/club, the clubs   *)
(* part of handlers/admin).  Being responsible is a role, and the role is  *)
(* found by its name: the club's name in lower case without spaces.  A     *)
(* request checks first and writes later, in other statements.             *)
(***************************************************************************)
EXTENDS Naturals, FiniteSets

CONSTANTS
    ClubIds,          \* rows of clubs; an identifier is never used twice
    ClubNames,        \* pairs: the role the name gives, and a spelling
    Folk,             \* accounts
    ClubAdmins,       \* accounts with the role ADMIN
    MaxRenames        \* bound: changes of a name

VARIABLES
    club,        \* name of each club
    clubRoles,   \* rows of roles: they are created and never deleted
    holders,     \* rows of newf_roles: account and role
    members,     \* rows of clubs_members: account and club
    dealing,     \* requests between their checks and their last write
    adopted,     \* history: clubs whose role came from elsewhere, or is shared
    crossed,     \* history: roles held since a departure or a change of name was crossed, or
                 \* since an administrator gave them to somebody outside, or whose holder left
                 \* because of a failing query
    renames

clubVars == << club, clubRoles, holders, members, dealing, adopted, crossed, renames >>

-----------------------------------------------------------------------------
(* State *)

RoleOf(n) == n[1]
RoleNames == {RoleOf(n) : n \in ClubNames}
NoName == << "none", "none" >>
GoneName == << "gone", "gone" >>

\* role: the role the permission was checked for.
Dealing == [op : {"none", "update", "member", "grant", "remove", "join", "leave"},
            at : ClubIds, to : Folk, role : RoleNames]
NoDealing == [op |-> "none", at |-> CHOOSE c \in ClubIds : TRUE,
              to |-> CHOOSE p \in Folk : TRUE, role |-> CHOOSE r \in RoleNames : TRUE]

\* A row has a name; one that is not there yet, and one that went, have none.
ASSUME ClubsAssumption ==
    /\ ClubIds # {} /\ ClubNames # {} /\ MaxRenames \in Nat
    /\ NoName \notin ClubNames /\ GoneName \notin ClubNames

ClubsTypeOK ==
    /\ club \in [ClubIds -> ClubNames \cup {NoName, GoneName}]
    /\ clubRoles \subseteq RoleNames
    /\ holders \subseteq Folk \X RoleNames
    /\ members \subseteq Folk \X ClubIds
    /\ dealing \in [Folk -> Dealing]
    /\ adopted \subseteq ClubIds
    /\ crossed \subseteq Folk \X RoleNames
    /\ renames \in 0 .. MaxRenames

ClubsInit ==
    /\ club = [c \in ClubIds |-> NoName]
    /\ clubRoles = {} /\ holders = {} /\ members = {}
    /\ dealing = [p \in Folk |-> NoDealing]
    /\ adopted = {} /\ crossed = {}
    /\ renames = 0

LiveClub(c) == club[c] \in ClubNames
Free(n) == \A c \in ClubIds : club[c] # n
Responsible(p, c) == LiveClub(c) /\ << p, RoleOf(club[c]) >> \in holders
MayManage(p, c) == LiveClub(c) /\ (p \in ClubAdmins \/ Responsible(p, c))
Deals(p, d) == dealing' = [dealing EXCEPT ![p] = d]
DealsOn(p, op, c) == Deals(p, [NoDealing EXCEPT !.op = op, !.at = c])

\* A club takes a name otherwise than with a new role: it shares the role of any other
\* club, or of one that went.
Adopt(c, n) ==
    adopted' = adopted \cup {c} \cup {d \in ClubIds : LiveClub(d) /\ RoleOf(club[d]) = RoleOf(n)}

-----------------------------------------------------------------------------
(* handlers/club *)

\* One transaction: the club, its role, and its creator as member and responsible.  A
\* name that is taken, or whose role exists, makes it fail.
CreateClub(p, c, n) ==
    /\ club[c] = NoName /\ Free(n) /\ RoleOf(n) \notin clubRoles
    /\ club' = [club EXCEPT ![c] = n]
    /\ clubRoles' = clubRoles \cup {RoleOf(n)}
    /\ holders' = holders \cup {<< p, RoleOf(n) >>}
    /\ members' = members \cup {<< p, c >>}
    /\ adopted' = IF \E d \in ClubIds : LiveClub(d) /\ RoleOf(club[d]) = RoleOf(n)
                  THEN adopted \cup {c} ELSE adopted
    /\ UNCHANGED << dealing, crossed, renames >>

\* UpdateClub, the check: the role of the name the club has now.
UpdateClub(p, c) ==
    /\ dealing[p].op = "none" /\ Responsible(p, c)
    /\ DealsOn(p, "update", c)
    /\ UNCHANGED << club, clubRoles, holders, members, adopted, crossed, renames >>

\* The name changes, or other fields only; the role keeps its own name.
FinishUpdateClub(p) ==
    LET c == dealing[p].at IN
    /\ dealing[p].op = "update"
    /\ \/ /\ LiveClub(c) /\ renames < MaxRenames
          /\ \E n \in ClubNames :
                Free(n) /\ club' = [club EXCEPT ![c] = n] /\ Adopt(c, n)
          /\ renames' = renames + 1
       \/ UNCHANGED << club, adopted, renames >>
    /\ Deals(p, NoDealing)
    /\ UNCHANGED << clubRoles, holders, members, crossed >>

\* AddClubRespo, the checks: an administrator or a responsible; whether the person is a
\* member decides what comes next.
AddClubRespo(p, c, q) ==
    /\ dealing[p].op = "none" /\ MayManage(p, c)
    /\ Deals(p, [op |-> IF << q, c >> \in members THEN "grant" ELSE "member",
                 at |-> c, to |-> q, role |-> RoleOf(club[c])])
    /\ UNCHANGED << club, clubRoles, holders, members, adopted, crossed, renames >>

\* The person is made a member: refused for one who is by now, and for a club that went.
AddAsMember(p) ==
    LET d == dealing[p] IN
    /\ d.op = "member"
    /\ IF LiveClub(d.at) /\ << d.to, d.at >> \notin members
       THEN members' = members \cup {<< d.to, d.at >>} /\ Deals(p, [d EXCEPT !.op = "grant"])
       ELSE Deals(p, NoDealing) /\ UNCHANGED members
    /\ UNCHANGED << club, clubRoles, holders, adopted, crossed, renames >>

\* The transaction: the role must exist, and is given once.
GrantRole(p) ==
    LET d == dealing[p]
        stray == \/ ~LiveClub(d.at) \/ RoleOf(club[d.at]) # d.role
                 \/ << d.to, d.at >> \notin members
                 \/ dealing[d.to].op = "leave"
    IN /\ d.op = "grant"
       /\ IF d.role \in clubRoles
          THEN /\ holders' = holders \cup {<< d.to, d.role >>}
               /\ crossed' = IF stray THEN crossed \cup {<< d.to, d.role >>} ELSE crossed
          ELSE UNCHANGED << holders, crossed >>
       /\ Deals(p, NoDealing)
       /\ UNCHANGED << club, clubRoles, members, adopted, renames >>

RemoveClubRespo(p, c, q) ==
    /\ dealing[p].op = "none" /\ MayManage(p, c)
    /\ Deals(p, [op |-> "remove", at |-> c, to |-> q, role |-> RoleOf(club[c])])
    /\ UNCHANGED << club, clubRoles, holders, members, adopted, crossed, renames >>

FinishRemove(p) ==
    LET d == dealing[p] IN
    /\ d.op = "remove"
    /\ holders' = holders \ {<< d.to, d.role >>}
    /\ crossed' = crossed \ {<< d.to, d.role >>}
    /\ Deals(p, NoDealing)
    /\ UNCHANGED << club, clubRoles, members, adopted, renames >>

JoinClub(p, c) ==
    /\ dealing[p].op = "none" /\ LiveClub(c) /\ << p, c >> \notin members
    /\ DealsOn(p, "join", c)
    /\ UNCHANGED << club, clubRoles, holders, members, adopted, crossed, renames >>

FinishJoinClub(p) ==
    /\ dealing[p].op = "join"
    /\ members' = IF LiveClub(dealing[p].at) THEN members \cup {<< p, dealing[p].at >>} ELSE members
    /\ Deals(p, NoDealing)
    /\ UNCHANGED << club, clubRoles, holders, adopted, crossed, renames >>

\* Faulty variant: anybody leaves.
LeaveClubFreely(p, c) ==
    /\ dealing[p].op = "none" /\ << p, c >> \in members
    /\ DealsOn(p, "leave", c)
    /\ UNCHANGED << club, clubRoles, holders, members, adopted, crossed, renames >>

\* LeaveClub, the checks: a member who is not responsible; when the role cannot be read,
\* the request goes on.
LeaveClub(p, c) ==
    /\ dealing[p].op = "none" /\ << p, c >> \in members
    /\ \/ ~Responsible(p, c) /\ UNCHANGED crossed
       \/ Responsible(p, c) /\ crossed' = crossed \cup {<< p, RoleOf(club[c]) >>}
    /\ DealsOn(p, "leave", c)
    /\ UNCHANGED << club, clubRoles, holders, members, adopted, renames >>

FinishLeaveClub(p) ==
    /\ dealing[p].op = "leave"
    /\ members' = members \ {<< p, dealing[p].at >>}
    /\ Deals(p, NoDealing)
    /\ UNCHANGED << club, clubRoles, holders, adopted, crossed, renames >>

-----------------------------------------------------------------------------
(* handlers/admin *)

\* The club alone: nobody is a member, and there is no role.
AdminCreateClub(c, n) ==
    /\ club[c] = NoName /\ Free(n)
    /\ club' = [club EXCEPT ![c] = n]
    /\ Adopt(c, n)
    /\ UNCHANGED << clubRoles, holders, members, dealing, crossed, renames >>

AdminUpdateClub(c, n) ==
    /\ LiveClub(c) /\ Free(n) /\ renames < MaxRenames
    /\ club' = [club EXCEPT ![c] = n]
    /\ Adopt(c, n)
    /\ renames' = renames + 1
    /\ UNCHANGED << clubRoles, holders, members, dealing, crossed >>

\* CreateUser and UpdateUser: the account has the roles of the list that exist and no other,
\* those of responsibles included, whatever clubs it is in.  DeleteUser leaves it none.
AdminSetRoles(q, R) ==
    LET outside(r) ==
            \/ dealing[q].op = "leave"
            \/ \E c \in ClubIds : LiveClub(c) /\ RoleOf(club[c]) = r /\ << q, c >> \notin members
    IN /\ R \subseteq clubRoles
       /\ holders' = {h \in holders : h[1] # q} \cup ({q} \X R)
       /\ crossed' = {h \in crossed : h[1] # q \/ h[2] \in R} \cup ({q} \X {r \in R : outside(r)})
       /\ UNCHANGED << club, clubRoles, members, dealing, adopted, renames >>

\* One transaction; the role and its holders stay.
DeleteClub(c) ==
    /\ LiveClub(c)
    /\ club' = [club EXCEPT ![c] = GoneName]
    /\ members' = {m \in members : m[2] # c}
    /\ UNCHANGED << clubRoles, holders, dealing, adopted, crossed, renames >>

-----------------------------------------------------------------------------
(* Specification *)

ClubsNext ==
    \/ \E p \in Folk :
        \/ \E c \in ClubIds :
            \/ \E n \in ClubNames : CreateClub(p, c, n)
            \/ UpdateClub(p, c) \/ JoinClub(p, c) \/ LeaveClub(p, c)
            \/ \E q \in Folk : AddClubRespo(p, c, q) \/ RemoveClubRespo(p, c, q)
        \/ FinishUpdateClub(p) \/ AddAsMember(p) \/ GrantRole(p) \/ FinishRemove(p)
        \/ FinishJoinClub(p) \/ FinishLeaveClub(p)
        \/ \E R \in SUBSET RoleNames : AdminSetRoles(p, R)
    \/ \E c \in ClubIds :
        \/ \E n \in ClubNames : AdminCreateClub(c, n) \/ AdminUpdateClub(c, n)
        \/ DeleteClub(c)

ClubsSpec == ClubsInit /\ [][ClubsNext]_clubVars

-----------------------------------------------------------------------------
(* What must hold *)

\* "Club responsibles cannot leave the club" (club_handler.go:1138): however requests
\* interleave, a responsible is a member, but in a club that took its role over from
\* another name, and where the role was given while its holder was leaving or while the
\* club changed its name, or could not be read when its holder left, or was written by an
\* administrator for somebody who was not a member (admin_handlers.go:303, 463).
ResponsiblesAreMembers ==
    \A p \in Folk, c \in ClubIds \ adopted :
        Responsible(p, c) => \/ << p, c >> \in members
                             \/ << p, RoleOf(club[c]) >> \in crossed

=============================================================================
