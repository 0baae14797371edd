---------------------------- MODULE Organizations ----------------------------
(***************************************************************************)
(* The organizations pack (features/organizations/src/render.ts): who is   *)
(* in which organization with which role, under concurrent calls of its    *)
(* administrators.  Members are added under READ COMMITTED, and changed    *)
(* and removed in SERIALIZABLE transactions that are tried again.          *)
(*                                                                         *)
(* A serializable transaction reads its snapshot.  PostgreSQL refuses it   *)
(* at the end (P2034) when the row it writes has changed since, and when   *)
(* another of them, committed since, has read what it changes and changed  *)
(* what it has read; it may refuse others.  What is not serializable, an   *)
(* account that is closed say, it does not notice.  What a call refuses    *)
(* for its role, or for lack of a row, is no step.                         *)
(***************************************************************************)
EXTENDS Naturals, FiniteSets

CONSTANTS Organizations, Users,
          AdminRoles,       \* config.roles: all but the last, the first of them "owner",
          MemberRole,       \* and the last
          OrgCalls,         \* calls of OrganizationService, one after the other each
          OrgAttempts       \* `attempt < 3' of serializable

ASSUME OrganizationsAssumption ==
    /\ "owner" \in AdminRoles /\ MemberRole \notin AdminRoles
    /\ OrgAttempts \in Nat \ {0}

VARIABLES members,  \* the Membership table: the role of each user, or "none"
          closed,   \* accounts with deletedAt set
          orgcall   \* of each call: how far it is

orgVars == <<members, closed, orgcall>>

Roles == AdminRoles \cup {MemberRole}

(* role: the new one, "none" to remove; counted: the owners it has         *)
(* counted; stale: its row has changed since its snapshot; rival: a        *)
(* transaction that had counted them too has committed since.              *)
OrgCall == [step: {"away", "idle", "insert", "begin", "commit"}, org: Organizations \cup {"-"},
            user: Users \cup {"-"}, role: Roles \cup {"none"}, counted: SUBSET Users,
            stale: BOOLEAN, rival: BOOLEAN, attempt: 0 .. OrgAttempts]
NoOrgCall == [step |-> "idle", org |-> "-", user |-> "-", role |-> "none",
              counted |-> {}, stale |-> FALSE, rival |-> FALSE, attempt |-> 0]

(* The calls in C and the organizations in O are to come; the others are   *)
(* not, or are none of these users' business.                              *)
OrgInit(C, O) ==
    /\ members = [o \in Organizations |-> [u \in Users |-> IF o \in O THEN "none" ELSE "away"]]
    /\ closed = {}
    /\ orgcall = [c \in OrgCalls |->
                  IF c \in C THEN NoOrgCall ELSE [NoOrgCall EXCEPT !.step = "away"]]

ActiveOwners(o) == {u \in Users \ closed : members[o][u] = "owner"}

(* requireAdmin, for an actor who can sign in.                             *)
HasAdmin(o) == \E u \in Users \ closed : members[o][u] \in AdminRoles

OrgCallEnds(c) == orgcall' = [orgcall EXCEPT ![c] = NoOrgCall]

-----------------------------------------------------------------------------
(* create: the organization with its owner, in one transaction.            *)
CreateOrganization(o, u) ==
    /\ \A v \in Users : members[o][v] = "none"
    /\ u \notin closed
    /\ members' = [members EXCEPT ![o][u] = "owner"]
    /\ UNCHANGED <<closed, orgcall>>

(* addMember: the actor, the account and the membership are looked up,     *)
AddMember(c, o, u, role) ==
    /\ orgcall[c].step = "idle" /\ HasAdmin(o)
    /\ u \notin closed /\ members[o][u] = "none"
    /\ orgcall' = [orgcall EXCEPT ![c] = [NoOrgCall EXCEPT
                     !.step = "insert", !.org = o, !.user = u, !.role = role]]
    /\ UNCHANGED <<members, closed>>

(* and the row is inserted, unless its unique index refuses it.            *)
InsertMember(c) ==
    /\ orgcall[c].step = "insert"
    /\ LET o == orgcall[c].org
           u == orgcall[c].user
       IN  members' = IF members[o][u] # "none" THEN members
                      ELSE [members EXCEPT ![o][u] = orgcall[c].role]
    /\ OrgCallEnds(c)
    /\ UNCHANGED closed

-----------------------------------------------------------------------------
(* updateMember and removeMember: the actor is looked up,                  *)
ChangeMember(c, o, u, role) ==
    /\ orgcall[c].step = "idle" /\ HasAdmin(o) /\ members[o][u] # "none"
    /\ orgcall' = [orgcall EXCEPT ![c] = [NoOrgCall EXCEPT
                     !.step = "begin", !.org = o, !.user = u, !.role = role, !.attempt = 1]]
    /\ UNCHANGED <<members, closed>>

(* Is this an active owner, who is to be one no more?                      *)
TakesOwner(c) == /\ orgcall[c].user \in ActiveOwners(orgcall[c].org)
                 /\ orgcall[c].role # "owner"

(* the transaction reads, and refuses to take the last active owner,       *)
BeginChange(c) ==
    /\ orgcall[c].step = "begin"
    /\ LET owners == ActiveOwners(orgcall[c].org)
       IN  IF \/ members[orgcall[c].org][orgcall[c].user] = "none"
              \/ TakesOwner(c) /\ Cardinality(owners) <= 1
           THEN OrgCallEnds(c)
           ELSE orgcall' = [orgcall EXCEPT ![c] = [@ EXCEPT
                   !.step = "commit", !.stale = FALSE, !.rival = FALSE,
                   !.counted = IF TakesOwner(c) THEN owners ELSE {}]]
    /\ UNCHANGED <<members, closed>>

(* Mutant of Serializable: REPEATABLE READ.                                *)
Repeatable(c) == ~orgcall[c].stale

Serializable(c) == ~orgcall[c].stale /\ ~(orgcall[c].counted # {} /\ orgcall[c].rival)

(* and commits.                                                            *)
CommitChange(c) ==
    /\ orgcall[c].step = "commit" /\ Serializable(c)
    /\ members' = [members EXCEPT ![orgcall[c].org][orgcall[c].user] = orgcall[c].role]
    /\ orgcall' = [d \in OrgCalls |->
          IF d = c THEN NoOrgCall
          ELSE IF orgcall[d].step # "commit" \/ orgcall[d].org # orgcall[c].org
          THEN orgcall[d]
          ELSE [orgcall[d] EXCEPT !.stale = @ \/ orgcall[d].user = orgcall[c].user,
                                  !.rival = @ \/ orgcall[c].counted # {}]]
    /\ UNCHANGED closed

(* serializable: a transaction that was refused is tried again.            *)
RetryChange(c) ==
    /\ orgcall[c].step = "commit" /\ orgcall[c].attempt < OrgAttempts
    /\ orgcall' = [orgcall EXCEPT ![c] = [orgcall[c] EXCEPT
          !.step = "begin", !.attempt = @ + 1, !.counted = {}, !.stale = FALSE, !.rival = FALSE]]
    /\ UNCHANGED <<members, closed>>

(* The last refusal, any other error, or the process dies.                 *)
OrgCallFails(c) == /\ orgcall[c].step \notin {"away", "idle"}
                   /\ OrgCallEnds(c)
                   /\ UNCHANGED <<members, closed>>

(* The account is deleted softly, by an update outside of this pack.       *)
CloseAccount(u) == /\ closed' = closed \cup {u}
                   /\ UNCHANGED <<members, orgcall>>

OrgNext ==
    \/ \E o \in Organizations, u \in Users :
          \/ CreateOrganization(o, u)
          \/ \E c \in OrgCalls, role \in Roles : AddMember(c, o, u, role)
          \/ \E c \in OrgCalls, role \in Roles \cup {"none"} : ChangeMember(c, o, u, role)
    \/ \E c \in OrgCalls : \/ InsertMember(c) \/ BeginChange(c) \/ CommitChange(c)
                           \/ RetryChange(c) \/ OrgCallFails(c)
    \/ \E u \in Users : CloseAccount(u)

-----------------------------------------------------------------------------
OrgTypeOK == /\ members \in [Organizations -> [Users -> Roles \cup {"none", "away"}]]
             /\ closed \subseteq Users
             /\ orgcall \in [OrgCalls -> OrgCall]

(* No change of members takes an organization's last active owner, however *)
(* many are demoted and removed at once: if none is left, an account has   *)
(* just been closed, or one that was counted has been closed since.        *)
(* render.ts updateMember, removeMember ("the active-owner invariant").    *)
OwnerKept ==
    [][\A o \in Organizations : ActiveOwners(o) # {} /\ ActiveOwners(o)' = {} =>
         \/ closed' # closed
         \/ \E c \in OrgCalls : /\ orgcall[c].step = "commit" /\ orgcall'[c].step = "idle"
                                /\ orgcall[c].counted \cap closed # {}]_orgVars
=============================================================================
