------------------------------- MODULE Records -------------------------------
(***************************************************************************)
(* The services of the crud pack (features/crud/src/render.ts) behind the  *)
(* guards of the organizations pack: a request gets its scope from a       *)
(* membership, and its scope decides what it may read, refer to, change    *)
(* and remove, statement by statement, while members come and go.          *)
(*                                                                         *)
(* Two entities of a tenant: Parents have an owner and are deleted softly; *)
(* a child refers to one of them and is deleted for good.  What a request  *)
(* refuses is no step, once its membership was read.                       *)
(***************************************************************************)
EXTENDS Organizations

CONSTANTS Requests, Parents, Children,
          AccountAdmins   \* users with a role of settings().adminRoles

VARIABLES parents,   \* the two tables
          children,
          request    \* of each request: its scope, and how far it is

recordVars == <<members, closed, orgcall, parents, children, request>>

Parent == [status: {"absent", "live", "deleted"},
           org: Organizations \cup {"-"}, owner: Users \cup {"-"}]
NoParent == [status |-> "absent", org |-> "-", owner |-> "-"]

(* A child's parent.                                                       *)
Child == [org: Organizations \cup {"-"}, parent: Parents \cup {"-"}]
NoChild == [org |-> "-", parent |-> "-"]

(* org, user, role: RequestScope; child, parent: what it is about to       *)
(* write.                                                                  *)
Request == [step: {"idle", "scoped", "create", "update"},
            org: Organizations \cup {"-"}, user: Users \cup {"-"}, role: Roles \cup {"none"},
            child: Children \cup {"-"}, parent: Parents \cup {"-"}]
NoRequest == [step |-> "idle", org |-> "-", user |-> "-", role |-> "none",
              child |-> "-", parent |-> "-"]

RecordInit(C, O) == /\ OrgInit(C, O)
                    /\ parents = [p \in Parents |-> NoParent]
                    /\ children = [x \in Children |-> NoChild]
                    /\ request = [r \in Requests |-> NoRequest]

RequestEnds(r) == request' = [request EXCEPT ![r] = NoRequest]

(* OrganizationContextGuard: the membership that the header names, or the  *)
(* only one there is.  A user with none gets no organization, and no       *)
(* further than requireOrganization.                                       *)
Enter(r, u, o) ==
    /\ request[r].step = "idle" /\ u \notin closed /\ members[o][u] \in Roles
    /\ request' = [request EXCEPT ![r] = [NoRequest EXCEPT
                     !.step = "scoped", !.org = o, !.user = u, !.role = members[o][u]]]
    /\ UNCHANGED <<members, closed, orgcall, parents, children>>

-----------------------------------------------------------------------------
(* isAdmin(scope, ADMIN_ROLES) or its own.                                 *)
OwnsParent(r, p) == \/ request[r].user \in AccountAdmins
                    \/ parents[p].owner = request[r].user

(* Mutant of SeesParent: an administrator's clauses are all left out.      *)
SeesAnywhere(r, p) == /\ parents[p].status = "live"
                      /\ \/ request[r].user \in AccountAdmins
                         \/ parents[p].org = request[r].org /\ OwnsParent(r, p)

(* scopedWhere, and the same clauses in validateRelatedRecords.            *)
SeesParent(r, p) == /\ parents[p].status = "live" /\ parents[p].org = request[r].org
                    /\ OwnsParent(r, p)

SeesChild(r, x) == children[x].org = request[r].org

(* OrgRoles on the destructive routes, by the role the guard has read.     *)
Destructive(r) == request[r].role \in AdminRoles

CreateParent(r, p) ==
    /\ request[r].step = "scoped" /\ parents[p] = NoParent
    /\ parents' = [parents EXCEPT ![p] = [status |-> "live", org |-> request[r].org,
                                          owner |-> request[r].user]]
    /\ RequestEnds(r)
    /\ UNCHANGED <<members, closed, orgcall, children>>

RemoveParent(r, p) ==
    /\ request[r].step = "scoped" /\ Destructive(r) /\ SeesParent(r, p)
    /\ parents' = [parents EXCEPT ![p].status = "deleted"]
    /\ RequestEnds(r)
    /\ UNCHANGED <<members, closed, orgcall, children>>

(* create and update: validateRelatedRecords,                              *)
ValidateRelated(r, x, p, step) ==
    /\ request[r].step = "scoped" /\ SeesParent(r, p)
    /\ request' = [request EXCEPT ![r].step = step, ![r].child = x, ![r].parent = p]
    /\ UNCHANGED <<members, closed, orgcall, parents, children>>

(* then the row is inserted,                                               *)
CreateChild(r) ==
    /\ request[r].step = "create"
    /\ children' = IF children[request[r].child] # NoChild THEN children
                   ELSE [children EXCEPT ![request[r].child] =
                           [org |-> request[r].org, parent |-> request[r].parent]]
    /\ RequestEnds(r)
    /\ UNCHANGED <<members, closed, orgcall, parents>>

(* or updated, where scopedWhere still holds.                              *)
UpdateChild(r) ==
    /\ request[r].step = "update"
    /\ children' = IF ~SeesChild(r, request[r].child) THEN children
                   ELSE [children EXCEPT ![request[r].child].parent = request[r].parent]
    /\ RequestEnds(r)
    /\ UNCHANGED <<members, closed, orgcall, parents>>

RemoveChild(r, x) ==
    /\ request[r].step = "scoped" /\ Destructive(r) /\ SeesChild(r, x)
    /\ children' = [children EXCEPT ![x] = NoChild]
    /\ RequestEnds(r)
    /\ UNCHANGED <<members, closed, orgcall, parents>>

RequestFails(r) == /\ request[r].step # "idle"
                   /\ RequestEnds(r)
                   /\ UNCHANGED <<members, closed, orgcall, parents, children>>

RecordNext ==
    \/ OrgNext /\ UNCHANGED <<parents, children, request>>
    \/ \E r \in Requests :
          \/ \E u \in Users, o \in Organizations : Enter(r, u, o)
          \/ \E p \in Parents : CreateParent(r, p) \/ RemoveParent(r, p)
          \/ \E x \in Children, p \in Parents, step \in {"create", "update"} :
                ValidateRelated(r, x, p, step)
          \/ \E x \in Children : RemoveChild(r, x)
          \/ CreateChild(r) \/ UpdateChild(r) \/ RequestFails(r)

-----------------------------------------------------------------------------
RecordTypeOK == /\ OrgTypeOK
                /\ parents \in [Parents -> Parent]
                /\ children \in [Children -> Child]
                /\ request \in [Requests -> Request]

(* Tenants stay apart, though a row is checked in one statement and        *)
(* referred to in another: whoever creates, updates and removes, a child   *)
(* and the parent it refers to are of one organization.  render.ts         *)
(* validateRelatedRecords, scopedWhere.                                    *)
TenantsApart ==
    \A x \in Children : children[x] # NoChild =>
        /\ parents[children[x].parent].status # "absent"
        /\ parents[children[x].parent].org = children[x].org
=============================================================================
