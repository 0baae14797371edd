---------------------------- MODULE RecordsProofs ----------------------------
(***************************************************************************)
(* Proofs about Records and the Organizations it is built on, for any      *)
(* number of organizations, users, roles, calls, attempts, requests and    *)
(* rows: an organization keeps an active owner, and what belongs to one    *)
(* tenant refers to nothing of another.  And about Endpoints: what the     *)
(* client's types admit is served, and a walk through a list misses        *)
(* nothing.                                                                *)
(***************************************************************************)
EXTENDS Records, Endpoints, FiniteSetTheorems, TLAPS

OrgSpec(C, O) == OrgInit(C, O) /\ [][OrgNext]_orgVars

(* The organization and the user a call is about.                          *)
Aimed(c) == orgcall[c].step \in {"insert", "begin", "commit"} =>
               orgcall[c].org \in Organizations /\ orgcall[c].user \in Users

(* As long as its row has not changed since its snapshot, a call that has  *)
(* counted nobody does not take an active owner.                           *)
Seen(c) == orgcall[c].step = "commit" /\ ~orgcall[c].stale =>
              LET role == members[orgcall[c].org][orgcall[c].user]
              IN  /\ role # "none"
                  /\ orgcall[c].counted = {} /\ orgcall[c].role # "owner" =>
                        role # "owner" \/ orgcall[c].user \in closed

(* One that does has counted another, and as long as no rival of its has   *)
(* committed, whom it has counted is an owner still.                       *)
Counts(c) == orgcall[c].step = "commit" /\ orgcall[c].counted # {} =>
                /\ \E u \in orgcall[c].counted : u # orgcall[c].user
                /\ ~orgcall[c].rival =>
                      \A u \in orgcall[c].counted :
                         members[orgcall[c].org][u] = "owner" \/ u \in closed

OwnersInv == /\ OrgTypeOK
             /\ \A c \in OrgCalls : Aimed(c) /\ Seen(c) /\ Counts(c)

-----------------------------------------------------------------------------
(* The records a call goes through.                                        *)
LEMMA IdleCall == NoOrgCall \in OrgCall /\ [NoOrgCall EXCEPT !.step = "away"] \in OrgCall
<1>1. NoOrgCall \in OrgCall
  BY OrganizationsAssumption DEF NoOrgCall, OrgCall
<1> QED BY <1>1 DEF OrgCall

Adding(o, u, role) ==
    [NoOrgCall EXCEPT !.step = "insert", !.org = o, !.user = u, !.role = role]
Changing(o, u, role) ==
    [NoOrgCall EXCEPT !.step = "begin", !.org = o, !.user = u, !.role = role, !.attempt = 1]

LEMMA AddingCall ==
    ASSUME NEW o \in Organizations, NEW u \in Users, NEW role \in Roles
    PROVE  /\ Adding(o, u, role) \in OrgCall /\ Adding(o, u, role).step = "insert"
           /\ Adding(o, u, role).org = o /\ Adding(o, u, role).user = u
<1>1. 0 \in 0 .. OrgAttempts
  BY OrganizationsAssumption
<1> QED BY <1>1 DEF Adding, NoOrgCall, OrgCall

LEMMA ChangingCall ==
    ASSUME NEW o \in Organizations, NEW u \in Users, NEW role \in Roles \cup {"none"}
    PROVE  /\ Changing(o, u, role) \in OrgCall /\ Changing(o, u, role).step = "begin"
           /\ Changing(o, u, role).org = o /\ Changing(o, u, role).user = u
<1>1. 1 \in 0 .. OrgAttempts
  BY OrganizationsAssumption
<1> QED BY <1>1 DEF Changing, NoOrgCall, OrgCall

LEMMA BegunCall ==
    ASSUME NEW r \in OrgCall, NEW S \in SUBSET Users
    PROVE  LET q == [r EXCEPT !.step = "commit", !.stale = FALSE, !.rival = FALSE, !.counted = S]
           IN  /\ q \in OrgCall
               /\ q.step = "commit" /\ q.counted = S /\ ~q.stale /\ ~q.rival
               /\ q.org = r.org /\ q.user = r.user /\ q.role = r.role
<1> DEFINE a == [r EXCEPT !.step = "commit", !.stale = FALSE]
           b == [a EXCEPT !.rival = FALSE, !.counted = S]
<1>1. /\ a \in OrgCall /\ a.step = "commit" /\ ~a.stale
      /\ a.org = r.org /\ a.user = r.user /\ a.role = r.role
  BY DEF OrgCall
<1> HIDE DEF a
<1>2. /\ b \in OrgCall /\ b.step = a.step /\ b.stale = a.stale /\ ~b.rival /\ b.counted = S
      /\ b.org = a.org /\ b.user = a.user /\ b.role = a.role
  BY <1>1 DEF OrgCall
<1>3. b = [r EXCEPT !.step = "commit", !.stale = FALSE, !.rival = FALSE, !.counted = S]
  BY DEF a
<1> QED BY <1>1, <1>2, <1>3

LEMMA OvertakenCall ==
    ASSUME NEW r \in OrgCall, NEW s \in BOOLEAN, NEW v \in BOOLEAN
    PROVE  LET q == [r EXCEPT !.stale = s, !.rival = v]
           IN  /\ q \in OrgCall
               /\ q.step = r.step /\ q.counted = r.counted
               /\ q.stale = s /\ q.rival = v
               /\ q.org = r.org /\ q.user = r.user /\ q.role = r.role
BY DEF OrgCall

LEMMA RetriedCall ==
    ASSUME NEW r \in OrgCall, r.attempt < OrgAttempts
    PROVE  LET q == [r EXCEPT !.step = "begin", !.attempt = @ + 1, !.counted = {},
                              !.stale = FALSE, !.rival = FALSE]
           IN  /\ q \in OrgCall
               /\ q.step = "begin" /\ q.org = r.org /\ q.user = r.user
<1> DEFINE a == [r EXCEPT !.step = "begin", !.attempt = @ + 1]
           b == [a EXCEPT !.counted = {}, !.stale = FALSE]
           d == [b EXCEPT !.rival = FALSE]
<1>0. r.attempt + 1 \in 0 .. OrgAttempts
  BY OrganizationsAssumption DEF OrgCall
<1>1. a \in OrgCall /\ a.step = "begin" /\ a.org = r.org /\ a.user = r.user
  BY <1>0 DEF OrgCall
<1> HIDE DEF a
<1>2. b \in OrgCall /\ b.step = "begin" /\ b.org = a.org /\ b.user = a.user
  BY <1>1 DEF OrgCall
<1> HIDE DEF b
<1>3. d \in OrgCall /\ d.step = "begin" /\ d.org = b.org /\ d.user = b.user
  BY <1>2 DEF OrgCall
<1>4. d = [r EXCEPT !.step = "begin", !.attempt = @ + 1, !.counted = {},
                    !.stale = FALSE, !.rival = FALSE]
  BY DEF a, b
<1> HIDE DEF d
<1> QED BY <1>1, <1>2, <1>3, <1>4

-----------------------------------------------------------------------------
LEMMA InitOwners == ASSUME NEW C, NEW O, OrgInit(C, O) PROVE OwnersInv
<1>1. orgcall \in [OrgCalls -> OrgCall]
  BY IdleCall DEF OrgInit
<1>2. \A c \in OrgCalls : orgcall[c].step \in {"idle", "away"}
  BY DEF OrgInit, NoOrgCall
<1> QED BY <1>1, <1>2 DEF OrgInit, OrgTypeOK, OwnersInv, Aimed, Seen, Counts

(* Who joins, an account that is closed and a call that ends disturb no    *)
(* other call.                                                             *)
LEMMA GoesOn ==
    ASSUME OwnersInv, members' \in [Organizations -> [Users -> Roles \cup {"none", "away"}]],
           \A o \in Organizations, u \in Users :
              members[o][u] = "none" \/ members'[o][u] = members[o][u],
           closed \subseteq closed', closed' \subseteq Users,
           orgcall' \in [OrgCalls -> OrgCall],
           \A c \in OrgCalls : orgcall'[c] = orgcall[c] \/ orgcall'[c].step = "idle"
    PROVE  OwnersInv'
<1>1. OrgTypeOK'
  BY DEF OrgTypeOK
<1>2. ASSUME NEW c \in OrgCalls PROVE (Aimed(c) /\ Seen(c) /\ Counts(c))'
  <2>1. CASE orgcall'[c].step = "idle"
    BY <2>1 DEF Aimed, Seen, Counts
  <2>2. CASE orgcall'[c] = orgcall[c]
    <3>1. Aimed(c)'
      BY <2>2 DEF OwnersInv, Aimed
    <3>2. Seen(c)'
      BY <2>2 DEF OwnersInv, Aimed, Seen
    <3>3. orgcall[c].counted \subseteq Users
      BY DEF OwnersInv, OrgTypeOK, OrgCall
    <3>4. Counts(c)'
      BY <2>2, <3>3 DEF OwnersInv, Aimed, Counts
    <3> QED BY <3>1, <3>2, <3>4
  <2> QED BY <2>1, <2>2
<1> QED BY <1>1, <1>2 DEF OwnersInv

(* A step of one call that changes no table.                               *)
LEMMA CallMoves ==
    ASSUME OwnersInv, NEW c \in OrgCalls, NEW q \in OrgCall, orgcall' = [orgcall EXCEPT ![c] = q],
           UNCHANGED <<members, closed>>, (Aimed(c) /\ Seen(c) /\ Counts(c))'
    PROVE  OwnersInv'
<1>1. OrgTypeOK'
  BY DEF OwnersInv, OrgTypeOK
<1>2. ASSUME NEW d \in OrgCalls, d # c PROVE (Aimed(d) /\ Seen(d) /\ Counts(d))'
  BY <1>2 DEF OwnersInv, OrgTypeOK, Aimed, Seen, Counts
<1> QED BY <1>1, <1>2 DEF OwnersInv

(* Two owners at least are an owner and another.                           *)
LEMMA AnotherOne ==
    ASSUME NEW S, NEW u \in S, ~(Cardinality(S) <= 1) PROVE \E v \in S : v # u
<1> SUFFICES ASSUME \A v \in S : v = u PROVE FALSE
  OBVIOUS
<1>1. S = {u}
  OBVIOUS
<1>2. Cardinality({u}) = 1
  BY FS_Singleton
<1>3. Cardinality(S) = 1
  BY <1>1, <1>2
<1> QED BY <1>3

LEMMA BeginKeeps == ASSUME OwnersInv, NEW c \in OrgCalls, BeginChange(c) PROVE OwnersInv'
<1> DEFINE o == orgcall[c].org
           u == orgcall[c].user
           owners == ActiveOwners(o)
<1>1. o \in Organizations /\ u \in Users /\ owners \in SUBSET Users
  BY DEF BeginChange, OwnersInv, Aimed, ActiveOwners
<1>2. orgcall \in [OrgCalls -> OrgCall] /\ orgcall[c] \in OrgCall
  BY DEF OwnersInv, OrgTypeOK
<1>3. CASE OrgCallEnds(c)
  <2>1. orgcall' \in [OrgCalls -> OrgCall]
    BY <1>2, <1>3, IdleCall DEF OrgCallEnds
  <2>2. \A d \in OrgCalls : orgcall'[d] = orgcall[d] \/ orgcall'[d].step = "idle"
    BY <1>2, <1>3 DEF OrgCallEnds, NoOrgCall
  <2> QED BY <2>1, <2>2, GoesOn DEF BeginChange, OwnersInv, OrgTypeOK
<1>4. CASE ~OrgCallEnds(c)
  <2> DEFINE S == IF TakesOwner(c) THEN owners ELSE {}
             q == [orgcall[c] EXCEPT !.step = "commit", !.stale = FALSE, !.rival = FALSE,
                                     !.counted = S]
  <2>1. /\ orgcall' = [orgcall EXCEPT ![c] = q]
        /\ members[o][u] # "none"
        /\ TakesOwner(c) => ~(Cardinality(owners) <= 1)
        /\ UNCHANGED <<members, closed>>
    BY <1>4 DEF BeginChange
  <2>2. /\ q \in OrgCall
        /\ q.step = "commit" /\ q.counted = S /\ ~q.stale /\ ~q.rival
        /\ q.org = o /\ q.user = u /\ q.role = orgcall[c].role
    <3>1. S \in SUBSET Users
      BY <1>1
    <3> HIDE DEF S
    <3> QED BY <1>2, <3>1, BegunCall
  <2> HIDE DEF q
  <2>3. orgcall'[c] = q
    BY <1>2, <2>1
  <2>4. Aimed(c)'
    BY <1>1, <2>2, <2>3 DEF Aimed
  <2>5. Seen(c)'
    <3>1. S = {} /\ q.role # "owner" => members[o][u] # "owner" \/ u \in closed
      BY <1>1, <2>2 DEF TakesOwner, ActiveOwners
    <3> QED BY <2>1, <2>2, <2>3, <3>1 DEF Seen
  <2>6. Counts(c)'
    <3>1. CASE TakesOwner(c)
      <4>1. \E v \in owners : v # u
        BY <2>1, <3>1, AnotherOne DEF TakesOwner
      <4>2. \A v \in owners : members[o][v] = "owner"
        BY DEF ActiveOwners
      <4> QED BY <2>1, <2>2, <2>3, <3>1, <4>1, <4>2 DEF Counts
    <3>2. CASE ~TakesOwner(c)
      BY <2>2, <2>3, <3>2 DEF Counts
    <3> QED BY <3>1, <3>2
  <2> QED BY <2>1, <2>2, <2>4, <2>5, <2>6, CallMoves
<1> QED BY <1>3, <1>4

(* A commit takes from a call that goes on an owner it has counted only as *)
(* its rival, and changes its row only by making it stale.                 *)
LEMMA CommitKeeps == ASSUME OwnersInv, NEW c \in OrgCalls, CommitChange(c) PROVE OwnersInv'
<1> DEFINE o == orgcall[c].org
           u == orgcall[c].user
           role == orgcall[c].role
<1>1. o \in Organizations /\ u \in Users
  BY DEF CommitChange, OwnersInv, Aimed
<1>2. orgcall \in [OrgCalls -> OrgCall]
  BY DEF OwnersInv, OrgTypeOK
<1>3. members' \in [Organizations -> [Users -> Roles \cup {"none", "away"}]]
  <2>1. role \in Roles \cup {"none", "away"}
    BY <1>2 DEF OrgCall
  <2> QED BY <1>1, <2>1 DEF CommitChange, OwnersInv, OrgTypeOK
<1>4. /\ \A p \in Organizations, v \in Users :
            members'[p][v] = IF p = o /\ v = u THEN role ELSE members[p][v]
      /\ closed' = closed
  BY <1>1 DEF CommitChange, OwnersInv, OrgTypeOK
<1>5. orgcall[c].counted = {} => role = "owner" \/ members[o][u] # "owner" \/ u \in closed
  BY DEF CommitChange, Serializable, OwnersInv, Seen
<1>6. ASSUME NEW d \in OrgCalls
      PROVE  orgcall'[d] \in OrgCall /\ (Aimed(d) /\ Seen(d) /\ Counts(d))'
  <2>1. orgcall[d] \in OrgCall /\ orgcall[d].counted \subseteq Users
    BY <1>2 DEF OrgCall
  <2>2. CASE d = c
    <3>1. orgcall'[d] = NoOrgCall
      BY <2>2 DEF CommitChange
    <3> QED BY <3>1, IdleCall DEF NoOrgCall, Aimed, Seen, Counts
  <2>3. CASE d # c /\ (orgcall[d].step # "commit" \/ orgcall[d].org # o)
    <3>1. orgcall'[d] = orgcall[d]
      BY <2>3 DEF CommitChange
    <3>2. Aimed(d)'
      BY <3>1 DEF OwnersInv, Aimed
    <3>3. Seen(d)'
      BY <1>4, <2>3, <3>1 DEF OwnersInv, Aimed, Seen
    <3>4. Counts(d)'
      BY <1>4, <2>1, <2>3, <3>1 DEF OwnersInv, Aimed, Counts
    <3> QED BY <2>1, <3>1, <3>2, <3>3, <3>4
  <2>4. CASE d # c /\ orgcall[d].step = "commit" /\ orgcall[d].org = o
    <3> DEFINE s == orgcall[d].stale \/ orgcall[d].user = u
               v == orgcall[d].rival \/ orgcall[c].counted # {}
               q == [orgcall[d] EXCEPT !.stale = s, !.rival = v]
    <3>1. orgcall'[d] = q
      BY <2>4 DEF CommitChange
    <3>2. s \in BOOLEAN /\ v \in BOOLEAN
      OBVIOUS
    <3>3. /\ q \in OrgCall
          /\ q.step = "commit" /\ q.counted = orgcall[d].counted
          /\ q.stale = s /\ q.rival = v
          /\ q.org = o /\ q.user = orgcall[d].user /\ q.role = orgcall[d].role
      <4> HIDE DEF s, v
      <4>1. /\ q \in OrgCall
            /\ q.step = orgcall[d].step /\ q.counted = orgcall[d].counted
            /\ q.org = orgcall[d].org /\ q.user = orgcall[d].user /\ q.role = orgcall[d].role
        BY <2>1, <3>2 DEF OrgCall
      <4>2. q.stale = s /\ q.rival = v
        BY <2>1, <3>2 DEF OrgCall
      <4> QED BY <2>4, <4>1, <4>2
    <3> HIDE DEF q
    <3>4. Aimed(d)'
      BY <2>4, <3>1, <3>3 DEF OwnersInv, Aimed
    <3>5. orgcall[d].user \in Users
      BY <2>4 DEF OwnersInv, Aimed
    <3>6. Seen(d)'
      <4> SUFFICES ASSUME ~s
                   PROVE  /\ members'[o][orgcall[d].user] # "none"
                          /\ orgcall[d].counted = {} /\ orgcall[d].role # "owner" =>
                                \/ members'[o][orgcall[d].user] # "owner"
                                \/ orgcall[d].user \in closed'
        BY <3>1, <3>3 DEF Seen
      <4>1. members'[o][orgcall[d].user] = members[o][orgcall[d].user]
        BY <1>1, <1>4, <3>5
      <4> QED BY <1>4, <2>4, <4>1 DEF OwnersInv, Seen
    <3>7. Counts(d)'
      <4> SUFFICES ASSUME orgcall[d].counted # {}
                   PROVE  /\ \E x \in orgcall[d].counted : x # orgcall[d].user
                          /\ ~v => \A x \in orgcall[d].counted :
                                      members'[o][x] = "owner" \/ x \in closed'
        BY <3>1, <3>3 DEF Counts
      <4>1. Counts(d)
        BY DEF OwnersInv
      <4>2. ASSUME ~v, NEW x \in orgcall[d].counted
            PROVE  members'[o][x] = "owner" \/ x \in closed'
        <5>1. members[o][x] = "owner" \/ x \in closed
          BY <2>4, <4>1, <4>2 DEF Counts
        <5> QED BY <1>1, <1>4, <1>5, <2>1, <4>2, <5>1
      <4> QED BY <2>4, <4>1, <4>2 DEF Counts
    <3> QED BY <3>1, <3>3, <3>4, <3>6, <3>7
  <2> QED BY <2>2, <2>3, <2>4
<1>7. orgcall' \in [OrgCalls -> OrgCall]
  <2>1. DOMAIN orgcall' = OrgCalls /\ orgcall' = [d \in OrgCalls |-> orgcall'[d]]
    BY DEF CommitChange
  <2> QED BY <1>6, <2>1
<1> QED BY <1>3, <1>4, <1>6, <1>7 DEF OwnersInv, OrgTypeOK

LEMMA NextOwners == OwnersInv /\ [OrgNext]_orgVars => OwnersInv'
<1> SUFFICES ASSUME OwnersInv, [OrgNext]_orgVars PROVE OwnersInv'
  OBVIOUS
<1>1. /\ orgcall \in [OrgCalls -> OrgCall] /\ closed \subseteq Users
      /\ members \in [Organizations -> [Users -> Roles \cup {"none", "away"}]]
  BY DEF OwnersInv, OrgTypeOK
<1>2. ASSUME NEW o \in Organizations, NEW u \in Users, CreateOrganization(o, u) PROVE OwnersInv'
  <2>1. "owner" \in Roles
    BY OrganizationsAssumption DEF Roles
  <2> QED BY <1>1, <1>2, <2>1, GoesOn DEF CreateOrganization
<1>3. ASSUME NEW o \in Organizations, NEW u \in Users, NEW c \in OrgCalls, NEW role \in Roles,
             AddMember(c, o, u, role)
      PROVE  OwnersInv'
  <2> DEFINE q == Adding(o, u, role)
  <2>1. q \in OrgCall /\ q.step = "insert" /\ q.org = o /\ q.user = u
    BY AddingCall
  <2> HIDE DEF q
  <2>2. orgcall' = [orgcall EXCEPT ![c] = q] /\ UNCHANGED <<members, closed>>
    BY <1>3 DEF AddMember, Adding, q
  <2>3. (Aimed(c) /\ Seen(c) /\ Counts(c))'
    BY <1>1, <2>1, <2>2 DEF Aimed, Seen, Counts
  <2> QED BY <2>1, <2>2, <2>3, CallMoves
<1>4. ASSUME NEW o \in Organizations, NEW u \in Users, NEW c \in OrgCalls,
             NEW role \in Roles \cup {"none"}, ChangeMember(c, o, u, role)
      PROVE  OwnersInv'
  <2> DEFINE q == Changing(o, u, role)
  <2>1. q \in OrgCall /\ q.step = "begin" /\ q.org = o /\ q.user = u
    BY ChangingCall
  <2> HIDE DEF q
  <2>2. orgcall' = [orgcall EXCEPT ![c] = q] /\ UNCHANGED <<members, closed>>
    BY <1>4 DEF ChangeMember, Changing, q
  <2>3. (Aimed(c) /\ Seen(c) /\ Counts(c))'
    BY <1>1, <2>1, <2>2 DEF Aimed, Seen, Counts
  <2> QED BY <2>1, <2>2, <2>3, CallMoves
<1>5. ASSUME NEW c \in OrgCalls, OrgCallEnds(c)
      PROVE  /\ orgcall' \in [OrgCalls -> OrgCall]
             /\ \A d \in OrgCalls : orgcall'[d] = orgcall[d] \/ orgcall'[d].step = "idle"
  <2>1. \A d \in OrgCalls : orgcall'[d] = IF d = c THEN NoOrgCall ELSE orgcall[d]
    BY <1>1, <1>5 DEF OrgCallEnds
  <2> QED BY <1>1, <1>5, <2>1, IdleCall DEF OrgCallEnds, NoOrgCall
<1>6. ASSUME NEW c \in OrgCalls, InsertMember(c) PROVE OwnersInv'
  <2> DEFINE o == orgcall[c].org
             u == orgcall[c].user
  <2>1. o \in Organizations /\ u \in Users
    BY <1>6 DEF InsertMember, OwnersInv, Aimed
  <2>2. orgcall[c].role \in Roles \cup {"none", "away"}
    BY <1>1 DEF OrgCall
  <2>3. /\ members' \in [Organizations -> [Users -> Roles \cup {"none", "away"}]]
        /\ \A p \in Organizations, v \in Users :
              members[p][v] = "none" \/ members'[p][v] = members[p][v]
    BY <1>1, <1>6, <2>1, <2>2 DEF InsertMember
  <2> QED BY <1>1, <1>5, <1>6, <2>3, GoesOn DEF InsertMember
<1>7. ASSUME NEW c \in OrgCalls, RetryChange(c) PROVE OwnersInv'
  <2> DEFINE q == [orgcall[c] EXCEPT !.step = "begin", !.attempt = @ + 1, !.counted = {},
                                     !.stale = FALSE, !.rival = FALSE]
  <2>1. orgcall[c] \in OrgCall /\ orgcall[c].attempt < OrgAttempts
    BY <1>1, <1>7 DEF RetryChange
  <2>2. /\ q \in OrgCall
        /\ q.step = "begin" /\ q.org = orgcall[c].org /\ q.user = orgcall[c].user
    BY <2>1, RetriedCall
  <2> HIDE DEF q
  <2>3. orgcall' = [orgcall EXCEPT ![c] = q] /\ UNCHANGED <<members, closed>>
    BY <1>7 DEF RetryChange, q
  <2>4. (Aimed(c) /\ Seen(c) /\ Counts(c))'
    BY <1>1, <1>7, <2>2, <2>3 DEF RetryChange, OwnersInv, Aimed, Seen, Counts
  <2> QED BY <2>2, <2>3, <2>4, CallMoves
<1>8. ASSUME NEW c \in OrgCalls, OrgCallFails(c) PROVE OwnersInv'
  BY <1>1, <1>5, <1>8, GoesOn DEF OrgCallFails
<1>9. ASSUME NEW u \in Users, CloseAccount(u) PROVE OwnersInv'
  BY <1>1, <1>9, GoesOn DEF CloseAccount
<1>10. CASE UNCHANGED orgVars
  BY <1>1, <1>10, GoesOn DEF orgVars
<1> QED BY <1>2, <1>3, <1>4, <1>6, <1>7, <1>8, <1>9, <1>10, BeginKeeps, CommitKeeps DEF OrgNext

-----------------------------------------------------------------------------
(* What a step may not do to the owners of an organization: the action of  *)
(* OwnerKept.                                                              *)
KeepsOwner(o) ==
    ActiveOwners(o) # {} /\ ActiveOwners(o)' = {} =>
       \/ closed' # closed
       \/ \E c \in OrgCalls : /\ orgcall[c].step = "commit" /\ orgcall'[c].step = "idle"
                              /\ orgcall[c].counted \cap closed # {}

(* An owner who stays one, with an open account, is enough.                *)
LEMMA OwnerStays ==
    ASSUME NEW o \in Organizations, UNCHANGED closed,
           \A u \in Users : members[o][u] = "owner" => members'[o][u] = "owner"
    PROVE  KeepsOwner(o)
BY DEF KeepsOwner, ActiveOwners

LEMMA CommitKeepsOwner ==
    ASSUME OwnersInv, NEW c \in OrgCalls, CommitChange(c), NEW o \in Organizations
    PROVE  KeepsOwner(o)
<1> DEFINE u == orgcall[c].user
           role == orgcall[c].role
<1>1. /\ orgcall[c].org \in Organizations /\ u \in Users
      /\ orgcall[c].counted \subseteq Users
  BY DEF CommitChange, OwnersInv, Aimed, OrgTypeOK, OrgCall
<1>2. /\ \A v \in Users : members'[o][v] = IF o = orgcall[c].org /\ v = u THEN role
                                            ELSE members[o][v]
      /\ closed' = closed
  BY <1>1 DEF CommitChange, OwnersInv, OrgTypeOK
<1>3. CASE o # orgcall[c].org \/ role = "owner" \/ members[o][u] # "owner"
  BY <1>2, <1>3, OwnerStays
<1>4. CASE o = orgcall[c].org /\ role # "owner" /\ members[o][u] = "owner"
  <2>1. CASE orgcall[c].counted = {}
    <3>1. u \in closed
      BY <1>4, <2>1 DEF CommitChange, Serializable, OwnersInv, Seen
    <3> QED BY <1>2, <3>1 DEF KeepsOwner, ActiveOwners
  <2>2. CASE orgcall[c].counted # {}
    <3>1. PICK v \in orgcall[c].counted : v # u
      BY <2>2 DEF CommitChange, OwnersInv, Counts
    <3>2. members[o][v] = "owner" \/ v \in closed
      BY <1>4, <2>2, <3>1 DEF CommitChange, Serializable, OwnersInv, Counts
    <3>3. CASE v \in closed
      <4>1. orgcall[c].step = "commit" /\ orgcall'[c].step = "idle"
        BY DEF CommitChange, NoOrgCall
      <4> QED BY <3>1, <3>3, <4>1 DEF KeepsOwner
    <3>4. CASE v \notin closed
      <4>1. v \in ActiveOwners(o)'
        BY <1>1, <1>2, <3>1, <3>2, <3>4 DEF ActiveOwners
      <4> QED BY <4>1 DEF KeepsOwner
    <3> QED BY <3>3, <3>4
  <2> QED BY <2>1, <2>2
<1> QED BY <1>3, <1>4

LEMMA NextKeepsOwner == OwnersInv /\ [OrgNext]_orgVars => \A o \in Organizations : KeepsOwner(o)
<1> SUFFICES ASSUME OwnersInv, [OrgNext]_orgVars, NEW o \in Organizations PROVE KeepsOwner(o)
  OBVIOUS
<1>1. members \in [Organizations -> [Users -> Roles \cup {"none", "away"}]]
  BY DEF OwnersInv, OrgTypeOK
<1>2. ASSUME NEW p \in Organizations, NEW u \in Users, CreateOrganization(p, u)
      PROVE  KeepsOwner(o)
  BY <1>1, <1>2, OwnerStays DEF CreateOrganization
<1>3. ASSUME NEW c \in OrgCalls, InsertMember(c) PROVE KeepsOwner(o)
  BY <1>1, <1>3, OwnerStays DEF InsertMember, OwnersInv, Aimed
<1>4. ASSUME NEW u \in Users, CloseAccount(u) PROVE KeepsOwner(o)
  <2>1. CASE closed' = closed
    BY <1>4, <2>1, OwnerStays DEF CloseAccount
  <2> QED BY <2>1 DEF KeepsOwner
<1>5. CASE UNCHANGED <<members, closed>>
  BY <1>5, OwnerStays
<1>6. ASSUME NEW p \in Organizations, NEW u \in Users, NEW c \in OrgCalls,
             \/ \E role \in Roles : AddMember(c, p, u, role)
             \/ \E role \in Roles \cup {"none"} : ChangeMember(c, p, u, role)
      PROVE  KeepsOwner(o)
  BY <1>5, <1>6 DEF AddMember, ChangeMember
<1>7. ASSUME NEW c \in OrgCalls, BeginChange(c) \/ RetryChange(c) \/ OrgCallFails(c)
      PROVE  KeepsOwner(o)
  BY <1>5, <1>7 DEF BeginChange, RetryChange, OrgCallFails
<1>8. CASE UNCHANGED orgVars
  BY <1>5, <1>8 DEF orgVars
<1> QED BY <1>2, <1>3, <1>4, <1>6, <1>7, <1>8, CommitKeepsOwner DEF OrgNext

(* However many owners are demoted and removed at once, no change of       *)
(* members leaves an organization without an active owner, unless the      *)
(* account of one it had counted has been closed since.                    *)
(* features/organizations/src/render.ts updateMember, removeMember.        *)
THEOREM OwnersAreKept == ASSUME NEW C, NEW O PROVE OrgSpec(C, O) => OwnerKept
<1>1. OrgInit(C, O) => OwnersInv
  BY InitOwners
<1>2. OwnersInv /\ [OrgNext]_orgVars => [\A o \in Organizations : KeepsOwner(o)]_orgVars
  BY NextKeepsOwner
<1>3. [][\A o \in Organizations : KeepsOwner(o)]_orgVars => OwnerKept
  BY DEF OwnerKept, KeepsOwner
<1> QED BY <1>1, <1>2, <1>3, NextOwners, PTL DEF OrgSpec

-----------------------------------------------------------------------------
RecordSpec(C, O) == RecordInit(C, O) /\ [][RecordNext]_recordVars

(* The rows and requests are what they should be,                          *)
TablesOK == /\ parents \in [Parents -> Parent]
            /\ children \in [Children -> Child]
            /\ request \in [Requests -> Request]

(* a child refers to a parent of its organization,                         *)
Apart(x) == children[x] # NoChild =>
               /\ children[x].parent \in Parents
               /\ parents[children[x].parent].status # "absent"
               /\ parents[children[x].parent].org = children[x].org

(* and so does what a request is about to write, since it was validated:   *)
(* a parent is never removed for good and never changes its organization.  *)
AboutToWrite(r) == request[r].step \in {"create", "update"} =>
               /\ request[r].child \in Children
               /\ request[r].parent \in Parents
               /\ parents[request[r].parent].status # "absent"
               /\ parents[request[r].parent].org = request[r].org

TenantInv == /\ TablesOK
             /\ \A x \in Children : Apart(x)
             /\ \A r \in Requests : AboutToWrite(r)

-----------------------------------------------------------------------------
LEMMA InitApart == ASSUME NEW C, NEW O, RecordInit(C, O) PROVE TenantInv
<1>1. TablesOK
  BY DEF RecordInit, TablesOK, Parent, NoParent, Child, NoChild, Request, NoRequest
<1>2. \A x \in Children : Apart(x)
  BY DEF RecordInit, Apart
<1>3. \A r \in Requests : AboutToWrite(r)
  BY DEF RecordInit, AboutToWrite, NoRequest
<1> QED BY <1>1, <1>2, <1>3 DEF TenantInv

(* When no row changes, only the requests have to be looked at.            *)
LEMMA RowsKept ==
    ASSUME TenantInv, UNCHANGED <<parents, children>>, request' \in [Requests -> Request],
           \A r \in Requests : AboutToWrite(r)'
    PROVE  TenantInv'
BY DEF TenantInv, TablesOK, Apart

(* A request that ends is about to write nothing.                          *)
LEMMA Ended ==
    ASSUME TablesOK, NEW r \in Requests, RequestEnds(r)
    PROVE  /\ request' \in [Requests -> Request]
           /\ \A q \in Requests : \/ request'[q].step = "idle"
                                  \/ request'[q] = request[q]
BY DEF TablesOK, RequestEnds, Request, NoRequest

(* When parents only come, or go without leaving their organization, what  *)
(* referred to one still does.                                             *)
LEMMA ParentsStay ==
    ASSUME TenantInv, NEW r \in Requests, RequestEnds(r), UNCHANGED children,
           parents' \in [Parents -> Parent],
           \A p \in Parents : parents[p].status # "absent" =>
              /\ parents'[p].status # "absent"
              /\ parents'[p].org = parents[p].org
    PROVE  TenantInv'
<1>1. TablesOK'
  BY Ended DEF TenantInv, TablesOK
<1>2. ASSUME NEW x \in Children PROVE Apart(x)'
  BY DEF TenantInv, Apart
<1>3. ASSUME NEW q \in Requests PROVE AboutToWrite(q)'
  <2>1. request'[q].step = "idle" \/ request'[q] = request[q]
    BY Ended DEF TenantInv
  <2>2. CASE request'[q].step = "idle"
    BY <2>2 DEF AboutToWrite
  <2>3. CASE request'[q] = request[q]
    BY <2>3 DEF TenantInv, AboutToWrite
  <2> QED BY <2>1, <2>2, <2>3
<1> QED BY <1>1, <1>2, <1>3 DEF TenantInv

(* When one child is written and the request ends, this child is what has  *)
(* to be looked at.                                                        *)
LEMMA ChildWritten ==
    ASSUME TenantInv, NEW r \in Requests, RequestEnds(r), UNCHANGED parents,
           children' \in [Children -> Child],
           \A x \in Children : children'[x] = children[x] \/ Apart(x)'
    PROVE  TenantInv'
<1>1. TablesOK'
  BY Ended DEF TenantInv, TablesOK
<1>2. ASSUME NEW x \in Children PROVE Apart(x)'
  BY DEF TenantInv, Apart
<1>3. ASSUME NEW q \in Requests PROVE AboutToWrite(q)'
  <2>1. request'[q].step = "idle" \/ request'[q] = request[q]
    BY Ended DEF TenantInv
  <2>2. CASE request'[q].step = "idle"
    BY <2>2 DEF AboutToWrite
  <2>3. CASE request'[q] = request[q]
    BY <2>3 DEF TenantInv, AboutToWrite
  <2> QED BY <2>1, <2>2, <2>3
<1> QED BY <1>1, <1>2, <1>3 DEF TenantInv

-----------------------------------------------------------------------------
LEMMA NextApart == TenantInv /\ [RecordNext]_recordVars => TenantInv'
<1> SUFFICES ASSUME TenantInv, [RecordNext]_recordVars PROVE TenantInv'
  OBVIOUS
<1>1. CASE OrgNext /\ UNCHANGED <<parents, children, request>>
  BY <1>1 DEF TenantInv, TablesOK, Apart, AboutToWrite
<1>2. CASE UNCHANGED recordVars
  BY <1>2 DEF recordVars, TenantInv, TablesOK, Apart, AboutToWrite
<1>3. ASSUME NEW r \in Requests, NEW u \in Users, NEW o \in Organizations, Enter(r, u, o)
      PROVE  TenantInv'
  <2>1. request' \in [Requests -> Request]
    BY <1>3 DEF TenantInv, TablesOK, Enter, Request, NoRequest
  <2>2. ASSUME NEW q \in Requests PROVE AboutToWrite(q)'
    BY <1>3 DEF TenantInv, TablesOK, Enter, Request, NoRequest, AboutToWrite
  <2> QED BY <1>3, <2>1, <2>2, RowsKept DEF Enter
<1>4. ASSUME NEW r \in Requests, NEW p \in Parents, CreateParent(r, p) PROVE TenantInv'
  <2>1. parents' \in [Parents -> Parent]
    BY <1>4 DEF CreateParent, TenantInv, TablesOK, Parent, Request
  <2>2. parents[p].status = "absent"
    BY <1>4 DEF CreateParent, NoParent
  <2> QED BY <1>4, <2>1, <2>2, ParentsStay DEF CreateParent, TenantInv, TablesOK
<1>5. ASSUME NEW r \in Requests, NEW p \in Parents, RemoveParent(r, p) PROVE TenantInv'
  <2>1. parents' \in [Parents -> Parent]
    BY <1>5 DEF RemoveParent, TenantInv, TablesOK, Parent
  <2>2. \A q \in Parents : /\ parents'[q].org = parents[q].org
                           /\ parents'[q].status \in {parents[q].status, "deleted"}
    BY <1>5 DEF RemoveParent, TenantInv, TablesOK, Parent
  <2> QED BY <1>5, <2>1, <2>2, ParentsStay DEF RemoveParent
<1>6. ASSUME NEW r \in Requests, NEW x \in Children, NEW p \in Parents,
             NEW step \in {"create", "update"}, ValidateRelated(r, x, p, step)
      PROVE  TenantInv'
  <2>1. request' \in [Requests -> Request]
    <3> DEFINE written == [request[r] EXCEPT !.step = step, !.child = x, !.parent = p]
    <3>1. request[r] \in Request /\ request \in [Requests -> Request]
      BY DEF TenantInv, TablesOK
    <3>2. written \in Request
      BY <3>1, Zenon DEF Request
    <3>3. request' = [request EXCEPT ![r] = written]
      BY <1>6, <3>1 DEF ValidateRelated
    <3> QED BY <3>1, <3>2, <3>3
  <2>2. ASSUME NEW q \in Requests PROVE AboutToWrite(q)'
    <3>1. CASE q = r
      <4>1. /\ request'[r].child = x /\ request'[r].parent = p
            /\ request'[r].org = request[r].org
        BY <1>6 DEF ValidateRelated, TenantInv, TablesOK, Request
      <4>2. parents[p].status = "live" /\ parents[p].org = request[r].org
        BY <1>6 DEF ValidateRelated, SeesParent
      <4> QED BY <1>6, <3>1, <4>1, <4>2 DEF ValidateRelated, AboutToWrite
    <3>2. CASE q # r
      BY <1>6, <3>2 DEF ValidateRelated, TenantInv, TablesOK, AboutToWrite
    <3> QED BY <3>1, <3>2
  <2> QED BY <1>6, <2>1, <2>2, RowsKept DEF ValidateRelated
<1>7. ASSUME NEW r \in Requests, NEW x \in Children, RemoveChild(r, x) PROVE TenantInv'
  <2>1. children' \in [Children -> Child]
    BY <1>7 DEF RemoveChild, TenantInv, TablesOK, Child, NoChild
  <2>2. ASSUME NEW z \in Children PROVE children'[z] = children[z] \/ Apart(z)'
    BY <1>7 DEF RemoveChild, TenantInv, TablesOK, Apart
  <2> QED BY <1>7, <2>1, <2>2, ChildWritten DEF RemoveChild
<1>8. ASSUME NEW r \in Requests, CreateChild(r) PROVE TenantInv'
  <2> DEFINE c == request[r].child
  <2>1. /\ c \in Children /\ request[r].parent \in Parents
        /\ parents[request[r].parent].status # "absent"
        /\ parents[request[r].parent].org = request[r].org
        /\ request[r].org \in Organizations \cup {"-"}
    BY <1>8 DEF CreateChild, TenantInv, AboutToWrite, TablesOK, Request
  <2>2. children' \in [Children -> Child]
    BY <1>8, <2>1 DEF CreateChild, TenantInv, TablesOK, Child
  <2>3. ASSUME NEW z \in Children PROVE children'[z] = children[z] \/ Apart(z)'
    BY <1>8, <2>1 DEF CreateChild, TenantInv, TablesOK, Apart
  <2> QED BY <1>8, <2>2, <2>3, ChildWritten DEF CreateChild
<1>9. ASSUME NEW r \in Requests, UpdateChild(r) PROVE TenantInv'
  <2> DEFINE c == request[r].child
  <2>1. /\ c \in Children /\ request[r].parent \in Parents
        /\ parents[request[r].parent].status # "absent"
        /\ parents[request[r].parent].org = request[r].org
    BY <1>9 DEF UpdateChild, TenantInv, AboutToWrite
  <2>2. children' \in [Children -> Child]
    BY <1>9, <2>1 DEF UpdateChild, TenantInv, TablesOK, Child
  <2>3. ASSUME NEW z \in Children PROVE children'[z] = children[z] \/ Apart(z)'
    <3>1. CASE z = c /\ SeesChild(r, c)
      <4>1. children'[z] = [children[z] EXCEPT !.parent = request[r].parent]
        BY <1>9, <3>1 DEF UpdateChild, TenantInv, TablesOK
      <4>2. children[z] \in Child /\ children[z].org = request[r].org
        BY <3>1 DEF TenantInv, TablesOK, SeesChild
      <4>3. children'[z].parent = request[r].parent /\ children'[z].org = request[r].org
        BY <4>1, <4>2 DEF Child
      <4> QED BY <1>9, <2>1, <4>3 DEF UpdateChild, Apart
    <3>2. CASE ~(z = c /\ SeesChild(r, c))
      BY <1>9, <3>2 DEF UpdateChild, TenantInv, TablesOK
    <3> QED BY <3>1, <3>2
  <2> QED BY <1>9, <2>2, <2>3, ChildWritten DEF UpdateChild
<1>10. ASSUME NEW r \in Requests, RequestFails(r) PROVE TenantInv'
  BY <1>10, ParentsStay DEF RequestFails, TenantInv, TablesOK
<1> QED BY <1>1, <1>2, <1>3, <1>4, <1>5, <1>6, <1>7, <1>8, <1>9, <1>10 DEF RecordNext

(* Whatever requests run at once, and whoever joins, leaves and changes    *)
(* roles meanwhile, a child and the parent it refers to are of one tenant. *)
(* features/crud/src/render.ts validateRelatedRecords, scopedWhere.        *)
THEOREM TenantsStayApart ==
    ASSUME NEW C, NEW O PROVE RecordSpec(C, O) => []TenantsApart
<1>1. RecordInit(C, O) => TenantInv
  BY InitApart
<1>2. TenantInv => TenantsApart
  BY DEF TenantInv, Apart, TenantsApart
<1> QED BY <1>1, <1>2, NextApart, PTL DEF RecordSpec

-----------------------------------------------------------------------------
(* The endpoints of a table and a reader of its list, for any rows, calls  *)
(* and page size.                                                          *)
EndpointSpec(fields, rows, calls, walks) ==
    EndpointInit(fields, rows, calls, walks) /\ [][EndpointNext]_endpointVars

(* What a table, calls and a reader can be.  A field that nobody may write *)
(* can do without a value.                                                 *)
Fields == {f \in [type: FieldTypes, access: {"open", "readOnly", "internal"}, required: BOOLEAN,
                  default: BOOLEAN, unique: BOOLEAN, soft: BOOLEAN] : Writable(f) \/ MayOmit(f)}
Stored == Values \cup {"-", "default", "epoch"}
StoredRows == [state: {"free", "live", "deleted"}, value: Stored, key: SortKeys \cup {0}]
Ops == {"-", "create", "register", "patch", "get", "list", "sort", "remove"}
ApiCalls == [op: Ops, sent: Values, row: RowIds \cup {0}, step: {"new", "written", "done"},
             status: {"-", "ok", "invalid", "missing", "conflict", "internal"},
             shown: Stored, raced: BOOLEAN]
Walks == [step: {"none", "count", "rows", "done", "refused"}, by: {"short", "total"},
          sort: {"createdAt", "updatedAt"}, order: {"asc", "desc"}, page: 1 .. MaxPage,
          total: Nat, seen: SUBSET RowIds, standing: SUBSET RowIds, crossed: BOOLEAN, raced: BOOLEAN]
EndpointTypes == /\ field \in Fields /\ table \in [RowIds -> StoredRows]
                 /\ apicall \in [Callers -> ApiCalls] /\ walk \in Walks

(* The pages before this one hold what is ahead of every row the reader    *)
(* still has to see, and its count is of all the rows there are.           *)
Pages == /\ walk.standing \subseteq Alive
         /\ walk.step \in {"count", "rows"} /\ ~walk.crossed =>
               \A r \in walk.standing \ walk.seen :
                  (walk.page - 1) * PageSize <= Cardinality(Ahead(table, r))
         /\ walk.step = "rows" /\ ~walk.raced => Cardinality(Alive) <= walk.total
WalkInv == Pages /\ WalkMissesNothing

(* An answer that a call may get; and what a caller is rightly shown.      *)
Suits(call, status) ==
    LET answered == [call EXCEPT !.status = status] IN Drifts(answered) => Excused(answered)
Right(call, shown) ==
    call.op \in {"create", "register", "patch"} /\ call.sent # "absent" /\ shown # "-" =>
        \/ shown = call.sent
        \/ call.raced
        \/ field.type = "datetime" /\ call.sent = "null" /\ call.op # "register"

(* What an update has written is there to be read back, until another call *)
(* comes between.                                                          *)
Written(c) ==
    apicall[c].step = "written" =>
        /\ apicall[c].op = "patch"
        /\ ~apicall[c].raced =>
              /\ apicall[c].row \in Alive
              /\ apicall[c].sent # "absent" =>
                    table[apicall[c].row].value = toPrismaValue(apicall[c].sent)
(* The other calls are as they were, but may have learnt of a race.        *)
OthersStay(c) ==
    \A d \in Callers \ {c} :
       /\ apicall'[d].op = apicall[d].op /\ apicall'[d].sent = apicall[d].sent
       /\ apicall'[d].row = apicall[d].row /\ apicall'[d].step = apicall[d].step
       /\ apicall'[d].status = apicall[d].status /\ apicall'[d].shown = apicall[d].shown
       /\ apicall[d].raced => apicall'[d].raced

Filled == \A r \in RowIds : field.required => table[r].value # "null"

EndpointInv == /\ EndpointTypes /\ WalkInv /\ ContractKept
               /\ \A c \in Callers : Written(c)

-----------------------------------------------------------------------------
(* Arithmetic of pages.                                                    *)
LEMMA Quotient ==
    ASSUME NEW a \in Nat, NEW b \in Nat \ {0}, NEW k \in Nat, (k + 1) * b <= a
    PROVE  k < a \div b
  OBVIOUS

LEMMA Times == ASSUME NEW k \in Nat, NEW b \in Nat PROVE k * b \in Nat /\ (k + 1) * b = k * b + b
  OBVIOUS

Keyed(rows) == \A r \in RowIds : rows[r].key \in Nat

LEMMA AliveRows ==
    ASSUME EndpointTypes
    PROVE  /\ Alive \subseteq RowIds /\ IsFiniteSet(Alive) /\ Cardinality(Alive) \in Nat
           /\ Keyed(table) /\ \A r \in RowIds : r \in Nat
<1>1. Alive \in SUBSET RowIds
  BY DEF Alive
<1>2. IsFiniteSet(RowIds)
  BY EndpointAssumption
<1>3. IsFiniteSet(Alive)
  BY <1>1, <1>2, FS_Subset
<1>4. Cardinality(Alive) \in Nat
  BY <1>3, FS_CardinalityType
<1>5. ASSUME NEW r \in RowIds PROVE table[r].key \in Nat /\ r \in Nat
  <2>1. table[r] \in StoredRows
    BY DEF EndpointTypes
  <2>2. table[r].key \in SortKeys \cup {0}
    BY <2>1 DEF StoredRows
  <2>3. RowIds \subseteq Nat /\ SortKeys \subseteq Nat
    BY EndpointAssumption
  <2>4. table[r].key \in Nat
    <3>1. CASE table[r].key \in SortKeys
      BY <2>3, <3>1
    <3>2. CASE table[r].key = 0
      BY <3>2
    <3> QED BY <2>2, <3>1, <3>2
  <2> QED BY <2>3, <2>4
<1> QED BY <1>1, <1>3, <1>4, <1>5 DEF Keyed

LEMMA AheadRows ==
    ASSUME EndpointTypes, NEW rows, NEW r
    PROVE  /\ Ahead(rows, r) \subseteq Alive /\ IsFiniteSet(Ahead(rows, r))
           /\ Cardinality(Ahead(rows, r)) \in Nat
<1>1. Ahead(rows, r) \in SUBSET Alive
  BY DEF Ahead
<1>2. IsFiniteSet(Alive)
  BY AliveRows
<1>3. IsFiniteSet(Ahead(rows, r))
  BY <1>1, <1>2, FS_Subset
<1> QED BY <1>1, <1>3, FS_CardinalityType

(* The order of a list is one, whatever the keys.                          *)
LEMMA Asymmetric ==
    ASSUME EndpointTypes, NEW rows, Keyed(rows), NEW q \in RowIds, NEW r \in RowIds,
           Before(rows, q, r)
    PROVE  ~Before(rows, r, q)
<1>1. rows[q].key \in Nat /\ rows[r].key \in Nat /\ q \in Nat /\ r \in Nat
  BY AliveRows DEF Keyed
<1> QED BY <1>1 DEF Before, EndpointTypes, Walks

LEMMA Transitive ==
    ASSUME EndpointTypes, NEW rows, Keyed(rows), NEW q \in RowIds, NEW r \in RowIds,
           NEW x \in RowIds, Before(rows, q, x), Before(rows, x, r)
    PROVE  Before(rows, q, r)
<1>1. /\ rows[q].key \in Nat /\ rows[r].key \in Nat /\ rows[x].key \in Nat
      /\ q \in Nat /\ r \in Nat /\ x \in Nat
  BY AliveRows DEF Keyed
<1> QED BY <1>1 DEF Before, EndpointTypes, Walks

LEMMA Connected ==
    ASSUME EndpointTypes, NEW rows, Keyed(rows), NEW q \in RowIds, NEW r \in RowIds, q # r
    PROVE  Before(rows, q, r) \/ Before(rows, r, q)
<1>1. rows[q].key \in Nat /\ rows[r].key \in Nat /\ q \in Nat /\ r \in Nat
  BY AliveRows DEF Keyed
<1> QED BY <1>1 DEF Before, EndpointTypes, Walks

(* What is ahead of a row is ahead of what the row is ahead of.            *)
LEMMA AheadGrows ==
    ASSUME EndpointTypes, NEW rows, Keyed(rows), NEW q \in Alive, NEW r \in Alive,
           q # r, Before(rows, r, q)
    PROVE  /\ Ahead(rows, r) \subseteq Ahead(rows, q) \ {r}
           /\ Cardinality(Ahead(rows, r)) <= Cardinality(Ahead(rows, q) \ {r})
           /\ IsFiniteSet(Ahead(rows, q) \ {r}) /\ Cardinality(Ahead(rows, q) \ {r}) \in Nat
<1>1. q \in RowIds /\ r \in RowIds
  BY AliveRows
<1>2. ASSUME NEW x \in Ahead(rows, r) PROVE x \in Ahead(rows, q) \ {r}
  <2>1. x \in Alive /\ x \in RowIds /\ x # r /\ Before(rows, x, r)
    BY AliveRows DEF Ahead
  <2>2. Before(rows, x, q)
    BY <1>1, <2>1, Transitive
  <2>3. x # q
    BY <1>1, <2>1, Asymmetric
  <2> QED BY <2>1, <2>2, <2>3 DEF Ahead
<1>3. IsFiniteSet(Ahead(rows, q) \ {r})
  <2>1. IsFiniteSet(Ahead(rows, q))
    BY AheadRows
  <2> QED BY <2>1, FS_RemoveElement
<1>4. Ahead(rows, r) \in SUBSET (Ahead(rows, q) \ {r})
  BY <1>2
<1> QED BY <1>3, <1>4, FS_Subset, FS_CardinalityType

(* Each row is on the list, behind as many as are ahead of it.             *)
LEMMA OnTheList ==
    ASSUME EndpointTypes, NEW list \in orderBy, NEW r \in Alive
    PROVE  \E i \in 1 .. Cardinality(Alive) : list[i] = r /\ Cardinality(Ahead(table, r)) = i - 1
<1> DEFINE n == Cardinality(Alive)
<1>1. n \in Nat /\ IsFiniteSet(Alive) /\ Alive \subseteq RowIds
  BY AliveRows
<1>2. list \in [1 .. n -> Alive] /\ DOMAIN list = 1 .. n
  BY DEF orderBy
<1>3. \A i, j \in 1 .. n : i < j => list[i] # list[j] /\ Before(table, list[i], list[j])
  BY <1>2 DEF orderBy
<1>4. list \in Injection(1 .. n, Alive)
  <2>1. \A i, j \in 1 .. n : list[i] = list[j] => i = j
    BY <1>1, <1>3
  <2> QED BY <1>2, <2>1 DEF Injection, IsInjective
<1>5. IsFiniteSet(1 .. n) /\ Cardinality(1 .. n) = n
  BY <1>1, FS_Interval
<1>6. list \in Surjection(1 .. n, Alive)
  BY <1>1, <1>4, <1>5, FS_Injection
<1>7. PICK i \in 1 .. n : list[i] = r
  BY <1>6 DEF Surjection
<1> DEFINE first == [j \in 1 .. (i - 1) |-> list[j]]
<1>8. 1 .. (i - 1) \subseteq 1 .. n /\ i - 1 \in Nat
  BY <1>1
<1>9. \A j \in 1 .. (i - 1) : list[j] \in Ahead(table, r)
  BY <1>2, <1>3, <1>7, <1>8 DEF Ahead
<1>10. \A q \in Ahead(table, r) : \E j \in 1 .. (i - 1) : list[j] = q
  <2> SUFFICES ASSUME NEW q \in Ahead(table, r) PROVE \E j \in 1 .. (i - 1) : list[j] = q
    OBVIOUS
  <2>1. q \in Alive /\ q # r /\ Before(table, q, r)
    BY DEF Ahead
  <2>2. PICK j \in 1 .. n : list[j] = q
    BY <1>6, <2>1 DEF Surjection
  <2>3. ~(i < j)
    <3> SUFFICES ASSUME i < j PROVE FALSE
      OBVIOUS
    <3>1. Before(table, r, q)
      BY <1>3, <1>7, <2>2
    <3> QED BY <1>1, <2>1, <3>1, AliveRows, Asymmetric
  <2>4. j # i
    BY <1>7, <2>1, <2>2
  <2>5. j \in 1 .. (i - 1)
    BY <1>1, <2>3, <2>4
  <2> QED BY <2>2, <2>5
<1>11. first \in Bijection(1 .. (i - 1), Ahead(table, r))
  <2>1. first \in [1 .. (i - 1) -> Ahead(table, r)]
    BY <1>9
  <2>2. \A j, k \in 1 .. (i - 1) : first[j] = first[k] => j = k
    BY <1>1, <1>3, <1>8
  <2>3. \A q \in Ahead(table, r) : \E j \in 1 .. (i - 1) : first[j] = q
    BY <1>10
  <2> QED BY <2>1, <2>2, <2>3 DEF Bijection, Injection, IsInjective, Surjection
<1>12. IsFiniteSet(1 .. (i - 1)) /\ Cardinality(1 .. (i - 1)) = i - 1
  BY <1>8, FS_Interval
<1>13. Cardinality(Ahead(table, r)) = i - 1
  BY <1>11, <1>12, FS_Bijection DEF ExistsBijection
<1> QED BY <1>7, <1>13

-----------------------------------------------------------------------------
LEMMA TurnsPage ==
    ASSUME NEW more \in BOOLEAN, NEW max \in Nat \ {0}, NEW page \in 1 .. max, NEW next, NEW step,
           step = (IF ~more THEN "done" ELSE IF page = max THEN "refused" ELSE "count"),
           next = (IF more /\ page < max THEN page + 1 ELSE page)
    PROVE  /\ step \in {"done", "refused", "count"} /\ next \in 1 .. max
           /\ step = "count" => next - 1 = page
  OBVIOUS

LEMMA SameOrder ==
    ASSUME NEW q, NEW r, walk'.order = walk.order, table'[q].key = table[q].key,
           table'[r].key = table[r].key
    PROVE  Before(table, q, r)' <=> Before(table, q, r)
  BY DEF Before

(* A row more is ahead of some and takes nothing from what is ahead.       *)
LEMMA GrownPages ==
    ASSUME EndpointTypes, EndpointTypes', WalkInv, NEW r \in FreeIds, WalkGains,
           \A q \in RowIds \ {r} : table'[q] = table[q], table'[r].state = "live"
    PROVE  WalkInv'
<1>1. /\ walk'.step = walk.step /\ walk'.by = walk.by /\ walk'.order = walk.order
      /\ walk'.page = walk.page /\ walk'.seen = walk.seen /\ walk'.standing = walk.standing
      /\ walk'.crossed = walk.crossed /\ walk'.raced = (walk.raced \/ walk.step = "rows")
  BY DEF WalkGains, EndpointTypes, Walks
<1>2. r \in RowIds /\ r \notin Alive /\ Alive' = Alive \cup {r}
  BY DEF FreeIds, Alive
<1>7. ASSUME NEW q PROVE IsFiniteSet(Ahead(table, q)')
  <2>1. IsFiniteSet(Alive \cup {r})
    BY AliveRows, FS_AddElement
  <2>2. Ahead(table, q)' \subseteq Alive \cup {r}
    BY <1>2 DEF Ahead
  <2> QED BY <2>1, <2>2, FS_Subset
<1>3. ASSUME NEW q \in Alive PROVE Cardinality(Ahead(table, q)) <= Cardinality(Ahead(table, q))'
  <2>1. ASSUME NEW x \in Ahead(table, q) PROVE x \in Ahead(table, q)'
    <3>1. x \in Alive /\ x # q /\ Before(table, x, q) /\ x \in RowIds \ {r} /\ q \in RowIds \ {r}
      BY <1>2, AliveRows DEF Ahead
    <3>2. Before(table, x, q)'
      BY <1>1, <3>1, SameOrder
    <3> QED BY <1>2, <3>1, <3>2 DEF Ahead
  <2>2. IsFiniteSet(Ahead(table, q)')
    BY <1>7
  <2> QED BY <2>1, <2>2, FS_Subset
<1>4. ASSUME walk.step \in {"count", "rows"}, ~walk.crossed, NEW q \in walk.standing \ walk.seen
      PROVE  (walk.page - 1) * PageSize <= Cardinality(Ahead(table, q))'
  <2>1. q \in Alive /\ (walk.page - 1) * PageSize <= Cardinality(Ahead(table, q))
    BY <1>4 DEF WalkInv, Pages
  <2>2. Cardinality(Ahead(table, q)) \in Nat /\ Cardinality(Ahead(table, q))' \in Nat
    BY <1>7, AheadRows, FS_CardinalityType
  <2>3. (walk.page - 1) * PageSize \in Int
    BY EndpointAssumption DEF EndpointTypes, Walks
  <2> QED BY <1>3, <2>1, <2>2, <2>3
<1>5. Pages'
  BY <1>1, <1>2, <1>4 DEF WalkInv, Pages
<1>6. WalkMissesNothing'
  BY <1>1 DEF WalkInv, WalkMissesNothing
<1> QED BY <1>5, <1>6 DEF WalkInv

(* As long as rows keep their keys and states, everything stays.           *)
LEMMA KeptPages ==
    ASSUME EndpointTypes, WalkInv, UNCHANGED walk,
           \A q \in RowIds : table'[q].key = table[q].key /\ table'[q].state = table[q].state
    PROVE  WalkInv'
<1>1. Alive' = Alive
  BY DEF Alive
<1>2. ASSUME NEW q \in Alive PROVE Ahead(table, q)' = Ahead(table, q)
  <2>1. \A x \in Alive : Before(table, x, q)' <=> Before(table, x, q)
    BY AliveRows, SameOrder
  <2> QED BY <1>1, <2>1 DEF Ahead
<1>3. Pages'
  BY <1>1, <1>2 DEF WalkInv, Pages
<1> QED BY <1>3 DEF WalkInv, WalkMissesNothing

(* A row less: if it stood behind the pages that were read, what is ahead  *)
(* of another still fills them.                                            *)
LEMMA ShrunkPages ==
    ASSUME EndpointTypes, EndpointTypes', WalkInv, NEW r \in Alive,
           \A q \in RowIds \ {r} : table'[q] = table[q], table'[r].state # "live",
           walk' = [walk EXCEPT !.standing = @ \ {r}, !.crossed = @ \/ WasPaged(table, r)]
    PROVE  WalkInv'
<1> DEFINE skip == (walk.page - 1) * PageSize
<1>1. /\ walk'.step = walk.step /\ walk'.by = walk.by /\ walk'.order = walk.order
      /\ walk'.page = walk.page /\ walk'.total = walk.total /\ walk'.seen = walk.seen
      /\ walk'.standing = walk.standing \ {r} /\ walk'.raced = walk.raced
      /\ walk'.crossed = (walk.crossed \/ Cardinality(Ahead(table, r)) < skip)
  BY DEF EndpointTypes, Walks, WasPaged
<1>2. r \in RowIds /\ Alive' = Alive \ {r} /\ IsFiniteSet(Alive)
  BY AliveRows DEF Alive
<1>3. skip \in Int
  BY EndpointAssumption DEF EndpointTypes, Walks
<1>4. ASSUME NEW q \in Alive \ {r} PROVE Ahead(table, q)' = Ahead(table, q) \ {r}
  <2>1. \A x \in Alive \ {r} : Before(table, x, q)' <=> Before(table, x, q)
    BY <1>1, AliveRows, SameOrder
  <2> QED BY <1>2, <2>1 DEF Ahead
<1>5. ASSUME walk.step \in {"count", "rows"}, ~walk'.crossed,
             NEW q \in walk.standing \ walk.seen, q # r
      PROVE  skip <= Cardinality(Ahead(table, q))'
  <2>1. q \in Alive \ {r} /\ q \in RowIds /\ skip <= Cardinality(Ahead(table, q)) /\ ~walk.crossed
    BY <1>1, <1>5, AliveRows DEF WalkInv, Pages
  <2>2. /\ Ahead(table, q)' = Ahead(table, q) \ {r}
        /\ IsFiniteSet(Ahead(table, q)) /\ Cardinality(Ahead(table, q)) \in Nat
    BY <1>4, <2>1, AheadRows
  <2>3. CASE r \notin Ahead(table, q)
    <3>1. Ahead(table, q)' = Ahead(table, q)
      BY <2>2, <2>3
    <3> QED BY <2>1, <3>1
  <2>4. CASE r \in Ahead(table, q)
    <3>1. Before(table, r, q) /\ ~(Cardinality(Ahead(table, r)) < skip)
      BY <1>1, <1>5, <2>4 DEF Ahead
    <3>2. /\ Cardinality(Ahead(table, r)) <= Cardinality(Ahead(table, q) \ {r})
          /\ Cardinality(Ahead(table, q) \ {r}) \in Nat
      BY <2>1, <3>1, AliveRows, AheadGrows
    <3>3. Cardinality(Ahead(table, r)) \in Nat
      BY AheadRows
    <3> QED BY <1>3, <2>2, <3>1, <3>2, <3>3
  <2> QED BY <2>3, <2>4
<1>6. /\ Cardinality(Alive)' \in Nat /\ Cardinality(Alive) \in Nat
      /\ Cardinality(Alive)' <= Cardinality(Alive)
  <2>1. Cardinality(Alive) \in Nat
    BY <1>2, FS_CardinalityType
  <2>2. IsFiniteSet(Alive \ {r}) /\ Cardinality(Alive \ {r}) = Cardinality(Alive) - 1
    BY <1>2, FS_RemoveElement
  <2>3. Cardinality(Alive \ {r}) \in Nat
    BY <2>2, FS_CardinalityType
  <2> QED BY <1>2, <2>1, <2>2, <2>3
<1>7. walk.total \in Nat
  BY DEF EndpointTypes, Walks
<1>8. Pages'
  <2>1. walk'.standing \subseteq Alive'
    BY <1>1, <1>2 DEF WalkInv, Pages
  <2>2. walk'.step = "rows" /\ ~walk'.raced => Cardinality(Alive)' <= walk'.total
    BY <1>1, <1>6, <1>7 DEF WalkInv, Pages
  <2> QED BY <1>1, <1>5, <2>1, <2>2 DEF Pages
<1>9. WalkMissesNothing'
  BY <1>1 DEF WalkInv, WalkMissesNothing
<1> QED BY <1>8, <1>9 DEF WalkInv

(* A row that moves, and stays on the pages that were read or behind them: *)
(* whether it passes another or is passed, enough is ahead of the other.   *)
LEMMA MovedPages ==
    ASSUME EndpointTypes, EndpointTypes', WalkInv, NEW r \in Alive,
           \A q \in RowIds \ {r} : table'[q] = table[q], table'[r].state = "live",
           walk' = [walk EXCEPT !.crossed = @ \/ WasPaged(table, r) # WasPaged(table', r)]
    PROVE  WalkInv'
<1> DEFINE skip == (walk.page - 1) * PageSize
<1>1. /\ walk'.step = walk.step /\ walk'.by = walk.by /\ walk'.order = walk.order
      /\ walk'.page = walk.page /\ walk'.total = walk.total /\ walk'.seen = walk.seen
      /\ walk'.standing = walk.standing /\ walk'.raced = walk.raced
      /\ walk'.crossed = (walk.crossed \/ WasPaged(table, r) # WasPaged(table', r))
  BY DEF EndpointTypes, Walks
<1>2. r \in RowIds /\ Alive' = Alive /\ Alive \subseteq RowIds
  BY DEF Alive
<1>3. skip \in Int
  BY EndpointAssumption DEF EndpointTypes, Walks
<1>4. Keyed(table) /\ Keyed(table')
  <2>1. \A q \in RowIds : table'[q].key \in SortKeys \cup {0}
    BY DEF EndpointTypes, StoredRows
  <2> QED BY <2>1, AliveRows, EndpointAssumption DEF Keyed
<1>5. ASSUME NEW q PROVE Ahead(table, q)' = Ahead(table', q)
  BY <1>1, <1>2 DEF Ahead, Before
<1>6. ASSUME NEW q \in Alive \ {r}, NEW x, x # r
      PROVE  x \in Ahead(table', q) <=> x \in Ahead(table, q)
  <2>1. table'[q] = table[q] /\ (x \in Alive => table'[x] = table[x])
    BY <1>2, <1>6
  <2> QED BY <2>1 DEF Ahead, Before
<1>7. ASSUME walk.step \in {"count", "rows"}, ~walk'.crossed, NEW q \in walk.standing \ walk.seen
      PROVE  skip <= Cardinality(Ahead(table', q))
  <2> DEFINE A == Ahead(table, q)
             B == Ahead(table', q)
  <2>1. q \in Alive /\ q \in RowIds /\ skip <= Cardinality(A)
    BY <1>1, <1>2, <1>7 DEF WalkInv, Pages
  <2>2. Cardinality(Ahead(table, r)) < skip <=> Cardinality(Ahead(table', r)) < skip
    BY <1>1, <1>7 DEF WasPaged
  <2>3. /\ IsFiniteSet(A) /\ Cardinality(A) \in Nat
        /\ IsFiniteSet(B) /\ Cardinality(B) \in Nat
        /\ Cardinality(Ahead(table, r)) \in Nat
        /\ IsFiniteSet(Ahead(table', r)) /\ Cardinality(Ahead(table', r)) \in Nat
    BY AheadRows
  <2>4. CASE q = r
    BY <1>3, <2>1, <2>2, <2>3, <2>4
  <2>5. CASE q # r /\ (r \in A => r \in B)
    <3>1. \A x \in A : x \in B
      BY <1>6, <2>1, <2>5
    <3>2. A \in SUBSET B
      BY <3>1
    <3>3. Cardinality(A) <= Cardinality(B)
      BY <2>3, <3>2, FS_Subset
    <3> HIDE DEF skip
    <3> QED BY <1>3, <2>1, <2>3, <3>3
  <2>6. CASE q # r /\ r \in A /\ r \notin B
    <3>1. B = A \ {r}
      BY <1>6, <2>1, <2>6
    <3>2. Cardinality(B) = Cardinality(A) - 1
      BY <2>3, <2>6, <3>1, FS_RemoveElement
    <3>3. CASE ~(Cardinality(Ahead(table, r)) < skip)
      <4>1. Before(table, r, q)
        BY <2>6 DEF Ahead
      <4>2. Cardinality(Ahead(table, r)) <= Cardinality(B)
        BY <1>4, <2>1, <2>6, <3>1, <4>1, AheadGrows
      <4> HIDE DEF skip
      <4> QED BY <1>3, <2>3, <3>3, <4>2
    <3>4. CASE Cardinality(Ahead(table', r)) < skip
      <4>1. Before(table', q, r)
        <5>1. ~Before(table', r, q)
          BY <2>6 DEF Ahead
        <5> QED BY <1>2, <1>4, <2>1, <2>6, <5>1, Connected
      <4>2. /\ Cardinality(B) <= Cardinality(Ahead(table', r) \ {q})
            /\ Cardinality(Ahead(table', r) \ {q}) \in Nat
        BY <1>4, <2>1, <2>6, <4>1, AheadGrows
      <4>3. q \in Ahead(table', r)
        BY <2>1, <2>6, <4>1 DEF Ahead
      <4>4. Cardinality(Ahead(table', r) \ {q}) = Cardinality(Ahead(table', r)) - 1
        BY <2>3, <4>3, FS_RemoveElement
      <4> HIDE DEF skip
      <4> QED BY <1>3, <2>1, <2>3, <3>2, <3>4, <4>2, <4>4
    <3> QED BY <2>2, <3>3, <3>4
  <2> QED BY <2>4, <2>5, <2>6
<1>8. Pages'
  <2>1. Cardinality(Alive)' = Cardinality(Alive)
    BY <1>2
  <2> QED BY <1>1, <1>2, <1>5, <1>7, <2>1 DEF WalkInv, Pages
<1>9. WalkMissesNothing'
  BY <1>1 DEF WalkInv, WalkMissesNothing
<1> QED BY <1>8, <1>9 DEF WalkInv

LEMMA CountPages == ASSUME EndpointTypes, WalkInv, CountRows PROVE EndpointTypes' /\ WalkInv'
<1>1. /\ walk.step = "count" /\ walk'.step = "rows" /\ walk'.order = walk.order
      /\ walk'.page = walk.page /\ walk'.total = Cardinality(Alive) /\ walk'.seen = walk.seen
      /\ walk'.standing = walk.standing /\ walk'.crossed = walk.crossed
      /\ UNCHANGED <<field, table, apicall>>
  BY DEF CountRows, EndpointTypes, Walks
<1>2. Cardinality(Alive) \in Nat
  BY AliveRows
<1>3. EndpointTypes'
  BY <1>2 DEF CountRows, EndpointTypes, Walks
<1>4. Alive' = Alive /\ \A q : Ahead(table, q)' = Ahead(table, q)
  BY <1>1 DEF Alive, Ahead, Before
<1>5. Pages'
  BY <1>1, <1>2, <1>4 DEF WalkInv, Pages
<1> QED BY <1>1, <1>3, <1>5 DEF WalkInv, WalkMissesNothing

(* A page has whom as many are ahead of as were before it, and leaves out  *)
(* only whom as many are ahead of as it holds with them; and whoever ends  *)
(* with it has seen the end of the list.                                   *)
LEMMA ReadPages == ASSUME EndpointTypes, WalkInv, FindMany PROVE EndpointTypes' /\ WalkInv'
<1> DEFINE n == Cardinality(Alive)
           last == walk.page * PageSize
<1>1. PICK list \in orderBy :
         LET rows == {list[i] : i \in {i \in DOMAIN list : last - PageSize < i /\ i <= last}}
         IN  walk' = [walk EXCEPT
                 !.seen = @ \cup rows,
                 !.step = IF ~Continues(rows) THEN "done"
                          ELSE IF walk.page = MaxPage THEN "refused" ELSE "count",
                 !.page = IF Continues(rows) /\ walk.page < MaxPage THEN @ + 1 ELSE @]
  BY DEF FindMany
<1> DEFINE rows == {list[i] : i \in {i \in DOMAIN list : last - PageSize < i /\ i <= last}}
<1>2. walk.step = "rows" /\ UNCHANGED <<field, table, apicall>>
  BY DEF FindMany
<1>3. n \in Nat /\ Alive \subseteq RowIds
  BY AliveRows
<1>4. list \in [1 .. n -> Alive] /\ DOMAIN list = 1 .. n
      /\ \A i, j \in 1 .. n : i < j => list[i] # list[j]
  BY DEF orderBy
<1>5. /\ walk.page \in Nat \ {0} /\ PageSize \in Nat \ {0} /\ MaxPage \in Nat \ {0}
      /\ last \in Nat /\ last - PageSize \in Nat /\ last - PageSize = (walk.page - 1) * PageSize
  <2>1. walk.page \in Nat \ {0} /\ PageSize \in Nat \ {0} /\ MaxPage \in Nat \ {0}
    BY EndpointAssumption DEF EndpointTypes, Walks
  <2>2. PICK k \in Nat : k + 1 = walk.page
    BY <2>1
  <2>3. last = k * PageSize + PageSize /\ k * PageSize \in Nat
    BY <2>1, <2>2, Times
  <2> QED BY <2>1, <2>2, <2>3
<1>6. rows \subseteq Alive
  BY <1>4
<1>7. /\ walk'.seen = walk.seen \cup rows /\ walk'.by = walk.by /\ walk'.order = walk.order
      /\ walk'.standing = walk.standing /\ walk'.crossed = walk.crossed /\ walk'.raced = walk.raced
      /\ walk'.step = (IF ~Continues(rows) THEN "done"
                       ELSE IF walk.page = MaxPage THEN "refused" ELSE "count")
      /\ walk'.page = (IF Continues(rows) /\ walk.page < MaxPage THEN walk.page + 1 ELSE walk.page)
  BY <1>1 DEF EndpointTypes, Walks
<1>13. /\ walk'.step \in {"done", "refused", "count"} /\ walk'.page \in 1 .. MaxPage
       /\ walk'.step = "count" => walk'.page - 1 = walk.page
  <2>1. walk.page \in 1 .. MaxPage
    BY DEF EndpointTypes, Walks
  <2>2. Continues(rows) \in BOOLEAN
    BY DEF Continues
  <2> HIDE DEF rows
  <2> QED BY <1>5, <1>7, <2>1, <2>2, TurnsPage
<1>8. EndpointTypes'
  <2>1. walk'.step \in {"done", "refused", "count"} /\ walk'.page \in 1 .. MaxPage
    BY <1>13
  <2>2. walk.seen \cup rows \in SUBSET RowIds
    BY <1>3, <1>6 DEF EndpointTypes, Walks
  <2>3. walk' \in Walks
    <3> DEFINE step == IF ~Continues(rows) THEN "done"
                       ELSE IF walk.page = MaxPage THEN "refused" ELSE "count"
               page == IF Continues(rows) /\ walk.page < MaxPage THEN walk.page + 1 ELSE walk.page
               seen == walk.seen \cup rows
    <3>1. walk' = [walk EXCEPT !.seen = seen, !.step = step, !.page = page]
      BY <1>1
    <3>2. step \in {"done", "refused", "count"} /\ page \in 1 .. MaxPage /\ seen \in SUBSET RowIds
      BY <1>7, <2>1, <2>2
    <3> HIDE DEF step, page, seen
    <3> QED BY <3>1, <3>2 DEF EndpointTypes, Walks
  <2> QED BY <1>2, <2>3 DEF EndpointTypes
<1>9. Alive' = Alive /\ \A q : Ahead(table, q)' = Ahead(table, q)
  BY <1>2, <1>7 DEF Alive, Ahead, Before
<1>10. ASSUME ~walk.crossed, NEW r \in walk.standing \ (walk.seen \cup rows)
       PROVE  last <= Cardinality(Ahead(table, r)) /\ last < n
  <2>1. r \in Alive /\ last - PageSize <= Cardinality(Ahead(table, r))
    BY <1>2, <1>5, <1>10 DEF WalkInv, Pages
  <2>2. PICK i \in 1 .. n : list[i] = r /\ Cardinality(Ahead(table, r)) = i - 1
    BY <2>1, OnTheList
  <2>3. last - PageSize < i
    BY <1>5, <2>1, <2>2
  <2>4. ~(i <= last)
    BY <1>4, <1>10, <2>2, <2>3
  <2> QED BY <1>3, <1>5, <2>2, <2>4
<1>11. Pages'
  <2>1. walk'.step # "rows"
    BY <1>13
  <2>3. walk'.step \in {"count", "rows"} => (walk'.page - 1) * PageSize = last
    BY <1>13
  <2>4. walk'.standing \subseteq Alive'
    BY <1>7, <1>9 DEF WalkInv, Pages
  <2>5. walk'.step \in {"count", "rows"} /\ ~walk'.crossed =>
           \A r \in walk'.standing \ walk'.seen :
              (walk'.page - 1) * PageSize <= Cardinality(Ahead(table, r))'
    BY <1>7, <1>9, <1>10, <2>3
  <2> QED BY <2>1, <2>4, <2>5 DEF Pages
<1>12. WalkMissesNothing'
  <2> SUFFICES ASSUME ~Continues(rows), ~walk.crossed, ~(walk.by = "total" /\ walk.raced),
                      NEW r \in walk.standing \ (walk.seen \cup rows)
               PROVE  FALSE
    BY <1>7 DEF WalkMissesNothing
  <2>1. last < n
    BY <1>10
  <2>2. CASE walk.by = "short"
    <3> DEFINE at == (last - PageSize + 1) .. last
               page == [i \in at |-> list[i]]
    <3>1. at \subseteq 1 .. n /\ {i \in DOMAIN list : last - PageSize < i /\ i <= last} = at
      BY <1>3, <1>4, <1>5, <2>1
    <3>2. page \in Bijection(at, rows)
      <4>1. page \in [at -> rows]
        BY <3>1
      <4>2. \A i, j \in at : page[i] = page[j] => i = j
        BY <1>3, <1>4, <1>5, <3>1
      <4>3. \A x \in rows : \E i \in at : page[i] = x
        BY <3>1
      <4> QED BY <4>1, <4>2, <4>3 DEF Bijection, Injection, IsInjective, Surjection
    <3>3. IsFiniteSet(at) /\ Cardinality(at) = PageSize
      <4>1. last - PageSize + 1 \in Int /\ last \in Int /\ ~(last - PageSize + 1 > last)
            /\ last - (last - PageSize + 1) + 1 = PageSize
        BY <1>5
      <4> HIDE DEF last
      <4> QED BY <4>1, FS_Interval
    <3>4. Cardinality(rows) = PageSize
      BY <3>2, <3>3, FS_Bijection DEF ExistsBijection
    <3> QED BY <2>2, <3>4 DEF Continues
  <2>3. CASE walk.by = "total"
    <3>1. n <= walk.total /\ walk.total \in Nat
      BY <1>2, <2>3 DEF WalkInv, Pages, EndpointTypes, Walks
    <3>2. walk.page < (walk.total + PageSize - 1) \div PageSize
      <4>1. walk.page * PageSize + 1 <= walk.total
        BY <1>3, <1>5, <2>1, <3>1
      <4>2. (walk.page + 1) * PageSize <= walk.total + PageSize - 1
        <5>1. (walk.page + 1) * PageSize = last + PageSize
          BY <1>5
        <5> QED BY <1>5, <3>1, <4>1, <5>1
      <4> DEFINE upTo == walk.total + PageSize - 1
      <4>3. upTo \in Nat /\ (walk.page + 1) * PageSize <= upTo /\ walk.page \in Nat
        BY <1>5, <3>1, <4>2
      <4> HIDE DEF upTo
      <4>4. walk.page < upTo \div PageSize
        BY <1>5, <4>3, Quotient
      <4> QED BY <4>4 DEF upTo
    <3> QED BY <2>3, <3>2 DEF Continues, totalPages
  <2> QED BY <2>2, <2>3 DEF EndpointTypes, Walks
<1> QED BY <1>8, <1>11, <1>12 DEF WalkInv

-----------------------------------------------------------------------------
(* What the client lets a caller send, the server takes, and so does the   *)
(* column if it can.                                                       *)
LEMMA TypedIsTaken ==
    ASSUME EndpointTypes, NEW c \in Callers, Typed(apicall[c].op, apicall[c].sent),
           apicall[c].sent # "outside"
    PROVE  LET op == apicall[c].op
               sent == apicall[c].sent
           IN  /\ op = "create" => /\ CreateDto(field, sent)
                                   /\ Fits(toPrismaValue(sent)) \/ sent = "unstorable"
               /\ op = "register" =>
                     /\ \/ RegisterDto(field, sent)
                        \/ sent = "absent" /\ field.required /\ field.default
                     /\ \/ Fits(Raw(sent)) \/ sent = "unstorable"
                        \/ sent = "day" /\ field.type = "datetime"
               /\ op = "patch" => /\ UpdateDto(field, sent)
                                  /\ Fits(toPrismaValue(sent)) \/ sent = "unstorable"
               /\ op = "list" => QueryDto(field, sent)
               /\ op = "sort" => sortable(field)
<1> DEFINE op == apicall[c].op
           sent == apicall[c].sent
<1>1. sent \in Values /\ field \in Fields /\ sent # "outside" /\ Typed(op, sent)
  BY DEF EndpointTypes, ApiCalls
<1>2. OfType(field, sent) => sent \in {"v1", "v2", "day", "unstorable"}
  BY <1>1 DEF OfType, Good
<1>3. ASSUME op = "create"
      PROVE  CreateDto(field, sent) /\ (Fits(toPrismaValue(sent)) \/ sent = "unstorable")
  <2>1. CreateInput(field, sent)
    BY <1>1, <1>3 DEF Typed
  <2> QED BY <1>1, <1>2, <2>1 DEF CreateInput, CreateDto, Validates, Good, Fits, toPrismaValue
<1>4. ASSUME op = "register"
      PROVE  /\ RegisterDto(field, sent) \/ (sent = "absent" /\ field.required /\ field.default)
             /\ \/ Fits(Raw(sent)) \/ sent = "unstorable"
                \/ sent = "day" /\ field.type = "datetime"
  <2>1. RegisterInput(field, sent)
    BY <1>1, <1>4 DEF Typed
  <2>2. field.required \in BOOLEAN /\ field.default \in BOOLEAN
    BY <1>1 DEF Fields
  <2> QED BY <1>1, <1>2, <2>1, <2>2 DEF RegisterInput, RegisterDto, MayOmit, Validates, Good, Fits,
                                         Raw
<1>5. ASSUME op = "patch"
      PROVE  UpdateDto(field, sent) /\ (Fits(toPrismaValue(sent)) \/ sent = "unstorable")
  <2>1. UpdateInput(field, sent)
    BY <1>1, <1>5 DEF Typed
  <2> QED BY <1>1, <1>2, <2>1 DEF UpdateInput, UpdateDto, Validates, Good, Fits, toPrismaValue
<1>6. ASSUME op = "list" PROVE QueryDto(field, sent)
  <2>1. QueryParams(field, sent)
    BY <1>1, <1>6 DEF Typed
  <2> QED BY <1>1, <1>2, <2>1 DEF QueryParams, QueryDto, Validates, Good, clientFilters, filterable
<1>7. ASSUME op = "sort" PROVE sortable(field)
  BY <1>1, <1>7 DEF Typed, clientSorts, sortable
<1> QED BY <1>3, <1>4, <1>5, <1>6, <1>7

(* So a call is refused as malformed, or fails, only where it is excused.  *)
LEMMA OnlyExcused ==
    ASSUME EndpointTypes, NEW c \in Callers
    PROVE  LET op == apicall[c].op
               sent == apicall[c].sent
           IN  /\ op = "create" => /\ ~CreateDto(field, sent) => Suits(apicall[c], "invalid")
                                   /\ ~Fits(toPrismaValue(sent)) => Suits(apicall[c], "internal")
               /\ op = "register" => /\ ~RegisterDto(field, sent) => Suits(apicall[c], "invalid")
                                     /\ ~Fits(Raw(sent)) => Suits(apicall[c], "internal")
               /\ op = "patch" => /\ ~UpdateDto(field, sent) => Suits(apicall[c], "invalid")
                                  /\ ~Fits(toPrismaValue(sent)) => Suits(apicall[c], "internal")
               /\ op = "list" => /\ ~QueryDto(field, sent) => Suits(apicall[c], "invalid")
                                 /\ sent = "unstorable" => Suits(apicall[c], "internal")
               /\ op = "sort" /\ ~sortable(field) => Suits(apicall[c], "invalid")
               /\ Suits(apicall[c], "missing") /\ Suits(apicall[c], "conflict")
<1> DEFINE op == apicall[c].op
           sent == apicall[c].sent
<1>1. apicall[c] \in ApiCalls
  BY DEF EndpointTypes
<1>2. ASSUME NEW status
      PROVE  Suits(apicall[c], status) <=>
                (/\ Typed(op, sent) /\ sent # "outside" /\ status \in {"invalid", "internal"}
                 => \/ /\ op = "register" /\ sent = "absent" /\ status = "invalid"
                       /\ field.required /\ field.default
                    \/ /\ op = "register" /\ sent = "day" /\ status = "internal"
                       /\ field.type = "datetime"
                    \/ sent = "unstorable" /\ status = "internal")
  BY <1>1 DEF Suits, Drifts, Excused, ApiCalls
<1>3. Suits(apicall[c], "missing") /\ Suits(apicall[c], "conflict")
  BY <1>2
<1>4. CASE ~(Typed(op, sent) /\ sent # "outside")
  BY <1>2, <1>3, <1>4
<1>5. CASE Typed(op, sent) /\ sent # "outside"
  BY <1>2, <1>3, <1>5, TypedIsTaken
<1> QED BY <1>4, <1>5

(* A call that goes on, while the others at most learn of a race.          *)
LEMMA ContractStays ==
    ASSUME EndpointTypes, ContractKept, UNCHANGED field, Filled', NEW c \in Callers,
           OthersStay(c),
           apicall'[c].step = "done" /\ apicall'[c].status # "ok" => (Drifts(apicall[c]) => Excused(apicall[c]))',
           apicall'[c].step = "done" /\ apicall'[c].status = "ok" =>
              Right(apicall[c], apicall[c].shown)'
    PROVE  ContractKept'
<1>1. TypedIsServed'
  <2> SUFFICES ASSUME NEW d \in Callers, Answered(d)', Drifts(apicall[d])'
               PROVE  Excused(apicall[d])'
    BY DEF TypedIsServed
  <2>1. CASE d = c
    BY <2>1 DEF Answered, Drifts
  <2>2. CASE d # c
    <3>1. Answered(d) /\ Drifts(apicall[d])
      BY <2>2 DEF Answered, Drifts, Typed, OthersStay
    <3>2. Excused(apicall[d])
      BY <3>1 DEF ContractKept, TypedIsServed
    <3> QED BY <2>2, <3>2 DEF Excused, OthersStay
  <2> QED BY <2>1, <2>2
<1>3. AppliedAsSent'
  <2>1. toResponseValue(field)' = outputType(field)'
    BY DEF ContractKept, AppliedAsSent, toResponseValue, outputType, modelType
  <2> SUFFICES ASSUME NEW d \in Callers, Answered(d)', apicall'[d].status = "ok",
                      apicall'[d].shown # "-", apicall'[d].sent # "absent",
                      apicall'[d].op \in {"create", "register", "patch"}
               PROVE  \/ apicall'[d].shown = apicall'[d].sent
                      \/ apicall'[d].raced
                      \/ /\ field'.type = "datetime" /\ apicall'[d].sent = "null"
                         /\ apicall'[d].op # "register"
    BY <2>1 DEF AppliedAsSent, Filled
  <2>2. CASE d = c
    BY <2>2 DEF Right, Answered
  <2>3. CASE d # c
    BY <2>3 DEF ContractKept, AppliedAsSent, Answered, OthersStay
  <2> QED BY <2>2, <2>3
<1> QED BY <1>1, <1>3 DEF ContractKept

LEMMA RefusedKeeps ==
    ASSUME EndpointInv, NEW c \in Callers, UNCHANGED field,
           NEW status \in {"invalid", "missing", "conflict", "internal"}, Refuses(c, status),
           Suits(apicall[c], status)
    PROVE  EndpointInv'
<1>1. UNCHANGED <<table, walk>>
      /\ apicall' = [apicall EXCEPT ![c].step = "done", ![c].status = status]
  BY DEF Refuses
<1>2. apicall[c].shown \in Stored
  BY DEF EndpointInv, EndpointTypes, ApiCalls
<1>3. /\ apicall' \in [Callers -> ApiCalls]
      /\ \A d \in Callers \ {c} : apicall'[d] = apicall[d]
      /\ apicall'[c].op = apicall[c].op /\ apicall'[c].sent = apicall[c].sent
      /\ apicall'[c].step = "done" /\ apicall'[c].status = status
  BY <1>1, <1>2 DEF EndpointInv, EndpointTypes, ApiCalls
<1>4. EndpointTypes'
  BY <1>1, <1>3 DEF EndpointInv, EndpointTypes
<1>5. WalkInv'
  BY <1>1, KeptPages DEF EndpointInv
<1>6. (Drifts(apicall[c]) => Excused(apicall[c]))'
  <2>1. apicall'[c] = [apicall[c] EXCEPT !.step = "done", !.status = status]
    BY <1>1 DEF EndpointInv, EndpointTypes
  <2>2. apicall[c] \in ApiCalls
    BY DEF EndpointInv, EndpointTypes
  <2> QED BY <2>1, <2>2 DEF Suits, Drifts, Excused, Typed, ApiCalls
<1>7. ContractKept'
  BY <1>1, <1>3, <1>6, ContractStays DEF EndpointInv, ContractKept, AppliedAsSent, Filled, OthersStay
<1>8. ASSUME NEW d \in Callers PROVE Written(d)'
  BY <1>1, <1>3 DEF EndpointInv, Written, Alive, toPrismaValue
<1> QED BY <1>4, <1>5, <1>7, <1>8 DEF EndpointInv

LEMMA AnsweredKeeps ==
    ASSUME EndpointInv, NEW c \in Callers, NEW shown \in Stored, Answers200(c, shown),
           UNCHANGED <<field, table, walk>>, Right(apicall[c], shown)
    PROVE  EndpointInv'
<1>1. apicall' = [apicall EXCEPT ![c].step = "done", ![c].status = "ok", ![c].shown = shown]
  BY DEF Answers200
<1>3. /\ apicall' \in [Callers -> ApiCalls]
      /\ \A d \in Callers \ {c} : apicall'[d] = apicall[d]
      /\ apicall'[c].op = apicall[c].op /\ apicall'[c].sent = apicall[c].sent
      /\ apicall'[c].step = "done" /\ apicall'[c].status = "ok" /\ apicall'[c].shown = shown
      /\ apicall'[c].raced = apicall[c].raced
  <2> DEFINE answered == [apicall[c] EXCEPT !.step = "done", !.status = "ok", !.shown = shown]
  <2>1. apicall \in [Callers -> ApiCalls] /\ apicall[c] \in ApiCalls
    BY DEF EndpointInv, EndpointTypes
  <2>2. /\ answered \in ApiCalls /\ answered.op = apicall[c].op /\ answered.sent = apicall[c].sent
        /\ answered.step = "done" /\ answered.status = "ok" /\ answered.shown = shown
        /\ answered.raced = apicall[c].raced
    BY <2>1 DEF ApiCalls
  <2>3. apicall' = [apicall EXCEPT ![c] = answered]
    BY <1>1
  <2> HIDE DEF answered
  <2> QED BY <2>1, <2>2, <2>3
<1>4. EndpointTypes'
  BY <1>3 DEF EndpointInv, EndpointTypes
<1>5. WalkInv'
  BY KeptPages DEF EndpointInv
<1>6. Right(apicall[c], apicall[c].shown)'
  BY <1>3 DEF Right
<1>7. ContractKept'
  BY <1>3, <1>6, ContractStays DEF EndpointInv, ContractKept, AppliedAsSent, Filled, OthersStay
<1>8. ASSUME NEW d \in Callers PROVE Written(d)'
  BY <1>3 DEF EndpointInv, Written, Alive, toPrismaValue
<1> QED BY <1>4, <1>5, <1>7, <1>8 DEF EndpointInv

(* A row comes in, and nobody that writes another one is disturbed.        *)
LEMMA InsertKeeps ==
    ASSUME EndpointInv, NEW c \in Callers, NEW value \in Stored, Insert(c, value), UNCHANGED field,
           ~Fits(value) => Suits(apicall[c], "internal"), Suits(apicall[c], "conflict"),
           Fits(value) /\ field.required => Column(value, Initially) # "null",
           Fits(value) => Right(apicall[c], Shown(Column(value, Initially)))
    PROVE  EndpointInv'
<1> DEFINE kept == Column(value, Initially)
<1>1. CASE ~Fits(value) /\ Refuses(c, "internal")
  BY <1>1, RefusedKeeps
<1>2. CASE Fits(value) /\ Refuses(c, "conflict")
  BY <1>2, RefusedKeeps
<1>3. ASSUME Fits(value), NEW r \in FreeIds, NEW k \in SortKeys,
             table' = [table EXCEPT ![r] = [state |-> "live", value |-> kept, key |-> k]],
             Answers200(c, Shown(kept)), WalkGains
      PROVE  EndpointInv'
  <2>1. kept \in Stored /\ Shown(kept) \in Stored
    BY DEF Column, Initially, Shown, Stored, Values
  <2>2. /\ apicall' \in [Callers -> ApiCalls]
        /\ \A d \in Callers \ {c} : apicall'[d] = apicall[d]
        /\ apicall'[c].op = apicall[c].op /\ apicall'[c].sent = apicall[c].sent
        /\ apicall'[c].step = "done" /\ apicall'[c].status = "ok" /\ apicall'[c].shown = Shown(kept)
        /\ apicall'[c].raced = apicall[c].raced
    <3> DEFINE shown    == Shown(kept)
               answered == [apicall[c] EXCEPT !.step = "done", !.status = "ok", !.shown = shown]
    <3>1. apicall \in [Callers -> ApiCalls] /\ apicall[c] \in ApiCalls
      BY DEF EndpointInv, EndpointTypes
    <3>2. shown \in Stored
      BY <2>1
    <3>3. apicall' = [apicall EXCEPT ![c] = answered]
      BY <1>3 DEF Answers200
    <3> HIDE DEF shown
    <3>4. /\ answered \in ApiCalls /\ answered.op = apicall[c].op
          /\ answered.sent = apicall[c].sent
          /\ answered.step = "done" /\ answered.status = "ok" /\ answered.shown = shown
          /\ answered.raced = apicall[c].raced
      BY <3>1, <3>2 DEF ApiCalls
    <3> HIDE DEF answered
    <3> QED BY <3>1, <3>3, <3>4 DEF shown
  <2>3. r \in RowIds /\ r \notin Alive /\ table \in [RowIds -> StoredRows]
    BY DEF FreeIds, Alive, EndpointInv, EndpointTypes
  <2>4. /\ table' \in [RowIds -> StoredRows] /\ table'[r].state = "live" /\ table'[r].value = kept
        /\ \A q \in RowIds \ {r} : table'[q] = table[q]
    BY <1>3, <2>1, <2>3 DEF StoredRows
  <2>5. walk' \in Walks
    BY <1>3 DEF WalkGains, EndpointInv, EndpointTypes, Walks
  <2>6. EndpointTypes'
    BY <2>2, <2>4, <2>5 DEF EndpointInv, EndpointTypes
  <2>7. WalkInv'
    BY <1>3, <2>4, <2>6, GrownPages DEF EndpointInv
  <2>8. Right(apicall[c], apicall[c].shown)'
    BY <1>3, <2>2 DEF Right
  <2>9. Filled'
    BY <1>3, <2>3, <2>4 DEF Filled, EndpointInv, ContractKept, AppliedAsSent
  <2>10. ContractKept'
    BY <2>2, <2>8, <2>9, ContractStays DEF EndpointInv, OthersStay
  <2>11. ASSUME NEW d \in Callers PROVE Written(d)'
    BY <2>2, <2>3, <2>4 DEF EndpointInv, Written, Alive, toPrismaValue
  <2> QED BY <2>6, <2>7, <2>10, <2>11 DEF EndpointInv
<1> QED BY <1>1, <1>2, <1>3 DEF Insert

LEMMA RacesType ==
    ASSUME EndpointTypes, NEW c \in Callers, NEW r,
           \/ apicall' = [RacesWith(c, r) EXCEPT ![c].step = "written"]
           \/ apicall' = [RacesWith(c, r) EXCEPT ![c].step = "done", ![c].status = "ok"]
    PROVE  /\ apicall' \in [Callers -> ApiCalls]
           /\ OthersStay(c)
           /\ \A d \in Callers \ {c} :
                 apicall[d].step = "written" /\ apicall[d].row = r => apicall'[d].raced
           /\ apicall'[c].op = apicall[c].op /\ apicall'[c].sent = apicall[c].sent
           /\ apicall'[c].row = apicall[c].row /\ apicall'[c].raced = apicall[c].raced
           /\ apicall'[c].shown = apicall[c].shown
<1> DEFINE before == RacesWith(c, r)
<1>1. \A d \in Callers : apicall[d] \in ApiCalls /\ [apicall[d] EXCEPT !.raced = TRUE] \in ApiCalls
  BY DEF EndpointTypes, ApiCalls
<1>2. /\ before \in [Callers -> ApiCalls] /\ before[c] = apicall[c]
      /\ \A d \in Callers \ {c} :
            before[d] = IF apicall[d].step = "written" /\ apicall[d].row = r
                        THEN [apicall[d] EXCEPT !.raced = TRUE] ELSE apicall[d]
  BY <1>1 DEF RacesWith
<1>3. \/ apicall' = [before EXCEPT ![c].step = "written"]
      \/ apicall' = [before EXCEPT ![c].step = "done", ![c].status = "ok"]
  OBVIOUS
<1> HIDE DEF before
<1>4. apicall' \in [Callers -> ApiCalls] /\ \A d \in Callers \ {c} : apicall'[d] = before[d]
  BY <1>2, <1>3 DEF ApiCalls
<1>5. /\ apicall'[c].op = apicall[c].op /\ apicall'[c].sent = apicall[c].sent
      /\ apicall'[c].row = apicall[c].row /\ apicall'[c].raced = apicall[c].raced
      /\ apicall'[c].shown = apicall[c].shown
  BY <1>1, <1>2, <1>3 DEF ApiCalls
<1>6. ASSUME NEW d \in Callers \ {c}
      PROVE  /\ before[d].op = apicall[d].op /\ before[d].sent = apicall[d].sent
             /\ before[d].row = apicall[d].row /\ before[d].step = apicall[d].step
             /\ before[d].status = apicall[d].status /\ before[d].shown = apicall[d].shown
             /\ apicall[d].raced => before[d].raced
             /\ apicall[d].step = "written" /\ apicall[d].row = r => before[d].raced
  BY <1>1, <1>2 DEF ApiCalls
<1> QED BY <1>4, <1>5, <1>6 DEF OthersStay

LEMMA UpdateKeeps ==
    ASSUME EndpointInv, NEW c \in Callers, UpdateRow(c), UNCHANGED field PROVE EndpointInv'
<1> DEFINE sent == apicall[c].sent
           r == apicall[c].row
           value == toPrismaValue(sent)
<1>1. apicall[c].op = "patch" /\ apicall[c].step = "new" /\ sent \in Values
  BY DEF UpdateRow, Begins, EndpointInv, EndpointTypes, ApiCalls
<1>2. /\ ~UpdateDto(field, sent) => Suits(apicall[c], "invalid")
      /\ ~Fits(value) => Suits(apicall[c], "internal")
      /\ Suits(apicall[c], "missing") /\ Suits(apicall[c], "conflict")
  BY <1>1, OnlyExcused DEF EndpointInv
<1>3. ASSUME Fits(value), r \in Alive, NEW k \in NewKeys(r),
             table' = [table EXCEPT ![r].value = Column(value, @), ![r].key = k],
             walk' = [walk EXCEPT !.crossed = @ \/ WasPaged(table, r) # WasPaged(table', r)],
             apicall' = [RacesWith(c, r) EXCEPT ![c].step = "written"]
      PROVE  EndpointInv'
  <2>1. value \in Stored /\ r \in RowIds /\ table[r] \in StoredRows
    BY <1>1, <1>3 DEF toPrismaValue, Stored, Alive, EndpointInv, EndpointTypes
  <2>2. Column(value, table[r].value) \in Stored /\ k \in SortKeys \cup {0}
    BY <1>3, <2>1 DEF Column, StoredRows, NewKeys
  <2>3. /\ table' \in [RowIds -> StoredRows] /\ \A q \in RowIds \ {r} : table'[q] = table[q]
        /\ table'[r].value = Column(value, table[r].value)
        /\ table'[r].state = table[r].state
    <3> DEFINE kept == Column(value, table[r].value)
    <3>1. table' = [table EXCEPT ![r] = [@ EXCEPT !.value = kept, !.key = k]]
      BY <1>3, <2>1 DEF EndpointInv, EndpointTypes
    <3>2. kept \in Stored
      BY <2>2
    <3> HIDE DEF kept
    <3>3. /\ [table[r] EXCEPT !.value = kept, !.key = k] \in StoredRows
          /\ [table[r] EXCEPT !.value = kept, !.key = k].value = kept
          /\ [table[r] EXCEPT !.value = kept, !.key = k].state = table[r].state
      BY <2>1, <2>2, <3>2 DEF StoredRows
    <3>4. /\ table' \in [RowIds -> StoredRows] /\ \A q \in RowIds \ {r} : table'[q] = table[q]
          /\ table'[r] = [table[r] EXCEPT !.value = kept, !.key = k]
      BY <2>1, <3>1, <3>3 DEF EndpointInv, EndpointTypes
    <3> QED BY <3>3, <3>4 DEF kept
  <2>4. apicall'[c].step = "written"
    BY <1>3 DEF RacesWith, EndpointInv, EndpointTypes, ApiCalls
  <2>5. /\ apicall' \in [Callers -> ApiCalls]
        /\ OthersStay(c)
        /\ \A d \in Callers \ {c} :
              apicall[d].step = "written" /\ apicall[d].row = r => apicall'[d].raced
        /\ apicall'[c].op = apicall[c].op /\ apicall'[c].sent = apicall[c].sent
        /\ apicall'[c].row = apicall[c].row
    BY <1>3, RacesType DEF EndpointInv
  <2>6. EndpointTypes'
    <3>1. walk' \in Walks
      BY <1>3 DEF EndpointInv, EndpointTypes, Walks, WasPaged
    <3> QED BY <2>3, <2>5, <3>1 DEF EndpointInv, EndpointTypes
  <2>7. WalkInv'
    <3>1. table'[r].state = "live"
      BY <1>3, <2>3 DEF Alive
    <3>2. \A q \in RowIds \ {r} : table'[q] = table[q]
      BY <2>3
    <3> HIDE DEF r
    <3> QED BY <1>3, <2>6, <3>1, <3>2, MovedPages DEF EndpointInv
  <2>8. Filled'
    <3>1. Filled
      BY DEF EndpointInv, ContractKept, AppliedAsSent, Filled
    <3> QED BY <1>3, <2>1, <2>3, <3>1 DEF Filled, Fits, Column
  <2>9. ContractKept'
    BY <2>4, <2>5, <2>8, ContractStays DEF EndpointInv
  <2>10. Alive' = Alive
    BY <2>3 DEF Alive
  <2>11. ASSUME NEW d \in Callers PROVE Written(d)'
    <3>1. CASE d = c
      BY <1>1, <1>3, <2>3, <2>4, <2>5, <2>10, <3>1 DEF Written, Column, toPrismaValue
    <3>2. CASE d # c
      <4>1. Written(d)
        BY DEF EndpointInv
      <4>2. apicall[d].row \in Alive => apicall[d].row \in RowIds
        BY DEF Alive
      <4> QED BY <2>3, <2>5, <2>10, <3>2, <4>1, <4>2 DEF Written, toPrismaValue, OthersStay
    <3> QED BY <3>1, <3>2
  <2> QED BY <2>6, <2>7, <2>9, <2>11 DEF EndpointInv
<1>4. CASE ~UpdateDto(field, sent) /\ Refuses(c, "invalid")
  BY <1>2, <1>4, RefusedKeeps
<1>5. CASE ~Fits(value) /\ Refuses(c, "internal")
  BY <1>2, <1>5, RefusedKeeps
<1>6. CASE Refuses(c, "missing") \/ Refuses(c, "conflict")
  BY <1>2, <1>6, RefusedKeeps
<1> QED BY <1>3, <1>4, <1>5, <1>6 DEF UpdateRow

LEMMA RemoveKeeps ==
    ASSUME EndpointInv, NEW c \in Callers, RemoveRow(c), UNCHANGED field PROVE EndpointInv'
<1> DEFINE r == apicall[c].row
           left == IF field.soft THEN [table[r] EXCEPT !.state = "deleted"] ELSE NoTableRow
<1>1. apicall[c].op = "remove" /\ apicall[c].step = "new"
  BY DEF RemoveRow, Begins
<1>2. CASE Refuses(c, "missing")
  BY <1>2, OnlyExcused, RefusedKeeps DEF EndpointInv
<1>3. CASE /\ r \in Alive /\ table' = [table EXCEPT ![r] = left]
           /\ apicall' = [RacesWith(c, r) EXCEPT ![c].step = "done", ![c].status = "ok"]
           /\ walk' = [walk EXCEPT !.standing = @ \ {r},
                        !.crossed = @ \/ WasPaged(table, r)]
  <2>1. r \in RowIds /\ table[r] \in StoredRows /\ table \in [RowIds -> StoredRows]
    BY <1>3 DEF Alive, EndpointInv, EndpointTypes
  <2>2. left \in StoredRows /\ left.state # "live" /\ left.value \in {table[r].value, "-"}
    BY <2>1 DEF NoTableRow, StoredRows, Stored
  <2>3. /\ table' \in [RowIds -> StoredRows] /\ \A q \in RowIds \ {r} : table'[q] = table[q]
        /\ table'[r] = left
    BY <1>3, <2>1, <2>2
  <2>5. /\ apicall' \in [Callers -> ApiCalls]
        /\ OthersStay(c)
        /\ \A d \in Callers \ {c} :
              apicall[d].step = "written" /\ apicall[d].row = r => apicall'[d].raced
        /\ apicall'[c].op = apicall[c].op
    BY <1>3, RacesType DEF EndpointInv
  <2>4. apicall'[c].step = "done" /\ apicall'[c].status = "ok"
    BY <1>3 DEF RacesWith, EndpointInv, EndpointTypes, ApiCalls
  <2>6. walk' \in Walks
    BY <1>3 DEF EndpointInv, EndpointTypes, Walks
  <2>7. EndpointTypes'
    BY <2>3, <2>5, <2>6 DEF EndpointInv, EndpointTypes
  <2>8. WalkInv'
    <3>1. table'[r].state # "live"
      BY <2>2, <2>3
    <3>2. walk' = [walk EXCEPT !.standing = @ \ {r},
                      !.crossed = @ \/ WasPaged(table, r)]
      BY <1>3
    <3> HIDE DEF r
    <3> QED BY <1>3, <2>3, <2>7, <3>1, <3>2, ShrunkPages DEF EndpointInv
  <2>9. Filled'
    <3>1. Filled
      BY DEF EndpointInv, ContractKept, AppliedAsSent, Filled
    <3> HIDE DEF left
    <3> QED BY <2>1, <2>2, <2>3, <3>1 DEF Filled
  <2>10. ContractKept'
    <3>1. Right(apicall[c], apicall[c].shown)'
      BY <1>1, <2>5 DEF Right
    <3> QED BY <2>4, <2>5, <2>9, <3>1, ContractStays DEF EndpointInv
  <2>11. ASSUME NEW d \in Callers PROVE Written(d)'
    <3>1. CASE d = c
      BY <2>4, <3>1 DEF Written
    <3>2. CASE d # c
      <4>1. Written(d)
        BY DEF EndpointInv
      <4>2. apicall[d].row \in Alive /\ apicall[d].row # r =>
               apicall[d].row \in Alive' /\ table'[apicall[d].row] = table[apicall[d].row]
        BY <2>3 DEF Alive
      <4> QED BY <2>5, <3>2, <4>1, <4>2 DEF Written, toPrismaValue, OthersStay
    <3> QED BY <3>1, <3>2
  <2> QED BY <2>7, <2>8, <2>10, <2>11 DEF EndpointInv
<1> QED BY <1>2, <1>3 DEF RemoveRow

LEMMA CreateKeeps ==
    ASSUME EndpointInv, NEW c \in Callers, CreateRow(c), UNCHANGED field PROVE EndpointInv'
<1> DEFINE sent == apicall[c].sent
           value == toPrismaValue(sent)
<1>1. apicall[c].op = "create" /\ sent \in Values /\ field \in Fields
  BY DEF CreateRow, Begins, EndpointInv, EndpointTypes, ApiCalls
<1>2. /\ ~CreateDto(field, sent) => Suits(apicall[c], "invalid")
      /\ ~Fits(value) => Suits(apicall[c], "internal")
      /\ Suits(apicall[c], "conflict")
  BY <1>1, OnlyExcused DEF EndpointInv
<1>3. CASE CreateDto(field, sent) /\ Insert(c, value)
  <2>1. value \in Stored
    BY <1>1 DEF toPrismaValue, Stored
  <2>2. Fits(value) /\ field.required => Column(value, Initially) # "null"
    BY <1>1, <1>3 DEF toPrismaValue, Fits, Column, Initially, CreateDto, Validates, Fields, MayOmit,
                      Good
  <2>3. Right(apicall[c], Shown(Column(value, Initially)))
    BY <1>1 DEF Right, Shown, Column, toPrismaValue
  <2> QED BY <1>2, <1>3, <2>1, <2>2, <2>3, InsertKeeps
<1>4. CASE ~CreateDto(field, sent) /\ Refuses(c, "invalid")
  BY <1>2, <1>4, RefusedKeeps
<1> QED BY <1>3, <1>4 DEF CreateRow

LEMMA RegisterKeeps ==
    ASSUME EndpointInv, NEW c \in Callers, RegisterRow(c), UNCHANGED field PROVE EndpointInv'
<1> DEFINE sent == apicall[c].sent
           value == Raw(sent)
<1>1. apicall[c].op = "register" /\ sent \in Values /\ field \in Fields
  BY DEF RegisterRow, Begins, EndpointInv, EndpointTypes, ApiCalls
<1>2. /\ ~RegisterDto(field, sent) => Suits(apicall[c], "invalid")
      /\ ~Fits(value) => Suits(apicall[c], "internal")
      /\ Suits(apicall[c], "conflict")
  BY <1>1, OnlyExcused DEF EndpointInv
<1>3. CASE RegisterDto(field, sent) /\ Insert(c, value)
  <2>1. value \in Stored
    BY <1>1 DEF Raw, Stored, Values
  <2>2. Fits(value) /\ field.required => Column(value, Initially) # "null"
    BY <1>1, <1>3 DEF Raw, Fits, Column, Initially, RegisterDto, Validates, Fields, MayOmit, Good
  <2>3. Fits(value) => Right(apicall[c], Shown(Column(value, Initially)))
    BY <1>1 DEF Right, Shown, Column, Raw, Fits
  <2> QED BY <1>2, <1>3, <2>1, <2>2, <2>3, InsertKeeps
<1>4. CASE ~RegisterDto(field, sent) /\ Refuses(c, "invalid")
  BY <1>2, <1>4, RefusedKeeps
<1> QED BY <1>3, <1>4 DEF RegisterRow

LEMMA ReadsKeep ==
    ASSUME EndpointInv, NEW c \in Callers, FindOne(c) \/ FilterRows(c) \/ SortRows(c),
           UNCHANGED field
    PROVE  EndpointInv'
<1> DEFINE sent == apicall[c].sent
           r == apicall[c].row
<1>1. CASE FindOne(c)
  <2>1. CASE r \in Alive /\ Answers200(c, Shown(table[r].value)) /\ UNCHANGED <<table, walk>>
    <3>1. Shown(table[r].value) \in Stored
      BY <2>1 DEF Shown, Stored, Alive, EndpointInv, EndpointTypes, StoredRows
    <3>2. Right(apicall[c], Shown(table[r].value))
      BY <1>1 DEF FindOne, Begins, EndpointInv, Written, Right, Shown, toPrismaValue
    <3> QED BY <2>1, <3>1, <3>2, AnsweredKeeps
  <2>2. CASE Refuses(c, "missing")
    BY <2>2, OnlyExcused, RefusedKeeps DEF EndpointInv
  <2> QED BY <1>1, <2>1, <2>2 DEF FindOne
<1>2. CASE FilterRows(c)
  <2>1. apicall[c].op = "list"
    BY <1>2 DEF FilterRows, Begins
  <2>2. /\ ~QueryDto(field, sent) => Suits(apicall[c], "invalid")
        /\ sent = "unstorable" => Suits(apicall[c], "internal")
    BY <2>1, OnlyExcused DEF EndpointInv
  <2>3. Right(apicall[c], "-") /\ "-" \in Stored
    BY DEF Right, Stored
  <2> QED BY <1>2, <2>2, <2>3, AnsweredKeeps, RefusedKeeps DEF FilterRows
<1>3. CASE SortRows(c)
  <2>1. apicall[c].op = "sort"
    BY <1>3 DEF SortRows, Begins
  <2>2. ~sortable(field) => Suits(apicall[c], "invalid")
    BY <2>1, OnlyExcused DEF EndpointInv
  <2>3. Right(apicall[c], "-") /\ "-" \in Stored
    BY DEF Right, Stored
  <2> QED BY <1>3, <2>2, <2>3, AnsweredKeeps, RefusedKeeps DEF SortRows
<1> QED BY <1>1, <1>2, <1>3

LEMMA WalkKeeps == ASSUME EndpointInv, CountRows \/ FindMany PROVE EndpointInv'
<1>1. EndpointTypes' /\ WalkInv'
  BY CountPages, ReadPages DEF EndpointInv
<1>2. UNCHANGED <<field, table, apicall>>
  BY DEF CountRows, FindMany
<1>3. ContractKept'
  BY <1>2 DEF EndpointInv, ContractKept, TypedIsServed, Drifts, Excused, AppliedAsSent, Answered,
              Typed, toResponseValue, outputType, modelType
<1>4. ASSUME NEW d \in Callers PROVE Written(d)'
  BY <1>2 DEF EndpointInv, Written, Alive, toPrismaValue
<1> QED BY <1>1, <1>3, <1>4 DEF EndpointInv

LEMMA NextEndpoints == EndpointInv /\ [EndpointNext]_endpointVars => EndpointInv'
<1> SUFFICES ASSUME EndpointInv, [EndpointNext]_endpointVars PROVE EndpointInv'
  OBVIOUS
<1>1. ASSUME NEW c \in Callers, Serve(c), UNCHANGED field PROVE EndpointInv'
  BY <1>1, CreateKeeps, RegisterKeeps, UpdateKeeps, RemoveKeeps, ReadsKeep DEF Serve
<1>2. CASE CountRows \/ FindMany
  BY <1>2, WalkKeeps
<1>3. CASE UNCHANGED endpointVars
  <2>1. UNCHANGED <<field, table, apicall, walk>>
    BY <1>3 DEF endpointVars
  <2>2. EndpointTypes'
    BY <2>1 DEF EndpointInv, EndpointTypes
  <2>3. WalkInv'
    BY <2>1, KeptPages DEF EndpointInv
  <2>4. ContractKept'
    BY <2>1 DEF EndpointInv, ContractKept, TypedIsServed, Drifts, Excused, AppliedAsSent, Answered,
                Typed, toResponseValue, outputType, modelType
  <2>5. ASSUME NEW d \in Callers PROVE Written(d)'
    BY <2>1 DEF EndpointInv, Written, Alive, toPrismaValue
  <2> QED BY <2>2, <2>3, <2>4, <2>5 DEF EndpointInv
<1> QED BY <1>1, <1>2, <1>3 DEF EndpointNext

CallsMade == [Callers -> {NoApiCall} \cup {ApiCall(op, sent, row) : op \in Ops, sent \in Values,
                                                                row \in RowIds \cup {0}}]
Readers == {NoWalk} \cup {Walk(by, sort, order, standing) : by \in {"short", "total"},
                            sort \in {"createdAt", "updatedAt"}, order \in {"asc", "desc"},
                            standing \in SUBSET RowIds}

(* Where calls and readers begin.                                          *)
LEMMA CallTypes == ASSUME NEW calls \in CallsMade, NEW c \in Callers
                   PROVE  calls[c] \in ApiCalls /\ (calls[c].step = "new" \/ calls[c] = NoApiCall)
<1>1. \A op \in Ops, sent \in Values, row \in RowIds \cup {0} :
         ApiCall(op, sent, row) \in ApiCalls /\ ApiCall(op, sent, row).step = "new"
  BY DEF ApiCall, ApiCalls, Stored
<1>2. NoApiCall \in ApiCalls
  <2>1. ApiCall("-", "absent", 0) \in ApiCalls
    BY <1>1 DEF Ops, Values
  <2> QED BY <2>1 DEF NoApiCall, ApiCalls
<1>3. calls[c] \in {NoApiCall} \cup {ApiCall(op, sent, row) : op \in Ops, sent \in Values,
                                                        row \in RowIds \cup {0}}
  BY DEF CallsMade
<1> QED BY <1>1, <1>2, <1>3

LEMMA WalkTypes == ASSUME NEW w \in Readers
                   PROVE  w \in Walks /\ w.page = 1 /\ w.step \in {"none", "count"}
<1>1. ASSUME NEW by \in {"short", "total"}, NEW sort \in {"createdAt", "updatedAt"},
             NEW order \in {"asc", "desc"}, NEW standing \in SUBSET RowIds
      PROVE  LET read == Walk(by, sort, order, standing)
             IN  read \in Walks /\ read.page = 1 /\ read.step = "count"
  BY EndpointAssumption DEF Walk, Walks
<1>2. NoWalk \in Walks /\ NoWalk.page = 1 /\ NoWalk.step = "none"
  <2> DEFINE none == Walk("short", "createdAt", "asc", {})
  <2>1. none \in Walks /\ none.page = 1
    BY <1>1
  <2> HIDE DEF none
  <2> QED BY <2>1 DEF NoWalk, none, Walks
<1> QED BY <1>1, <1>2 DEF Readers

LEMMA InitEndpoints ==
    ASSUME NEW fields, NEW rows, NEW calls, NEW walks, EndpointInit(fields, rows, calls, walks),
           fields \subseteq Fields, rows \subseteq [RowIds -> StoredRows], calls \subseteq CallsMade,
           walks \subseteq Readers,
           \A f \in fields, t \in rows : f.required => \A r \in RowIds : t[r].value # "null",
           \A t \in rows, w \in walks : \A r \in w.standing : t[r].state = "live"
    PROVE  EndpointInv
<1>1. /\ field \in fields /\ field \in Fields /\ table \in rows /\ table \in [RowIds -> StoredRows]
      /\ apicall \in calls /\ apicall \in CallsMade /\ walk \in walks /\ walk \in Readers
  BY DEF EndpointInit
<1>2. walk \in Walks /\ walk.page = 1 /\ walk.step \in {"none", "count"}
  BY <1>1, WalkTypes
<1>3. \A c \in Callers :
         apicall[c] \in ApiCalls /\ (apicall[c].step = "new" \/ apicall[c] = NoApiCall)
  BY <1>1, CallTypes
<1>4. EndpointTypes
  BY <1>1, <1>2, <1>3 DEF EndpointTypes, CallsMade
<1>5. walk.standing \subseteq RowIds
  BY <1>2 DEF Walks
<1>6. WalkInv
  <2>1. (walk.page - 1) * PageSize = 0
    BY <1>2, EndpointAssumption
  <2>2. \A r : 0 <= Cardinality(Ahead(table, r))
    BY <1>4, AheadRows
  <2>3. walk.standing \subseteq Alive
    BY <1>1, <1>5 DEF Alive
  <2> QED BY <1>2, <2>1, <2>2, <2>3 DEF WalkInv, Pages, WalkMissesNothing
<1>7. \A c \in Callers : ~Answered(c) /\ Written(c)
  <2>1. NoApiCall.op = "-" /\ NoApiCall.step = "done"
    BY DEF NoApiCall, ApiCall
  <2> QED BY <1>3, <2>1 DEF Answered, Written
<1>8. ContractKept
  <2>1. \A r \in RowIds : field.required => table[r].value # "null"
    BY <1>1
  <2>2. toResponseValue(field) = outputType(field)
    BY <1>1 DEF toResponseValue, outputType, modelType, Fields, FieldTypes
  <2> QED BY <1>7, <2>1, <2>2 DEF ContractKept, TypedIsServed, AppliedAsSent
<1> QED BY <1>4, <1>6, <1>7, <1>8 DEF EndpointInv

(* What a walk and a contract are about: any declarations, tables that     *)
(* have a value in every required column, and readers of rows they have.   *)
Plausible(fields, rows, calls, walks) ==
    /\ fields \subseteq Fields /\ rows \subseteq [RowIds -> StoredRows]
    /\ calls \subseteq CallsMade /\ walks \subseteq Readers
    /\ \A f \in fields, t \in rows : f.required => \A r \in RowIds : t[r].value # "null"
    /\ \A t \in rows, w \in walks : \A r \in w.standing : t[r].state = "live"

LEMMA AlwaysEndpoints ==
    ASSUME NEW fields, NEW rows, NEW calls, NEW walks, Plausible(fields, rows, calls, walks)
    PROVE  EndpointSpec(fields, rows, calls, walks) => []EndpointInv
<1>1. EndpointInit(fields, rows, calls, walks) => EndpointInv
  BY InitEndpoints DEF Plausible
<1> QED BY <1>1, NextEndpoints, PTL DEF EndpointSpec

(* A reader that walks the pages of a list, of any table in either order,  *)
(* to a short one misses no row that stood all the time, whoever creates,  *)
(* updates and removes meanwhile, unless a row was removed from the pages  *)
(* it had read, or an update of what the list is sorted by moved one from  *)
(* or to them; and so does one that believes totalPages, unless a row came *)
(* between the count and the rows of its last page.                        *)
(* features/crud/src/render.ts update, remove, findMany, orderBy.          *)
THEOREM PagesMissNothing ==
    ASSUME NEW fields, NEW rows, NEW calls, NEW walks, Plausible(fields, rows, calls, walks)
    PROVE  EndpointSpec(fields, rows, calls, walks) => []WalkMissesNothing
<1>1. EndpointInv => WalkMissesNothing
  BY DEF EndpointInv, WalkInv
<1> QED BY <1>1, AlwaysEndpoints, PTL

(* However a field is declared and whatever callers send at once: what the *)
(* types of the client admit is served, and what is shown is what was      *)
(* sent, but for a registration without a required field that has a        *)
(* default or with a date without a time, a value that does not fit the    *)
(* column, which is an internal error, and null in a date.                 *)
(* targets/nestjs-prisma/src/client.ts, features/crud/src/render.ts.       *)
THEOREM EndpointsKeepContract ==
    ASSUME NEW fields, NEW rows, NEW calls, NEW walks, Plausible(fields, rows, calls, walks)
    PROVE  EndpointSpec(fields, rows, calls, walks) => []ContractKept
<1>1. EndpointInv => ContractKept
  BY DEF EndpointInv
<1> QED BY <1>1, AlwaysEndpoints, PTL
=============================================================================
