------------------------- MODULE ReservationsProofs -------------------------
(***************************************************************************)
(* Theorems about Reservations, for any requests, jobs, intervals, sizes   *)
(* of a sweep and number of disturbances: its type invariant, that no slot *)
(* is reserved twice, that the events of a reservation tell its life, and  *)
(* that the answers to a key name one reservation.                         *)
(*                                                                         *)
(* The argument.  A row comes to be HELD only in Commit, long after Check  *)
(* found its interval free.  What holds meanwhile is CheckedIsFree: the    *)
(* interval of a request that is checked is still free, and it shares no   *)
(* slot with that of another such request.  Every other change of a row    *)
(* can only free its interval.                                             *)
(***************************************************************************)
EXTENDS Reservations, SequenceTheorems, TLAPS

Checked(c) == c \in Requests /\ call[c].step = "checked"

(* Between the check of the constraint and the commit.                     *)
CheckedIsFree ==
    \A c \in Requests : Checked(c) =>
        /\ ~Taken(call[c].interval)
        /\ \A d \in Requests \ {c} : Checked(d) =>
              call[c].interval \cap call[d].interval = {}

Exclusion == NoOverlap /\ CheckedIsFree

Events == {"created", "confirmed", "cancelled", "expired"}

Typed == TypeOK /\ outbox \in [Requests -> Seq(Events)]

IInv == Typed /\ Exclusion /\ EventsTellLife

-----------------------------------------------------------------------------
(* A step may occupy no slot, and may let no request pass the check.       *)
OccupiesNothing ==
    \A r \in Requests : rows'[r].status \in Active =>
        rows[r].status \in Active /\ rows'[r].interval = rows[r].interval

ChecksNothing ==
    \A c \in Requests : Checked(c)' =>
        Checked(c) /\ call'[c].interval = call[c].interval

(* Then bookings still exclude each other.                                 *)
LEMMA StillExcludes ==
    ASSUME Exclusion, OccupiesNothing, ChecksNothing
    PROVE  Exclusion'
<1>1. NoOverlap'
  BY DEF Exclusion, NoOverlap, OccupiesNothing
<1>2. CheckedIsFree'
  <2> SUFFICES ASSUME NEW c \in Requests, Checked(c)'
               PROVE  /\ ~Taken(call[c].interval)'
                      /\ \A d \in Requests \ {c} : Checked(d)' =>
                            call'[c].interval \cap call'[d].interval = {}
    BY DEF CheckedIsFree
  <2>1. Checked(c) /\ call'[c].interval = call[c].interval
    BY DEF ChecksNothing
  <2>2. ~Taken(call[c].interval)'
    BY <2>1 DEF Exclusion, CheckedIsFree, Taken, OccupiesNothing
  <2>3. ASSUME NEW d \in Requests \ {c}, Checked(d)'
        PROVE  call'[c].interval \cap call'[d].interval = {}
    <3>1. Checked(d) /\ call'[d].interval = call[d].interval
      BY <2>3 DEF ChecksNothing
    <3>2. QED
      BY <2>1, <3>1 DEF Exclusion, CheckedIsFree
  <2>4. QED
    BY <2>2, <2>3
<1>3. QED
  BY <1>1, <1>2 DEF Exclusion

(* A step of c that leaves the rows alone and does not check c.            *)
LEMMA StepsAside ==
    ASSUME NEW c \in Requests \cup Jobs, NEW s, s \in Call, s.step # "checked",
           Typed, call' = [call EXCEPT ![c] = s]
    PROVE  ChecksNothing /\ call' \in [Requests \cup Jobs -> Call]
<1>1. call \in [Requests \cup Jobs -> Call]
  BY DEF Typed, TypeOK
<1>2. \A d \in Requests : call'[d] = IF d = c THEN s ELSE call[d]
  BY <1>1
<1>3. ChecksNothing
  BY <1>2 DEF ChecksNothing, Checked
<1>4. QED
  BY <1>1, <1>3

(* What a request or a job goes through without changing a row.            *)
LEMMA MovesOn ==
    ASSUME NEW c \in Requests \cup Jobs, NEW s, s \in Call, s.step # "checked",
           IInv, call' = [call EXCEPT ![c] = s], UNCHANGED <<rows, outbox>>,
           disturbances' \in 0 .. MaxDisturbances
    PROVE  IInv'
<1>1. ChecksNothing /\ call' \in [Requests \cup Jobs -> Call]
  BY StepsAside DEF IInv
<1>2. OccupiesNothing
  BY DEF OccupiesNothing
<1>3. Exclusion'
  BY <1>1, <1>2, StillExcludes DEF IInv
<1>4. Typed'
  BY <1>1 DEF IInv, Typed, TypeOK
<1>5. EventsTellLife'
  BY DEF IInv, EventsTellLife
<1>6. QED
  BY <1>3, <1>4, <1>5 DEF IInv

-----------------------------------------------------------------------------
(* A change of status with its event, of rows that may take it.            *)
LegalChange(changed, status, event) ==
    \A r \in Requests \cap changed :
        \/ /\ rows[r].status = "HELD"
           /\ <<status, event>> \in {<<"CONFIRMED", "confirmed">>, <<"EXPIRED", "expired">>,
                                   <<"CANCELLED", "cancelled">>}
        \/ /\ rows[r].status = "CONFIRMED"
           /\ status = "CANCELLED" /\ event = "cancelled"

LEMMA AppendOne ==
    ASSUME NEW S, NEW x \in S, NEW y \in S
    PROVE  Append(<<x>>, y) = <<x, y>>
<1> DEFINE s == Append(<<x>>, y)
           t == <<x, y>>
<1>1. <<x>> \in Seq(S) /\ Len(<<x>>) = 1 /\ <<x>>[1] = x
  OBVIOUS
<1>2. t \in Seq(S) /\ Len(t) = 2 /\ t[1] = x /\ t[2] = y
  OBVIOUS
<1>3. s \in Seq(S) /\ Len(s) = 2 /\ s[1] = x /\ s[2] = y
  BY <1>1
<1> HIDE DEF s, t
<1>4. \A i \in 1 .. Len(s) : s[i] = t[i]
  BY <1>2, <1>3
<1>5. s = t
  BY <1>2, <1>3, <1>4, SeqEqual
<1>6. QED
  BY <1>5 DEF s, t

LEMMA AppendTwo ==
    ASSUME NEW S, NEW x \in S, NEW y \in S, NEW z \in S
    PROVE  Append(<<x, y>>, z) = <<x, y, z>>
<1> DEFINE s == Append(<<x, y>>, z)
           t == <<x, y, z>>
<1>1. <<x, y>> \in Seq(S) /\ Len(<<x, y>>) = 2 /\ <<x, y>>[1] = x /\ <<x, y>>[2] = y
  OBVIOUS
<1>2. t \in Seq(S) /\ Len(t) = 3 /\ t[1] = x /\ t[2] = y /\ t[3] = z
  OBVIOUS
<1>3. s \in Seq(S) /\ Len(s) = 3 /\ s[1] = x /\ s[2] = y /\ s[3] = z
  BY <1>1
<1> HIDE DEF s, t
<1>4. \A i \in 1 .. Len(s) : s[i] = t[i]
  BY <1>2, <1>3
<1>5. s = t
  BY <1>2, <1>3, <1>4, SeqEqual
<1>6. QED
  BY <1>5 DEF s, t

LEMMA ChangeTellsLife ==
    ASSUME NEW changed, NEW status, NEW event,
           Typed, EventsTellLife,
           LegalChange(changed, status, event), Change(changed, status, event)
    PROVE  EventsTellLife'
<1> SUFFICES ASSUME NEW r \in Requests
             PROVE  outbox'[r] \in Lives(rows'[r].status)
  BY DEF EventsTellLife
<1>1. CASE r \notin changed
  BY <1>1 DEF Change, EventsTellLife
<1>2. CASE r \in changed
  <2>1. rows[r] \in Row
    BY DEF Typed, TypeOK
  <2>2. rows'[r].status = status /\ outbox'[r] = Append(outbox[r], event)
    BY <1>2, <2>1 DEF Change, Row
  <2>3. CASE rows[r].status = "HELD"
    <3>1. outbox[r] = <<"created">>
      BY <2>3 DEF EventsTellLife, Lives
    <3>2. <<status, event>> \in {<<"CONFIRMED", "confirmed">>, <<"EXPIRED", "expired">>,
                                 <<"CANCELLED", "cancelled">>}
      BY <1>2, <2>3 DEF LegalChange
    <3>3. Append(<<"created">>, event) = <<"created", event>>
      <4>1. "created" \in Events /\ event \in Events
        BY <3>2 DEF Events
      <4>2. QED
        BY <4>1, AppendOne
    <3>4. QED
      BY <3>1, <3>2, <3>3, <2>2 DEF Lives
  <2>4. CASE rows[r].status = "CONFIRMED"
    <3>1. outbox[r] = <<"created", "confirmed">>
      BY <2>4 DEF EventsTellLife, Lives
    <3>2. status = "CANCELLED" /\ event = "cancelled"
      BY <1>2, <2>4 DEF LegalChange
    <3>3. Append(<<"created", "confirmed">>, "cancelled")
             = <<"created", "confirmed", "cancelled">>
      <4>1. {"created", "confirmed", "cancelled"} \subseteq Events
        BY DEF Events
      <4>2. QED
        BY <4>1, AppendTwo
    <3>4. QED
      BY <3>1, <3>2, <3>3, <2>2 DEF Lives
  <2>5. QED
    BY <1>2, <2>3, <2>4 DEF LegalChange
<1>3. QED
  BY <1>1, <1>2

(* The events that tell a life are at most three strings.                  *)
LEMMA EventsAreShort ==
    ASSUME NEW status \in Statuses, NEW events \in Lives(status)
    PROVE  events \in Seq(Events) /\ Len(events) <= 3
<1>1. events \in {<<>>, <<"created">>, <<"created", "confirmed">>,
                  <<"created", "expired">>, <<"created", "cancelled">>,
                  <<"created", "confirmed", "cancelled">>}
  BY DEF Lives, Statuses
<1>2. /\ <<>> \in Seq(Events) /\ <<"created">> \in Seq(Events)
      /\ <<"created", "confirmed">> \in Seq(Events)
      /\ <<"created", "expired">> \in Seq(Events)
      /\ <<"created", "cancelled">> \in Seq(Events)
      /\ <<"created", "confirmed", "cancelled">> \in Seq(Events)
  BY DEF Events
<1>3. /\ Len(<<>>) = 0 /\ Len(<<"created">>) = 1
      /\ Len(<<"created", "confirmed">>) = 2 /\ Len(<<"created", "expired">>) = 2
      /\ Len(<<"created", "cancelled">>) = 2
      /\ Len(<<"created", "confirmed", "cancelled">>) = 3
  OBVIOUS
<1>4. events \in Seq(Events)
  BY <1>1, <1>2
<1>5. Len(events) \in {0, 1, 2, 3}
  BY <1>1, <1>3
<1>6. Len(events) <= 3
  BY <1>5
<1>7. QED
  BY <1>4, <1>6

(* Such a change, and c going on, preserves the invariant.                 *)
LEMMA ChangeGoesOn ==
    ASSUME NEW c \in Requests \cup Jobs, NEW s, s \in Call, s.step # "checked",
           NEW changed, NEW status, NEW event, IInv,
           call' = [call EXCEPT ![c] = s],
           status \in {"CONFIRMED", "EXPIRED", "CANCELLED"},
           LegalChange(changed, status, event), Change(changed, status, event),
           UNCHANGED disturbances
    PROVE  IInv'
<1>1. ChecksNothing /\ call' \in [Requests \cup Jobs -> Call]
  BY StepsAside DEF IInv
<1>2. rows \in [Requests -> Row]
  BY DEF IInv, Typed, TypeOK
<1>3. ASSUME NEW r \in Requests
      PROVE  /\ rows'[r].status = IF r \in changed THEN status ELSE rows[r].status
             /\ rows'[r].interval = rows[r].interval
             /\ rows'[r].left = IF r \in changed THEN 0 ELSE rows[r].left
             /\ rows'[r] \in Row
  <2>1. rows[r] \in Row /\ status \in Statuses /\ 0 \in 0 .. HoldTime
    BY <1>2, ReservationsAssumption DEF Statuses
  <2>2. CASE r \in changed
    BY <2>1, <2>2 DEF Change, Row
  <2>3. CASE r \notin changed
    BY <2>1, <2>3 DEF Change
  <2>4. QED
    BY <2>2, <2>3
<1>4. OccupiesNothing
  BY <1>3 DEF OccupiesNothing, LegalChange, Active
<1>5. Exclusion'
  BY <1>1, <1>4, StillExcludes DEF IInv
<1>6. EventsTellLife'
  BY ChangeTellsLife DEF IInv
<1>7. rows' \in [Requests -> Row]
  BY <1>3 DEF Change
<1>8. \A r \in Requests : rows'[r].status # "HELD" => rows'[r].left = 0
  BY <1>3 DEF IInv, Typed, TypeOK
<1>9. \A r \in Requests : outbox'[r] \in Seq(Events) /\ Len(outbox'[r]) <= 3
  BY <1>6, <1>7, EventsAreShort DEF EventsTellLife, Row
<1>10. outbox' \in [Requests -> Seq(Events)]
  BY <1>9 DEF Change
<1>11. Typed'
  BY <1>1, <1>7, <1>8, <1>9, <1>10 DEF IInv, Typed, TypeOK
<1>12. QED
  BY <1>5, <1>6, <1>11 DEF IInv

-----------------------------------------------------------------------------
(* The ways a request or job goes on that the actions are written with.    *)
LEMMA GoesOn ==
    ASSUME IInv, NEW c \in Requests \cup Jobs, NEW x \in Steps \ {"checked"},
           Goes(c, x), UNCHANGED <<rows, outbox>>, disturbances' \in 0 .. MaxDisturbances
    PROVE  IInv'
<1> DEFINE s == [call[c] EXCEPT !.step = x]
<1>1. call[c] \in Call
  BY DEF IInv, Typed, TypeOK
<1>2. s \in Call /\ s.step # "checked"
  BY <1>1 DEF Call
<1>3. call' = [call EXCEPT ![c] = s]
  BY DEF Goes
<1> HIDE DEF s
<1>4. QED
  BY <1>2, <1>3, MovesOn

LEMMA ReturnsOn ==
    ASSUME IInv, NEW c \in Requests \cup Jobs, NEW r \in Requests,
           Returns(c, r), UNCHANGED <<rows, outbox, disturbances>>
    PROVE  IInv'
<1> DEFINE s == [call[c] EXCEPT !.step = "ok", !.row = r]
<1>1. call[c] \in Call
  BY DEF IInv, Typed, TypeOK
<1>2. s \in Call /\ s.step # "checked"
  BY <1>1 DEF Call, Steps
<1>3. call' = [call EXCEPT ![c] = s]
  BY DEF Returns
<1> HIDE DEF s
<1>4. disturbances' \in 0 .. MaxDisturbances
  BY DEF IInv, Typed, TypeOK
<1>5. QED
  BY <1>2, <1>3, <1>4, MovesOn

(* The same, of a step that nothing disturbs.                              *)
LEMMA GoesOnCalmly ==
    ASSUME IInv, NEW c \in Requests \cup Jobs, NEW x \in Steps \ {"checked"},
           Goes(c, x), UNCHANGED <<rows, outbox, disturbances>>
    PROVE  IInv'
<1>1. disturbances' \in 0 .. MaxDisturbances
  BY DEF IInv, Typed, TypeOK
<1>2. QED
  BY <1>1, GoesOn

LEMMA ReplaysOn ==
    ASSUME IInv, NEW c \in Requests, Replays(c), UNCHANGED <<rows, outbox, disturbances>>
    PROVE  IInv'
<1>1. PICK r \in Requests : IF rows[r].interval = call[c].interval THEN Returns(c, r)
                            ELSE Goes(c, "conflict")
  BY DEF Replays, Original, Fails, Goes
<1>2. CASE Returns(c, r)
  BY <1>2, ReturnsOn
<1>3. CASE Goes(c, "conflict")
  BY <1>3, GoesOnCalmly DEF Steps
<1>4. QED
  BY <1>1, <1>2, <1>3

-----------------------------------------------------------------------------
(* The two steps the exclusion rests on: the check of the constraint,      *)
LEMMA CheckExcludes ==
    ASSUME IInv, NEW c \in Requests, Check(c)
    PROVE  IInv'
<1>1. CASE Fails(c, "conflict")
  BY <1>1, GoesOnCalmly DEF Check, Fails, Goes, Steps
<1>2. CASE ~Taken(call[c].interval) /\ Rivals(c) = {} /\ Goes(c, "checked")
  <2>1. call \in [Requests \cup Jobs -> Call]
    BY DEF IInv, Typed, TypeOK
  <2>2. UNCHANGED <<rows, outbox, disturbances>>
    BY DEF Check
  <2>3. ASSUME NEW d \in Requests \cup Jobs
        PROVE  /\ call'[d].interval = call[d].interval
               /\ call'[d].step = IF d = c THEN "checked" ELSE call[d].step
               /\ call'[d] \in Call
    BY <1>2, <2>1 DEF Goes, Call, Steps
  <2>4. \A d \in Requests \ {c} : Checked(d) => call[d].interval \cap call[c].interval = {}
    BY <1>2 DEF Rivals, Entering, Checked
  <2>5. CheckedIsFree'
    <3> SUFFICES ASSUME NEW b \in Requests, Checked(b)'
                 PROVE  /\ ~Taken(call[b].interval)'
                        /\ \A d \in Requests \ {b} : Checked(d)' =>
                              call'[b].interval \cap call'[d].interval = {}
      BY DEF CheckedIsFree
    <3>1. ~Taken(call[b].interval)
      BY <1>2, <2>3 DEF IInv, Exclusion, CheckedIsFree, Checked
    <3>2. ~Taken(call[b].interval)'
      BY <3>1, <2>2, <2>3 DEF Taken
    <3>3. \A d \in Requests \ {b} : Checked(d)' =>
             call'[b].interval \cap call'[d].interval = {}
      BY <2>3, <2>4 DEF IInv, Exclusion, CheckedIsFree, Checked
    <3>4. QED
      BY <3>2, <3>3
  <2>6. NoOverlap' /\ EventsTellLife'
    BY <2>2 DEF IInv, Exclusion, NoOverlap, EventsTellLife
  <2>7. call' \in [Requests \cup Jobs -> Call]
    BY <1>2, <2>1, <2>3 DEF Goes
  <2>8. Typed'
    BY <2>2, <2>7 DEF IInv, Typed, TypeOK
  <2>9. QED
    BY <2>5, <2>6, <2>8 DEF IInv, Exclusion
<1>3. QED
  BY <1>1, <1>2 DEF Check

(* and the commit of what was checked.                                     *)
LEMMA CommitExcludes ==
    ASSUME IInv, NEW c \in Requests, Commit(c)
    PROVE  IInv'
<1>1. /\ call \in [Requests \cup Jobs -> Call] /\ rows \in [Requests -> Row]
      /\ outbox \in [Requests -> Seq(Events)]
  BY DEF IInv, Typed, TypeOK
<1>2. ASSUME NEW d \in Requests \cup Jobs
      PROVE  /\ call'[d].interval = call[d].interval
             /\ call'[d].step = IF d = c THEN "ok" ELSE call[d].step
             /\ call'[d] \in Call
  <2>1. call[d] \in Call /\ call[c] \in Call
    BY <1>1
  <2>2. call' = [call EXCEPT ![c] = [@ EXCEPT !.step = "ok", !.row = c]]
    BY DEF Commit, Returns
  <2>3. CASE d = c
    BY <1>1, <2>1, <2>2, <2>3 DEF Call, Steps
  <2>4. CASE d # c
    BY <1>1, <2>1, <2>2, <2>4
  <2>5. QED
    BY <2>3, <2>4
<1>3. ASSUME NEW r \in Requests
      PROVE  /\ rows'[r] \in Row
             /\ r # c => rows'[r] = rows[r] /\ outbox'[r] = outbox[r]
             /\ r = c => /\ rows'[r].status = "HELD"
                         /\ rows'[r].interval = call[c].interval
                         /\ outbox'[r] = <<"created">>
  BY <1>1, ReservationsAssumption DEF Commit, Row, Statuses, Call
<1>4. ~Taken(call[c].interval)
  BY DEF Commit, IInv, Exclusion, CheckedIsFree, Checked
<1>5. NoOverlap'
  <2> SUFFICES ASSUME NEW r \in Requests, NEW s \in Requests, r # s,
                      {rows'[r].status, rows'[s].status} \subseteq Active
               PROVE  rows'[r].interval \cap rows'[s].interval = {}
    BY DEF NoOverlap
  <2>1. CASE r # c /\ s # c
    BY <2>1, <1>3 DEF IInv, Exclusion, NoOverlap
  <2>2. CASE r = c
    BY <2>2, <1>3, <1>4 DEF Taken
  <2>3. CASE s = c
    BY <2>3, <1>3, <1>4 DEF Taken
  <2>4. QED
    BY <2>1, <2>2, <2>3
<1>6. CheckedIsFree'
  <2> SUFFICES ASSUME NEW b \in Requests, Checked(b)'
               PROVE  /\ ~Taken(call[b].interval)'
                      /\ \A d \in Requests \ {b} : Checked(d)' =>
                            call'[b].interval \cap call'[d].interval = {}
    BY DEF CheckedIsFree
  <2>1. b # c /\ Checked(b) /\ call'[b].interval = call[b].interval
    BY <1>2 DEF Checked
  <2>2. ~Taken(call[b].interval) /\ call[b].interval \cap call[c].interval = {}
    BY <2>1 DEF Commit, IInv, Exclusion, CheckedIsFree, Checked
  <2>3. ~Taken(call[b].interval)'
    BY <1>3, <2>1, <2>2 DEF Taken
  <2>4. \A d \in Requests \ {b} : Checked(d)' =>
           call'[b].interval \cap call'[d].interval = {}
    BY <1>2, <2>1 DEF IInv, Exclusion, CheckedIsFree, Checked
  <2>5. QED
    BY <2>3, <2>4
<1>7. EventsTellLife'
  BY <1>3 DEF IInv, EventsTellLife, Lives
<1>8. call' \in [Requests \cup Jobs -> Call] /\ rows' \in [Requests -> Row]
  BY <1>1, <1>2, <1>3 DEF Commit, Returns
<1>9. \A r \in Requests : outbox'[r] \in Seq(Events) /\ Len(outbox'[r]) <= 3
  BY <1>7, <1>8, EventsAreShort DEF EventsTellLife, Row
<1>10. outbox' \in [Requests -> Seq(Events)]
  BY <1>1, <1>9 DEF Commit
<1>11. \A r \in Requests : rows'[r].status # "HELD" => rows'[r].left = 0
  BY <1>3 DEF IInv, Typed, TypeOK
<1>12. Typed'
  BY <1>8, <1>9, <1>10, <1>11 DEF IInv, Typed, TypeOK, Commit
<1>13. QED
  BY <1>5, <1>6, <1>7, <1>12 DEF IInv, Exclusion

-----------------------------------------------------------------------------
(* How requests and jobs start.                                            *)
LEMMA StartHolds ==
    ASSUME IInv, NEW c \in Requests, Start(c)
    PROVE  IInv'
<1>1. call[c] \in Call /\ disturbances \in 0 .. MaxDisturbances
  BY DEF IInv, Typed, TypeOK
<1>2. ASSUME NEW k \in Keys \cup {NoKey}, NEW i \in Intervals, Create(c, k, i)
      PROVE  IInv'
  <2> DEFINE s == [call[c] EXCEPT !.op = "create", !.key = k, !.interval = i,
                                  !.step = IF k = NoKey THEN "policy" ELSE "replay"]
  <2>1. s \in Call /\ s.step # "checked"
    BY <1>1 DEF Call, Steps
  <2>2. call' = [call EXCEPT ![c] = s] /\ UNCHANGED <<rows, outbox, disturbances>>
    BY <1>2 DEF Create
  <2> HIDE DEF s
  <2>3. QED
    BY <1>1, <2>1, <2>2, MovesOn
<1>3. ASSUME NEW r \in Requests, Confirm(c, r)
      PROVE  IInv'
  <2> DEFINE x == IF rows[r].status # "HELD" THEN "conflict"
                  ELSE IF Due(r) THEN "sweep" ELSE "update"
             s == [call[c] EXCEPT !.op = "confirm", !.row = r, !.step = x]
  <2>1. x \in Steps \ {"checked"}
    BY DEF Steps
  <2>2. call' = [call EXCEPT ![c] = s] /\ UNCHANGED <<rows, outbox, disturbances>>
    BY <1>3 DEF Confirm
  <2> HIDE DEF x
  <2>3. s \in Call /\ s.step # "checked"
    BY <1>1, <2>1 DEF Call
  <2> HIDE DEF s
  <2>4. QED
    BY <1>1, <2>2, <2>3, MovesOn
<1>4. ASSUME NEW r \in Requests, NEW allowed \in BOOLEAN, Cancel(c, r, allowed)
      PROVE  IInv'
  <2> DEFINE x == IF rows[r].status \in Active /\ allowed THEN "update" ELSE "conflict"
             s == [call[c] EXCEPT !.op = "cancel", !.row = r, !.step = x]
  <2>1. x \in Steps \ {"checked"}
    BY DEF Steps
  <2>2. call' = [call EXCEPT ![c] = s] /\ UNCHANGED <<rows, outbox, disturbances>>
    BY <1>4 DEF Cancel
  <2> HIDE DEF x
  <2>3. s \in Call /\ s.step # "checked"
    BY <1>1, <2>1 DEF Call
  <2> HIDE DEF s
  <2>4. QED
    BY <1>1, <2>2, <2>3, MovesOn
<1>5. QED
  BY <1>2, <1>3, <1>4 DEF Start

LEMMA StartSweepHolds ==
    ASSUME IInv, NEW c \in Jobs, StartSweep(c)
    PROVE  IInv'
<1> DEFINE s == [call[c] EXCEPT !.op = "sweep", !.step = "sweep"]
<1>1. call[c] \in Call /\ disturbances \in 0 .. MaxDisturbances
  BY DEF IInv, Typed, TypeOK
<1>2. s \in Call /\ s.step # "checked"
  BY <1>1 DEF Call, Steps
<1>3. call' = [call EXCEPT ![c] = s] /\ UNCHANGED <<rows, outbox, disturbances>>
  BY DEF StartSweep
<1> HIDE DEF s
<1>4. QED
  BY <1>1, <1>2, <1>3, MovesOn

-----------------------------------------------------------------------------
(* The sweeps.                                                             *)
LEMMA SelectHolds ==
    ASSUME IInv, NEW c \in Requests \cup Jobs, Select(c)
    PROVE  IInv'
<1>1. call[c] \in Call /\ disturbances \in 0 .. MaxDisturbances
  BY DEF IInv, Typed, TypeOK
<1>2. UNCHANGED <<rows, outbox, disturbances>>
  BY DEF Select
<1>3. CASE Goes(c, Swept(c))
  <2>1. Swept(c) \in Steps \ {"checked"}
    BY DEF Swept, Steps
  <2>2. QED
    BY <1>2, <1>3, <2>1, GoesOnCalmly
<1>4. ASSUME NEW batch \in SUBSET Requests,
             call' = [call EXCEPT ![c].step = "expire", ![c].batch = batch]
      PROVE  IInv'
  <2> DEFINE s == [call[c] EXCEPT !.step = "expire", !.batch = batch]
  <2>1. s \in Call /\ s.step # "checked"
    BY <1>1 DEF Call, Steps
  <2>2. call' = [call EXCEPT ![c] = s]
    BY <1>4
  <2> HIDE DEF s
  <2>3. QED
    BY <1>1, <1>2, <2>1, <2>2, MovesOn
<1>5. {r \in Requests : Due(r)} \subseteq Requests
  OBVIOUS
<1>6. Goes(c, Swept(c))
      \/ \E batch \in SUBSET Requests :
            call' = [call EXCEPT ![c].step = "expire", ![c].batch = batch]
  BY <1>5 DEF Select
<1>7. QED
  BY <1>3, <1>4, <1>6

LEMMA ExpireHolds ==
    ASSUME IInv, NEW c \in Requests \cup Jobs, Expire(c)
    PROVE  IInv'
<1> DEFINE s == [call[c] EXCEPT !.step = "sweep", !.batch = {}]
           expired == {r \in call[c].batch : Due(r)}
<1>1. call[c] \in Call
  BY DEF IInv, Typed, TypeOK
<1>2. s \in Call /\ s.step # "checked"
  BY <1>1 DEF Call, Steps
<1>3. call' = [call EXCEPT ![c] = s] /\ UNCHANGED disturbances
  BY DEF Expire
<1>4. LegalChange(expired, "EXPIRED", "expired")
  BY DEF LegalChange, Due
<1>5. Change(expired, "EXPIRED", "expired")
  BY DEF Expire
<1> HIDE DEF s, expired
<1>6. QED
  BY <1>2, <1>3, <1>4, <1>5, ChangeGoesOn

-----------------------------------------------------------------------------
(* What requests go through after their start.                             *)
LEMMA UpdateHolds ==
    ASSUME IInv, NEW c \in Requests, Update(c)
    PROVE  IInv'
<1> DEFINE r == call[c].row
           s == [call[c] EXCEPT !.step = "ok", !.row = r]
<1>1. call[c] \in Call
  BY DEF IInv, Typed, TypeOK
<1>2. s \in Call /\ s.step # "checked"
  BY <1>1 DEF Call, Steps
<1>3. UNCHANGED disturbances
  BY DEF Update
<1>4. CASE ~Allows(call[c].op, r)
  <2>1. Goes(c, "conflict") /\ UNCHANGED <<rows, outbox, disturbances>>
    BY <1>4 DEF Update, Fails, Goes
  <2>2. QED
    BY <2>1, GoesOnCalmly DEF Steps
<1>5. CASE Allows(call[c].op, r)
  <2>1. call' = [call EXCEPT ![c] = s]
    BY <1>5 DEF Update, Returns
  <2>2. CASE call[c].op = "confirm"
    <3>1. Change({r}, "CONFIRMED", "confirmed")
      BY <1>5, <2>2 DEF Update
    <3>2. LegalChange({r}, "CONFIRMED", "confirmed")
      BY <1>5, <2>2 DEF LegalChange, Allows
    <3> HIDE DEF r, s
    <3>3. QED
      BY <1>2, <1>3, <2>1, <3>1, <3>2, ChangeGoesOn
  <2>3. CASE call[c].op # "confirm"
    <3>1. Change({r}, "CANCELLED", "cancelled")
      BY <1>5, <2>3 DEF Update
    <3>2. LegalChange({r}, "CANCELLED", "cancelled")
      BY <1>5, <2>3 DEF LegalChange, Allows, Active
    <3> HIDE DEF r, s
    <3>3. QED
      BY <1>2, <1>3, <2>1, <3>1, <3>2, ChangeGoesOn
  <2>4. QED
    BY <2>2, <2>3
<1>6. QED
  BY <1>4, <1>5

LEMMA ServeHolds ==
    ASSUME IInv, NEW c \in Requests, Serve(c)
    PROVE  IInv'
<1>1. CASE Replay(c)
  <2>1. CASE Original(c) # {}
    BY <1>1, <2>1, ReplaysOn DEF Replay
  <2>2. CASE Original(c) = {}
    BY <1>1, <2>2, GoesOnCalmly DEF Replay, Steps
  <2>3. QED
    BY <2>1, <2>2
<1>2. ASSUME NEW allows \in BOOLEAN, Policy(c, allows)
      PROVE  IInv'
  <2>1. CASE allows
    BY <1>2, <2>1, GoesOnCalmly DEF Policy, Steps
  <2>2. CASE ~allows
    BY <1>2, <2>2, GoesOnCalmly DEF Policy, Fails, Goes, Steps
  <2>3. QED
    BY <2>1, <2>2
<1>3. CASE Enter(c)
  <2>1. Goes(c, "duplicate") \/ Goes(c, "entered")
    BY <1>3 DEF Enter
  <2>2. UNCHANGED <<rows, outbox, disturbances>>
    BY <1>3 DEF Enter
  <2>3. QED
    BY <2>1, <2>2, GoesOnCalmly DEF Steps
<1>4. CASE Check(c)
  BY <1>4, CheckExcludes
<1>5. CASE Deadlock(c)
  BY <1>5, GoesOnCalmly DEF Deadlock, Fails, Goes, Steps
<1>6. CASE Commit(c)
  BY <1>6, CommitExcludes
<1>7. CASE Duplicate(c)
  BY <1>7, ReplaysOn DEF Duplicate
<1>8. CASE Update(c)
  BY <1>8, UpdateHolds
<1>9. QED
  BY <1>1, <1>2, <1>3, <1>4, <1>5, <1>6, <1>7, <1>8 DEF Serve

-----------------------------------------------------------------------------
(* Failures and time.                                                      *)
LEMMA AbortHolds ==
    ASSUME IInv, NEW c \in Requests \cup Jobs, Abort(c)
    PROVE  IInv'
<1> DEFINE x == IF c \in Jobs THEN "start" ELSE "error"
           s == [call[c] EXCEPT !.step = x, !.batch = {}]
<1>1. call[c] \in Call
  BY DEF IInv, Typed, TypeOK
<1>2. x \in Steps \ {"checked"}
  BY DEF Steps
<1>3. call' = [call EXCEPT ![c] = s] /\ UNCHANGED <<rows, outbox>>
  BY DEF Abort
<1> HIDE DEF x
<1>4. s \in Call /\ s.step # "checked"
  BY <1>1, <1>2 DEF Call
<1>5. disturbances' \in 0 .. MaxDisturbances
  BY ReservationsAssumption DEF Abort, Disturb, IInv, Typed, TypeOK
<1> HIDE DEF s
<1>6. QED
  BY <1>3, <1>4, <1>5, MovesOn

LEMMA TickHolds ==
    ASSUME IInv, Tick
    PROVE  IInv'
<1>1. rows \in [Requests -> Row] /\ UNCHANGED <<outbox, call, disturbances>>
  BY DEF IInv, Typed, TypeOK, Tick
<1>2. ASSUME NEW r \in Requests
      PROVE  /\ rows'[r].status = rows[r].status
             /\ rows'[r].interval = rows[r].interval
             /\ rows[r].left = 0 => rows'[r].left = 0
             /\ rows'[r] \in Row
  <2>1. rows[r] \in Row /\ rows[r].left \in 0 .. HoldTime
    BY <1>1 DEF Row
  <2>2. (IF rows[r].left > 0 THEN rows[r].left - 1 ELSE 0) \in 0 .. HoldTime
    BY <2>1, ReservationsAssumption
  <2>3. rows'[r] = [rows[r] EXCEPT !.left = IF rows[r].left > 0 THEN rows[r].left - 1 ELSE 0]
    BY DEF Tick
  <2>4. QED
    BY <2>1, <2>2, <2>3 DEF Row
<1>3. OccupiesNothing /\ ChecksNothing
  BY <1>1, <1>2 DEF OccupiesNothing, ChecksNothing, Checked
<1>4. Exclusion'
  BY <1>3, StillExcludes DEF IInv
<1>5. EventsTellLife'
  BY <1>1, <1>2 DEF IInv, EventsTellLife
<1>6. rows' \in [Requests -> Row]
  BY <1>2 DEF Tick
<1>7. Typed'
  BY <1>1, <1>2, <1>6 DEF IInv, Typed, TypeOK
<1>8. QED
  BY <1>4, <1>5, <1>7 DEF IInv

-----------------------------------------------------------------------------
LEMMA InitHolds == Init => IInv
<1> SUFFICES ASSUME Init PROVE IInv
  OBVIOUS
<1>1. Typed
  <2>1. 0 \in 0 .. HoldTime /\ 0 \in 0 .. MaxDisturbances
    BY ReservationsAssumption
  <2>2. rows \in [Requests -> Row]
    BY <2>1 DEF Init, Row, Statuses
  <2>3. call \in [Requests \cup Jobs -> Call]
    BY DEF Init, Call, Steps
  <2>4. \A r \in Requests : rows[r].left = 0 /\ outbox[r] = <<>>
    BY DEF Init
  <2>5. <<>> \in Seq(Events) /\ Len(<<>>) <= 3
    OBVIOUS
  <2>6. outbox \in [Requests -> Seq(Events)]
    BY <2>5 DEF Init
  <2>7. QED
    BY <2>1, <2>2, <2>3, <2>4, <2>5, <2>6 DEF Init, Typed, TypeOK
<1>2. Exclusion
  BY DEF Init, Exclusion, NoOverlap, CheckedIsFree, Checked, Active
<1>3. EventsTellLife
  BY DEF Init, EventsTellLife, Lives
<1>4. QED
  BY <1>1, <1>2, <1>3 DEF IInv

LEMMA NextHolds == IInv /\ [Next]_vars => IInv'
<1> SUFFICES ASSUME IInv, [Next]_vars PROVE IInv'
  OBVIOUS
<1>1. ASSUME NEW c \in Requests, Start(c) \/ Serve(c)
      PROVE  IInv'
  BY <1>1, StartHolds, ServeHolds
<1>2. ASSUME NEW c \in Jobs, StartSweep(c)
      PROVE  IInv'
  BY <1>2, StartSweepHolds
<1>3. ASSUME NEW c \in Requests \cup Jobs, Sweep(c) \/ Abort(c)
      PROVE  IInv'
  BY <1>3, SelectHolds, ExpireHolds, AbortHolds DEF Sweep
<1>4. CASE Tick
  BY <1>4, TickHolds
<1>5. CASE UNCHANGED vars
  BY <1>5 DEF vars, IInv, Typed, TypeOK, Exclusion, NoOverlap, CheckedIsFree, Checked,
              Taken, EventsTellLife
<1>6. QED
  BY <1>1, <1>2, <1>3, <1>4, <1>5 DEF Next

(* The strengthening is an invariant: what is checked stays free until it  *)
(* is committed (create of features/reservations/src/render.ts).           *)
THEOREM Invariance == Spec => []IInv
<1>1. QED
  BY InitHolds, NextHolds, PTL DEF Spec

(* Whatever requests and sweeps do at once, every variable keeps its type: *)
(* only a HELD row has time left, and no reservation announces more than   *)
(* three changes.                                                          *)
THEOREM TypeAlways == Spec => []TypeOK
<1>1. IInv => TypeOK
  BY DEF IInv, Typed
<1>2. QED
  BY <1>1, Invariance, PTL

(* No slot is held or confirmed twice, for any number of clients, replicas *)
(* and intervals (overlapSql of features/reservations/src/render.ts).      *)
THEOREM NoOverlapAlways == Spec => []NoOverlap
<1>1. IInv => NoOverlap
  BY DEF IInv, Exclusion
<1>2. QED
  BY <1>1, Invariance, PTL

(* Each change of a reservation is announced once, in order, and none that *)
(* did not happen is (confirm, cancel and expireHolds of the same file).   *)
THEOREM EventsAlwaysTellLife == Spec => []EventsTellLife
<1>1. IInv => EventsTellLife
  BY DEF IInv
<1>2. QED
  BY <1>1, Invariance, PTL

-----------------------------------------------------------------------------
(* A request that is repeated with its key is answered with the reserva-   *)
(* tion that was made for it.                                              *)
(*                                                                         *)
(* The argument.  A key is looked up long before a row is inserted with    *)
(* it.  What holds meanwhile is Alone: a request that has entered the      *)
(* unique index of the keys found no row with its key there, and no other  *)
(* request enters with it before the first has ended.                      *)
Entitled(c) == call[c].key # NoKey

(* The unique index of the keys: no two rows have one.                     *)
KeysUnique == \A r, s \in Requests :
                 /\ rows[r].status # "none" /\ rows[s].status # "none"
                 /\ rows[r].key = rows[s].key /\ rows[r].key # NoKey
                 => r = s

(* What the step of a request tells of it.                                 *)
Fits(step, op, key) == /\ step = "start" => op = "-"
                       /\ step = "update" => op # "create"
                       /\ step \in {"replay", "policy"} => op = "create"
                       /\ step \in {"sweep", "expire"} => op \in {"create", "confirm"}
                       /\ step \in {"replay", "duplicate"} => key # NoKey

Stage(c) == Fits(call[c].step, call[c].op, call[c].key)

(* Its row is there only after it was answered,                            *)
Own(c) == rows[c].status # "none" => call[c].step = "ok"

(* the answer is a row that is there for its key and its interval,         *)
AnsweredBy(r, key, interval) ==
    /\ r \in Requests /\ rows[r].status # "none"
    /\ rows[r].key = key /\ rows[r].interval = interval

Answered(c) == call[c].op = "create" /\ call[c].step = "ok" =>
                  AnsweredBy(call[c].row, call[c].key, call[c].interval)

(* and nobody has its key while it is inserting it.                        *)
Alone(c) == Entering(c) /\ Entitled(c) =>
               /\ Original(c) = {}
               /\ \A d \in Requests \ {c} : Entering(d) => call[d].key # call[c].key

KeyInv == /\ KeysUnique
          /\ \A c \in Requests : Stage(c) /\ Own(c) /\ Answered(c) /\ Alone(c)

-----------------------------------------------------------------------------
(* No row comes or goes, or gets another key or interval.                  *)
SameRows == \A r \in Requests : /\ rows'[r].key = rows[r].key
                                /\ rows'[r].interval = rows[r].interval
                                /\ (rows'[r].status = "none") <=> (rows[r].status = "none")

(* What a request may become without entering the index.                   *)
MayBecome(c, s) ==
    /\ call[c].step # "ok" /\ Fits(s.step, s.op, s.key)
    /\ s.step \in {"entered", "checked"} => Entering(c) /\ s.key = call[c].key
    /\ s.op = "create" /\ s.step = "ok" => AnsweredBy(s.row, s.key, s.interval)

LEMMA SameKeys == ASSUME SameRows, KeysUnique PROVE KeysUnique'
BY DEF SameRows, KeysUnique

LEMMA Moves ==
    ASSUME IInv, KeyInv, NEW c \in Requests \cup Jobs, NEW s, s \in Call,
           call' = [call EXCEPT ![c] = s], SameRows, c \in Requests => MayBecome(c, s)
    PROVE  KeyInv'
<1>1. \A d \in Requests \cup Jobs : call'[d] = IF d = c THEN s ELSE call[d]
  BY DEF IInv, Typed, TypeOK
<1>2. KeysUnique'
  BY SameKeys DEF KeyInv
<1>3. \A d \in Requests : Entering(d)' => Entering(d) /\ call'[d].key = call[d].key
  BY <1>1 DEF Entering, MayBecome
<1>4. ASSUME NEW d \in Requests PROVE (Stage(d) /\ Own(d) /\ Answered(d))'
  <2>1. CASE d = c
    <3>1. Stage(d)'
      BY <1>1, <2>1 DEF MayBecome, Stage
    <3>2. Own(d)'
      BY <2>1 DEF MayBecome, KeyInv, Own, SameRows
    <3>3. Answered(d)'
      BY <1>1, <2>1 DEF MayBecome, Answered, AnsweredBy, SameRows
    <3> QED BY <3>1, <3>2, <3>3
  <2>2. CASE d # c
    <3>1. call'[d] = call[d]
      BY <1>1, <2>2
    <3> QED BY <3>1 DEF KeyInv, Stage, Entitled, Own, Answered, AnsweredBy, SameRows
  <2> QED BY <2>1, <2>2
<1>5. ASSUME NEW d \in Requests PROVE Alone(d)'
  <2> SUFFICES ASSUME Entering(d)', Entitled(d)'
               PROVE  /\ Original(d)' = {}
                      /\ \A e \in Requests \ {d} : Entering(e)' => call'[e].key # call'[d].key
    BY DEF Alone
  <2>1. Alone(d) /\ Entering(d) /\ Entitled(d) /\ call'[d].key = call[d].key
    BY <1>3 DEF KeyInv, Entitled
  <2>2. Original(d)' = {}
    BY <2>1 DEF Alone, Original, SameRows
  <2> QED BY <1>3, <2>1, <2>2 DEF Alone
<1> QED BY <1>2, <1>4, <1>5 DEF KeyInv

(* A step of a request from one of its stages to another.                  *)
LEMMA GoesTo ==
    ASSUME IInv, KeyInv, NEW c \in Requests, NEW x \in Steps \ {"start", "ok"},
           Goes(c, x), UNCHANGED rows, call[c].step # "ok",
           Fits(x, call[c].op, call[c].key), x \in {"entered", "checked"} => Entering(c)
    PROVE  KeyInv'
<1> DEFINE s == [call[c] EXCEPT !.step = x]
<1>1. call[c] \in Call
  BY DEF IInv, Typed, TypeOK
<1>2. s \in Call /\ s.step = x /\ s.op = call[c].op /\ s.key = call[c].key
  BY <1>1 DEF Call
<1>3. call' = [call EXCEPT ![c] = s]
  BY DEF Goes
<1> HIDE DEF s
<1>4. MayBecome(c, s)
  BY <1>2 DEF MayBecome
<1> QED BY <1>2, <1>3, <1>4, Moves DEF SameRows

LEMMA ReplaysKeys ==
    ASSUME IInv, KeyInv, NEW c \in Requests, Replays(c), UNCHANGED rows,
           call[c].step # "ok"
    PROVE  KeyInv'
<1>1. PICK r \in Original(c) : IF rows[r].interval = call[c].interval THEN Returns(c, r)
                               ELSE Fails(c, "conflict")
  BY DEF Replays
<1>2. CASE rows[r].interval # call[c].interval
  BY <1>1, <1>2, GoesTo DEF Fails, Goes, Steps, Fits
<1>3. CASE rows[r].interval = call[c].interval
  <2> DEFINE s == [call[c] EXCEPT !.step = "ok", !.row = r]
  <2>1. call[c] \in Call /\ r \in Requests
    BY DEF IInv, Typed, TypeOK, Original
  <2>2. /\ s \in Call /\ s.step = "ok" /\ s.row = r
        /\ s.key = call[c].key /\ s.interval = call[c].interval
    BY <2>1 DEF Call, Steps
  <2>3. call' = [call EXCEPT ![c] = s]
    BY <1>1, <1>3 DEF Returns
  <2> HIDE DEF s
  <2>4. MayBecome(c, s)
    BY <1>3, <2>1, <2>2 DEF MayBecome, AnsweredBy, Original, Fits
  <2> QED BY <2>2, <2>3, <2>4, Moves DEF SameRows
<1> QED BY <1>2, <1>3

(* The entry in the index of the keys finds no row with the key, and waits *)
(* for the insert of another one.                                          *)
LEMMA EnterKeys == ASSUME IInv, KeyInv, NEW c \in Requests, Enter(c) PROVE KeyInv'
<1>1. CASE Goes(c, "duplicate") /\ Entitled(c)
  BY <1>1, GoesTo DEF Enter, Steps, Fits, Entitled
<1>2. CASE Goes(c, "entered") /\ (Entitled(c) => Original(c) = {})
  <2>1. \A d \in Requests : /\ call'[d].step = IF d = c THEN "entered" ELSE call[d].step
                            /\ call'[d].key = call[d].key
                            /\ call'[d].interval = call[d].interval
                            /\ call'[d].op = call[d].op /\ call'[d].row = call[d].row
    <3>1. \A d \in Requests : call[d] \in Call
      BY DEF IInv, Typed, TypeOK
    <3>2. \A d \in Requests : call'[d] = IF d = c THEN [call[c] EXCEPT !.step = "entered"]
                                        ELSE call[d]
      BY <1>2 DEF Goes, IInv, Typed, TypeOK
    <3> QED BY <3>1, <3>2 DEF Call
  <2>2. call[c].step = "insert" /\ UNCHANGED rows
    BY DEF Enter
  <2>3. KeysUnique'
    BY <2>2 DEF KeyInv, KeysUnique
  <2>4. ASSUME NEW d \in Requests PROVE (Stage(d) /\ Own(d) /\ Answered(d))'
    BY <2>1, <2>2 DEF KeyInv, Stage, Fits, Own, Answered, AnsweredBy
  <2>5. ASSUME NEW d \in Requests PROVE Alone(d)'
    <3>1. \A e \in Requests : Original(e)' = Original(e)
      BY <2>1, <2>2 DEF Original
    <3>2. \A e \in Requests : Entitled(c) /\ Entering(e) => call[e].key # call[c].key
      BY DEF Enter, Entitled
    <3>3. CASE d = c
      BY <1>2, <2>1, <3>1, <3>2, <3>3 DEF Alone, Entering, Entitled
    <3>4. CASE d # c
      BY <2>1, <3>1, <3>2, <3>4 DEF KeyInv, Alone, Entering, Entitled
    <3> QED BY <3>3, <3>4
  <2> QED BY <2>3, <2>4, <2>5 DEF KeyInv
<1> QED BY <1>1, <1>2 DEF Enter, Entitled

(* The commit of the row: the only one with its key.                       *)
LEMMA CommitKeys == ASSUME IInv, KeyInv, NEW c \in Requests, Commit(c) PROVE KeyInv'
<1>1. \A r \in Requests : IF r = c THEN /\ rows'[r].status # "none"
                                       /\ rows'[r].key = call[c].key
                                       /\ rows'[r].interval = call[c].interval
                           ELSE rows'[r] = rows[r]
  BY DEF Commit, IInv, Typed, TypeOK
<1>2. \A d \in Requests : /\ call'[d].step = IF d = c THEN "ok" ELSE call[d].step
                          /\ call'[d].row = IF d = c THEN c ELSE call[d].row
                          /\ call'[d].key = call[d].key
                          /\ call'[d].interval = call[d].interval
                          /\ call'[d].op = call[d].op
  <2> DEFINE q == [call[c] EXCEPT !.step = "ok", !.row = c]
  <2>1. call[c] \in Call
    BY DEF IInv, Typed, TypeOK
  <2>2. /\ q.step = "ok" /\ q.row = c /\ q.key = call[c].key
        /\ q.interval = call[c].interval /\ q.op = call[c].op
    BY <2>1 DEF Call
  <2>3. \A d \in Requests : call'[d] = IF d = c THEN q ELSE call[d]
    BY DEF Commit, Returns, IInv, Typed, TypeOK
  <2> HIDE DEF q
  <2> QED BY <2>2, <2>3
<1>3. call[c].step = "checked" /\ Entering(c) /\ rows[c].status = "none"
  BY DEF Commit, Entering, KeyInv, Own
<1>4. Entitled(c) => \A r \in Requests : rows[r].status = "none" \/ rows[r].key # call[c].key
  BY <1>3 DEF KeyInv, Alone, Original
<1>5. KeysUnique'
  BY <1>1, <1>4 DEF KeyInv, KeysUnique, Entitled
<1>6. ASSUME NEW d \in Requests PROVE (Stage(d) /\ Own(d))'
  BY <1>1, <1>2 DEF KeyInv, Stage, Fits, Own
<1>7. ASSUME NEW d \in Requests PROVE Answered(d)'
  <2>1. CASE d = c
    BY <1>1, <1>2, <2>1 DEF Answered, AnsweredBy
  <2>2. CASE d # c
    BY <1>1, <1>2, <1>3, <2>2 DEF KeyInv, Answered, AnsweredBy
  <2> QED BY <2>1, <2>2
<1>8. ASSUME NEW d \in Requests PROVE Alone(d)'
  <2> SUFFICES ASSUME Entering(d)', Entitled(d)'
               PROVE  /\ Original(d)' = {}
                      /\ \A e \in Requests \ {d} : Entering(e)' => call'[e].key # call'[d].key
    BY DEF Alone
  <2>1. d # c /\ Entering(d) /\ Entitled(d)
    BY <1>2 DEF Entering, Entitled
  <2>2. Alone(d) /\ call[c].key # call[d].key
    BY <1>3, <2>1 DEF KeyInv, Alone
  <2>3. Original(d)' = {}
    BY <1>1, <1>2, <2>1, <2>2 DEF Alone, Original
  <2>4. \A e \in Requests : Entering(e)' => Entering(e)
    BY <1>2 DEF Entering
  <2> QED BY <1>2, <2>1, <2>2, <2>3, <2>4 DEF Alone
<1> QED BY <1>5, <1>6, <1>7, <1>8 DEF KeyInv

(* A change of status, which is of rows that are there.                    *)
LEMMA ChangeKeepsRows ==
    ASSUME IInv, NEW changed, NEW status \in Statuses \ {"none"}, NEW event,
           \A r \in Requests \cap changed : rows[r].status # "none",
           Change(changed, status, event)
    PROVE  SameRows
<1> SUFFICES ASSUME NEW r \in Requests
             PROVE  /\ rows'[r].key = rows[r].key /\ rows'[r].interval = rows[r].interval
                    /\ (rows'[r].status = "none") <=> (rows[r].status = "none")
  BY DEF SameRows
<1>1. rows[r] \in Row
  BY DEF IInv, Typed, TypeOK
<1>2. CASE r \in changed
  BY <1>1, <1>2 DEF Change, Row
<1>3. CASE r \notin changed
  BY <1>3 DEF Change
<1> QED BY <1>2, <1>3

-----------------------------------------------------------------------------
LEMMA StartKeys == ASSUME IInv, KeyInv, NEW c \in Requests, Start(c) PROVE KeyInv'
<1>1. call[c] \in Call
  BY DEF IInv, Typed, TypeOK
<1>2. ASSUME NEW s, s \in Call, call' = [call EXCEPT ![c] = s], UNCHANGED rows,
             call[c].step = "start", s.step \in Steps \ {"start", "ok", "entered", "checked"},
             Fits(s.step, s.op, s.key)
      PROVE  KeyInv'
  BY <1>2, Moves DEF SameRows, MayBecome
<1>3. ASSUME NEW k \in Keys \cup {NoKey}, NEW i \in Intervals, Create(c, k, i) PROVE KeyInv'
  <2> DEFINE s == [call[c] EXCEPT !.op = "create", !.key = k, !.interval = i,
                                  !.step = IF k = NoKey THEN "policy" ELSE "replay"]
  <2>1. s \in Call /\ s.key = k /\ s.op = "create" /\ s.step = IF k = NoKey THEN "policy" ELSE "replay"
    BY <1>1 DEF Call, Steps
  <2>2. call' = [call EXCEPT ![c] = s] /\ UNCHANGED rows /\ call[c].step = "start"
    BY <1>3 DEF Create
  <2> HIDE DEF s
  <2> QED BY <1>2, <2>1, <2>2 DEF Steps, Fits
<1>4. ASSUME NEW r \in Requests, Confirm(c, r) PROVE KeyInv'
  <2> DEFINE x == IF rows[r].status # "HELD" THEN "conflict"
                  ELSE IF Due(r) THEN "sweep" ELSE "update"
             s == [call[c] EXCEPT !.op = "confirm", !.row = r, !.step = x]
  <2>1. x \in {"conflict", "sweep", "update"} /\ x \in Steps
    BY DEF Steps
  <2>2. call' = [call EXCEPT ![c] = s] /\ UNCHANGED rows /\ call[c].step = "start"
    BY <1>4 DEF Confirm
  <2> HIDE DEF x
  <2>3. s \in Call /\ s.step = x /\ s.op = "confirm"
    BY <1>1, <2>1 DEF Call
  <2> HIDE DEF s
  <2> QED BY <1>2, <2>1, <2>2, <2>3 DEF Steps, Fits
<1>5. ASSUME NEW r \in Requests, NEW allowed \in BOOLEAN, Cancel(c, r, allowed) PROVE KeyInv'
  <2> DEFINE x == IF rows[r].status \in Active /\ allowed THEN "update" ELSE "conflict"
             s == [call[c] EXCEPT !.op = "cancel", !.row = r, !.step = x]
  <2>1. x \in {"conflict", "update"} /\ x \in Steps
    BY DEF Steps
  <2>2. call' = [call EXCEPT ![c] = s] /\ UNCHANGED rows /\ call[c].step = "start"
    BY <1>5 DEF Cancel
  <2> HIDE DEF x
  <2>3. s \in Call /\ s.step = x /\ s.op = "cancel"
    BY <1>1, <2>1 DEF Call
  <2> HIDE DEF s
  <2> QED BY <1>2, <2>1, <2>2, <2>3 DEF Steps, Fits
<1> QED BY <1>3, <1>4, <1>5 DEF Start

LEMMA UpdateKeys == ASSUME IInv, KeyInv, NEW c \in Requests, Update(c) PROVE KeyInv'
<1> DEFINE r == call[c].row
           s == [call[c] EXCEPT !.step = "ok", !.row = r]
<1>1. call[c] \in Call /\ call[c].step = "update" /\ call[c].op # "create"
  BY DEF IInv, Typed, TypeOK, Update, KeyInv, Stage, Fits
<1>2. CASE ~Allows(call[c].op, r)
  BY <1>1, <1>2, GoesTo DEF Update, Fails, Goes, Steps, Fits
<1>3. CASE Allows(call[c].op, r)
  <2>1. call' = [call EXCEPT ![c] = s]
    BY <1>3 DEF Update, Returns
  <2>2. s \in Call /\ s.step = "ok" /\ s.op = call[c].op
    BY <1>1 DEF Call, Steps
  <2>3. rows[r].status # "none"
    BY <1>3 DEF Allows, Active
  <2>4. Change({r}, "CONFIRMED", "confirmed") \/ Change({r}, "CANCELLED", "cancelled")
    BY <1>3 DEF Update
  <2> HIDE DEF r, s
  <2>5. SameRows
    <3>1. {"CONFIRMED", "CANCELLED"} \subseteq Statuses \ {"none"}
      BY DEF Statuses
    <3> QED BY <2>3, <2>4, <3>1, ChangeKeepsRows
  <2>6. MayBecome(c, s)
    BY <1>1, <2>2 DEF MayBecome, Fits
  <2> QED BY <2>1, <2>2, <2>5, <2>6, Moves
<1> QED BY <1>2, <1>3

LEMMA ServeKeys == ASSUME IInv, KeyInv, NEW c \in Requests, Serve(c) PROVE KeyInv'
<1>1. CASE Replay(c)
  <2>1. CASE Original(c) # {}
    BY <1>1, <2>1, ReplaysKeys DEF Replay
  <2>2. CASE Original(c) = {}
    BY <1>1, <2>2, GoesTo DEF Replay, Steps, KeyInv, Stage, Fits
  <2> QED BY <2>1, <2>2
<1>2. ASSUME NEW allows \in BOOLEAN, Policy(c, allows) PROVE KeyInv'
  BY <1>2, GoesTo DEF Policy, Fails, Goes, Steps, KeyInv, Stage, Fits
<1>3. CASE Check(c)
  <2>1. call[c].step = "entered" /\ UNCHANGED rows /\ Entering(c)
    BY <1>3 DEF Check, Entering
  <2>2. Goes(c, "conflict") \/ Goes(c, "checked")
    BY <1>3 DEF Check, Fails, Goes
  <2> QED BY <2>1, <2>2, GoesTo DEF Steps, Fits
<1>4. CASE Deadlock(c)
  <2>1. call[c].step = "entered" /\ UNCHANGED rows /\ Goes(c, "error")
    BY <1>4 DEF Deadlock, Fails, Goes
  <2> QED BY <2>1, GoesTo DEF Steps, Fits
<1>5. CASE Duplicate(c)
  BY <1>5, ReplaysKeys DEF Duplicate
<1> QED BY <1>1, <1>2, <1>3, <1>4, <1>5, EnterKeys, CommitKeys, UpdateKeys DEF Serve

LEMMA SweepKeys == ASSUME IInv, KeyInv, NEW c \in Requests \cup Jobs, Sweep(c) PROVE KeyInv'
<1>1. call[c] \in Call /\ call[c].step \in {"sweep", "expire"}
  BY DEF IInv, Typed, TypeOK, Sweep, Select, Expire
<1>2. c \in Requests => call[c].op \in {"create", "confirm"}
  BY <1>1 DEF KeyInv, Stage, Fits
<1>3. ASSUME NEW s, s \in Call, call' = [call EXCEPT ![c] = s], SameRows,
             c \in Requests => /\ s.step \in {"sweep", "expire", "insert", "conflict"}
                               /\ s.op = call[c].op
      PROVE  KeyInv'
  BY <1>1, <1>2, <1>3, Moves DEF MayBecome, Fits
<1>4. CASE Select(c)
  <2>1. SameRows
    BY <1>4 DEF Select, SameRows
  <2>2. CASE Goes(c, Swept(c))
    <3> DEFINE s == [call[c] EXCEPT !.step = Swept(c)]
    <3>1. Swept(c) \in Steps
      BY DEF Swept, Steps
    <3>2. s \in Call /\ s.step = Swept(c) /\ s.op = call[c].op
      BY <1>1, <3>1 DEF Call
    <3>3. call' = [call EXCEPT ![c] = s]
      BY <2>2 DEF Goes
    <3>4. c \in Requests => Swept(c) \in {"insert", "conflict"}
      BY <1>2 DEF Swept
    <3> HIDE DEF s
    <3> QED BY <1>3, <2>1, <3>2, <3>3, <3>4
  <2>3. ASSUME NEW batch \in SUBSET Requests,
               call' = [call EXCEPT ![c].step = "expire", ![c].batch = batch]
        PROVE  KeyInv'
    <3> DEFINE s == [call[c] EXCEPT !.step = "expire", !.batch = batch]
    <3>1. s \in Call /\ s.step = "expire" /\ s.op = call[c].op
      BY <1>1 DEF Call, Steps
    <3>2. call' = [call EXCEPT ![c] = s]
      BY <2>3
    <3> HIDE DEF s
    <3> QED BY <1>3, <2>1, <3>1, <3>2
  <2>4. {r \in Requests : Due(r)} \subseteq Requests
    OBVIOUS
  <2> QED BY <1>4, <2>2, <2>3, <2>4 DEF Select
<1>5. CASE Expire(c)
  <2> DEFINE s == [call[c] EXCEPT !.step = "sweep", !.batch = {}]
  <2>1. s \in Call /\ s.step = "sweep" /\ s.op = call[c].op
    BY <1>1 DEF Call, Steps
  <2>2. call' = [call EXCEPT ![c] = s]
    BY <1>5 DEF Expire
  <2>3. SameRows
    BY <1>5, ChangeKeepsRows DEF Expire, Due, Statuses
  <2> HIDE DEF s
  <2> QED BY <1>3, <2>1, <2>2, <2>3
<1> QED BY <1>4, <1>5 DEF Sweep

LEMMA AbortKeys == ASSUME IInv, KeyInv, NEW c \in Requests \cup Jobs, Abort(c) PROVE KeyInv'
<1> DEFINE x == IF c \in Jobs THEN "start" ELSE "error"
           s == [call[c] EXCEPT !.step = x, !.batch = {}]
<1>1. call[c] \in Call /\ call[c].step # "ok" /\ UNCHANGED rows
  BY DEF IInv, Typed, TypeOK, Abort, Running
<1>2. x \in Steps /\ (c \in Requests => x = "error")
  BY ReservationsAssumption DEF Steps
<1>3. call' = [call EXCEPT ![c] = s]
  BY DEF Abort
<1> HIDE DEF x
<1>4. s \in Call /\ s.step = x
  BY <1>1, <1>2 DEF Call
<1> HIDE DEF s
<1>5. c \in Requests => MayBecome(c, s)
  BY <1>1, <1>2, <1>4 DEF MayBecome, Fits
<1>6. SameRows
  BY <1>1 DEF SameRows
<1> QED BY <1>3, <1>4, <1>5, <1>6, Moves

LEMMA StartSweepKeys == ASSUME IInv, KeyInv, NEW c \in Jobs, StartSweep(c) PROVE KeyInv'
<1> DEFINE s == [call[c] EXCEPT !.op = "sweep", !.step = "sweep"]
<1>1. s \in Call
  <2>1. call[c] \in Call
    BY DEF IInv, Typed, TypeOK
  <2> QED BY <2>1 DEF Call, Steps
<1>2. call' = [call EXCEPT ![c] = s] /\ UNCHANGED rows
  BY DEF StartSweep
<1>3. c \notin Requests
  BY ReservationsAssumption
<1> HIDE DEF s
<1> QED BY <1>1, <1>2, <1>3, Moves DEF SameRows

LEMMA TickKeys == ASSUME IInv, KeyInv, Tick PROVE KeyInv'
<1>1. SameRows
  <2>1. \A r \in Requests : rows[r] \in Row
    BY DEF IInv, Typed, TypeOK
  <2> QED BY <2>1 DEF Tick, Row, SameRows
<1>2. call' = call
  BY DEF Tick
<1>3. KeysUnique'
  BY <1>1, SameKeys DEF KeyInv
<1>4. ASSUME NEW c \in Requests PROVE (Stage(c) /\ Own(c) /\ Answered(c) /\ Alone(c))'
  BY <1>1, <1>2 DEF KeyInv, SameRows, Stage, Own, Answered, AnsweredBy, Alone, Original,
                    Entering, Entitled
<1> QED BY <1>3, <1>4 DEF KeyInv

LEMMA InitKeys == Init => KeyInv
<1> SUFFICES ASSUME Init PROVE KeyInv
  OBVIOUS
<1>1. /\ \A r \in Requests : rows[r].status = "none"
      /\ \A c \in Requests : call[c].step = "start" /\ call[c].op = "-"
  BY DEF Init
<1> QED BY <1>1 DEF KeyInv, KeysUnique, Stage, Fits, Own, Answered, Alone, Entering

LEMMA NextKeys == IInv /\ KeyInv /\ [Next]_vars => KeyInv'
<1> SUFFICES ASSUME IInv, KeyInv, [Next]_vars PROVE KeyInv'
  OBVIOUS
<1>1. CASE UNCHANGED vars
  BY <1>1 DEF vars, KeyInv, KeysUnique, Stage, Own, Answered, AnsweredBy, Alone, Original,
              Entering, Entitled
<1> QED BY <1>1, StartKeys, ServeKeys, SweepKeys, AbortKeys, StartSweepKeys, TickKeys DEF Next

-----------------------------------------------------------------------------
(* Who is told of a conflict: the action of ConflictsAreOthers.            *)
ConflictsWithOther(c) ==
    call[c].op = "create" /\ call[c].key # NoKey
      /\ call[c].step # "conflict" /\ call'[c].step = "conflict" =>
    \A r \in Requests : rows[r].status # "none" /\ rows[r].key = call[c].key =>
        rows[r].interval # call[c].interval

(* A step of another one, or one that ends otherwise, tells nobody.        *)
LEMMA ToldNothing ==
    ASSUME NEW c \in Requests, call'[c] = call[c] \/ call'[c].step # "conflict"
    PROVE  ConflictsWithOther(c)
BY DEF ConflictsWithOther

(* The original of a key is the only row with it, and who is inserting its *)
(* row has none.                                                           *)
LEMMA ServeTells ==
    ASSUME IInv, KeyInv, NEW c \in Requests, Serve(c) PROVE ConflictsWithOther(c)
<1>1. call \in [Requests \cup Jobs -> Call]
  BY DEF IInv, Typed, TypeOK
<1>2. \A x : Goes(c, x) => call'[c].step = x
  BY <1>1 DEF Goes, Call
<1>3. ASSUME Replays(c) PROVE ConflictsWithOther(c)
  <2>1. PICK r \in Original(c) : IF rows[r].interval = call[c].interval THEN Returns(c, r)
                                 ELSE Fails(c, "conflict")
    BY <1>3 DEF Replays
  <2>2. CASE rows[r].interval = call[c].interval
    <3>1. call'[c].step = "ok"
      BY <1>1, <2>1, <2>2 DEF Returns, Call
    <3> QED BY <3>1, ToldNothing
  <2>3. CASE rows[r].interval # call[c].interval
    BY <2>1, <2>3 DEF KeyInv, KeysUnique, Original, ConflictsWithOther
  <2> QED BY <2>2, <2>3
<1>4. CASE Replay(c)
  <2>1. CASE Original(c) # {}
    BY <1>3, <1>4, <2>1 DEF Replay
  <2>2. CASE Original(c) = {}
    BY <1>2, <1>4, <2>2, ToldNothing DEF Replay
  <2> QED BY <2>1, <2>2
<1>5. ASSUME NEW allows \in BOOLEAN, Policy(c, allows) PROVE ConflictsWithOther(c)
  BY <1>2, <1>5, ToldNothing DEF Policy, Fails, Goes
<1>6. CASE Enter(c)
  BY <1>2, <1>6, ToldNothing DEF Enter
<1>7. CASE Check(c)
  <2>1. call[c].key # NoKey => Original(c) = {}
    BY <1>7 DEF Check, KeyInv, Alone, Entering, Entitled
  <2> QED BY <2>1 DEF ConflictsWithOther, Original
<1>8. CASE Deadlock(c)
  BY <1>2, <1>8, ToldNothing DEF Deadlock, Fails, Goes
<1>9. CASE Commit(c)
  <2>1. call'[c].step = "ok"
    BY <1>1, <1>9 DEF Commit, Returns, Call
  <2> QED BY <2>1, ToldNothing
<1>10. CASE Duplicate(c)
  BY <1>3, <1>10 DEF Duplicate
<1>11. CASE Update(c)
  BY <1>11 DEF Update, KeyInv, Stage, Fits, ConflictsWithOther
<1> QED BY <1>4, <1>5, <1>6, <1>7, <1>8, <1>9, <1>10, <1>11 DEF Serve

LEMMA SweepTells ==
    ASSUME IInv, NEW c \in Requests, Sweep(c) \/ Abort(c) PROVE ConflictsWithOther(c)
<1>1. call \in [Requests \cup Jobs -> Call]
  BY DEF IInv, Typed, TypeOK
<1>2. CASE call[c].op # "create"
  BY <1>2 DEF ConflictsWithOther
<1>3. CASE call[c].op = "create"
  <2>1. ASSUME NEW x, NEW b, \/ Goes(c, x)
                             \/ call' = [call EXCEPT ![c].step = x, ![c].batch = b]
        PROVE  call'[c].step = x
    BY <1>1, <2>1 DEF Goes, Call
  <2>2. CASE Select(c)
    <3>1. Swept(c) = "insert"
      BY <1>3 DEF Swept
    <3>2. call'[c].step \in {"insert", "expire"}
      BY <2>1, <2>2, <3>1 DEF Select
    <3> QED BY <3>2, ToldNothing
  <2>3. CASE Expire(c)
    BY <2>1, <2>3, ToldNothing DEF Expire
  <2>4. CASE Abort(c)
    <3> DEFINE x == IF c \in Jobs THEN "start" ELSE "error"
    <3>1. call' = [call EXCEPT ![c].step = x, ![c].batch = {}] /\ x # "conflict"
      BY <2>4 DEF Abort
    <3> HIDE DEF x
    <3> QED BY <2>1, <3>1, ToldNothing
  <2> QED BY <2>2, <2>3, <2>4 DEF Sweep
<1> QED BY <1>2, <1>3

LEMMA NextTells == IInv /\ KeyInv /\ [Next]_vars => \A c \in Requests : ConflictsWithOther(c)
<1> SUFFICES ASSUME IInv, KeyInv, [Next]_vars, NEW c \in Requests PROVE ConflictsWithOther(c)
  OBVIOUS
<1>1. call \in [Requests \cup Jobs -> Call]
  BY DEF IInv, Typed, TypeOK
<1>2. CASE Start(c)
  BY <1>2 DEF Start, Create, Confirm, Cancel, KeyInv, Stage, Fits, ConflictsWithOther
<1>3. ASSUME NEW d \in Requests \cup Jobs, NEW s, call' = [call EXCEPT ![d] = s], c # d
      PROVE  ConflictsWithOther(c)
  BY <1>1, <1>3, ToldNothing
<1>4. ASSUME NEW d \in Requests \ {c}, Start(d) \/ Serve(d) PROVE ConflictsWithOther(c)
  <2>1. \E s : call' = [call EXCEPT ![d] = s]
    BY <1>4 DEF Start, Create, Confirm, Cancel, Serve, Replay, Replays, Policy, Enter, Check,
                Deadlock, Commit, Duplicate, Update, Goes, Fails, Returns
  <2> QED BY <1>3, <1>4, <2>1
<1>5. ASSUME NEW d \in (Requests \cup Jobs) \ {c}, Sweep(d) \/ Abort(d)
      PROVE  ConflictsWithOther(c)
  <2>1. \E s : call' = [call EXCEPT ![d] = s]
    BY <1>5 DEF Sweep, Select, Expire, Abort, Goes
  <2> QED BY <1>3, <1>5, <2>1
<1>6. ASSUME NEW d \in Jobs, StartSweep(d) PROVE ConflictsWithOther(c)
  <2>1. \E s : call' = [call EXCEPT ![d] = s]
    BY <1>6 DEF StartSweep
  <2> QED BY <1>3, <1>6, <2>1, ReservationsAssumption
<1>7. CASE Tick \/ UNCHANGED vars
  BY <1>7, ToldNothing DEF Tick, vars
<1> QED BY <1>2, <1>4, <1>5, <1>6, <1>7, ServeTells, SweepTells DEF Next

(* Whatever requests run at once and fail, the answers to a key name one   *)
(* reservation, the one that was asked for, and no request is told of a    *)
(* conflict with it (create of features/reservations/src/render.ts).       *)
THEOREM RetriesAlwaysReplay == Spec => RetriesReplay
<1>1. IInv /\ KeyInv /\ [Next]_vars => [\A c \in Requests : ConflictsWithOther(c)]_vars
  BY NextTells
<1>2. [][\A c \in Requests : ConflictsWithOther(c)]_vars => ConflictsAreOthers
  BY DEF ConflictsAreOthers, ConflictsWithOther
<1>3. KeyInv => OneReservationPerKey
  BY DEF KeyInv, KeysUnique, Answered, AnsweredBy, OneReservationPerKey
<1> QED BY <1>1, <1>2, <1>3, InitKeys, NextKeys, Invariance, PTL DEF Spec, RetriesReplay
=============================================================================
