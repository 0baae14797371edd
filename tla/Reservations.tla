---------------------------- MODULE Reservations ----------------------------
(***************************************************************************)
(* The reservations pack with holds (features/reservations/src/render.ts): *)
(* requests that create, confirm and cancel reservations, and the sweeps   *)
(* that expire holds, each a sequence of PostgreSQL transactions that      *)
(* interleaves with all the others.                                        *)
(*                                                                         *)
(* The exclusion constraint and every sweep of a request look at one       *)
(* resource, so there is one here.  Its time is divided into slots, and an *)
(* interval is the set of slots it covers.  A key stands for the owner (in *)
(* her organization) and her Idempotency-Key, and a fingerprint for the    *)
(* interval it is the digest of.                                           *)
(***************************************************************************)
EXTENDS Integers, Sequences, FiniteSets

CONSTANTS Requests,        \* of clients; a created row is named for its request
          Jobs,            \* sweeps: HoldExpiryJob and availability, per replica
          Keys, NoKey,     \* idempotency keys, and none
          Intervals,       \* sets of slots
          HoldTime,        \* HOLD_MINUTES, in ticks
          SweepSize,       \* `take: 100' of expireHolds
          MaxDisturbances  \* bound: transactions that fail, requests that die

ASSUME ReservationsAssumption ==
    /\ Requests \cap Jobs = {} /\ NoKey \notin Keys /\ {} \notin Intervals
    /\ HoldTime \in Nat \ {0} /\ SweepSize \in Nat \ {0} /\ MaxDisturbances \in Nat

VARIABLES
    rows,     \* the reservation table
    outbox,   \* of each row: the events enqueued with its changes, in order
    call,     \* of each request and job: how far it is
    disturbances

vars == <<rows, outbox, call, disturbances>>

Statuses == {"none", "HELD", "CONFIRMED", "CANCELLED", "EXPIRED"}

(* left: the ticks until holdExpiresAt.                                    *)
Row == [status: Statuses, key: Keys \cup {NoKey}, interval: Intervals \cup {{}},
        left: 0 .. HoldTime]

Steps == {"start", "replay", "policy", "sweep", "expire", "insert", "entered", "checked",
          "duplicate", "update", "ok", "conflict", "refused", "error"}

Call == [op: {"-", "create", "confirm", "cancel", "sweep"}, step: Steps,
         key: Keys \cup {NoKey}, interval: Intervals \cup {{}},
         row: Requests \cup {"-"}, batch: SUBSET Requests]

Running == Steps \ {"start", "ok", "conflict", "refused", "error"}

Init == /\ rows = [r \in Requests |-> [status |-> "none", key |-> NoKey, interval |-> {},
                                       left |-> 0]]
        /\ outbox = [r \in Requests |-> <<>>]
        /\ call = [c \in Requests \cup Jobs |->
                     [op |-> "-", step |-> "start", key |-> NoKey, interval |-> {},
                      row |-> "-", batch |-> {}]]
        /\ disturbances = 0

Goes(c, step) == call' = [call EXCEPT ![c].step = step]

(* Ends with the reservation r, or without one.                            *)
Returns(c, r)    == call' = [call EXCEPT ![c].step = "ok", ![c].row = r]
Fails(c, status) == call' = [call EXCEPT ![c].step = status]

Disturb == /\ disturbances < MaxDisturbances
           /\ disturbances' = disturbances + 1

-----------------------------------------------------------------------------
(* The exclusion constraint: no two HELD or CONFIRMED rows overlap.        *)
Active == {"HELD", "CONFIRMED"}

(* Mutant of Taken: holds are left out of the constraint's WHERE.          *)
TakenByConfirmed(interval) ==
    \E r \in Requests : rows[r].status = "CONFIRMED" /\ rows[r].interval \cap interval # {}

Taken(interval) == \E r \in Requests : /\ rows[r].status \in Active
                                       /\ rows[r].interval \cap interval # {}

-----------------------------------------------------------------------------
(* create.                                                                 *)
Create(c, key, interval) ==
    /\ call[c].step = "start"
    /\ call' = [call EXCEPT ![c] = [@ EXCEPT
                  !.op = "create", !.key = key, !.interval = interval,
                  !.step = IF key = NoKey THEN "policy" ELSE "replay"]]
    /\ UNCHANGED <<rows, outbox, disturbances>>

(* The row that was created with the key of c, if there is one.            *)
Original(c) == {r \in Requests : rows[r].status # "none" /\ rows[r].key = call[c].key}

(* The original reservation of the same request, or a conflict.            *)
Replays(c) == \E r \in Original(c) :
                 IF rows[r].interval = call[c].interval THEN Returns(c, r)
                 ELSE Fails(c, "conflict")

Replay(c) == /\ call[c].step = "replay"
             /\ IF Original(c) # {} THEN Replays(c) ELSE Goes(c, "policy")
             /\ UNCHANGED <<rows, outbox, disturbances>>

(* The resource is not there, or the custom policy throws; or neither.     *)
Policy(c, allows) == /\ call[c].step = "policy"
                     /\ IF allows THEN Goes(c, "sweep") ELSE Fails(c, "refused")
                     /\ UNCHANGED <<rows, outbox, disturbances>>

(* Is the request putting its row into the indexes?                        *)
Entering(c) == call[c].step \in {"entered", "checked"}

(* Mutant of Enter: the constraint's index is older than that of the keys. *)
EnterLate(c) ==
    /\ call[c].step = "insert"
    /\ call[c].key # NoKey =>
          \A d \in Requests : Entering(d) => call[d].key # call[c].key
    /\ IF Taken(call[c].interval) THEN Fails(c, "conflict")
       ELSE IF call[c].key # NoKey /\ Original(c) # {} THEN Goes(c, "duplicate")
       ELSE Goes(c, "entered")
    /\ UNCHANGED <<rows, outbox, disturbances>>

(* The INSERT.  Its entry in the unique index of the keys comes first, and *)
(* waits for the insert of another row with the key to end.                *)
Enter(c) ==
    /\ call[c].step = "insert"
    /\ call[c].key # NoKey =>
          \A d \in Requests : Entering(d) => call[d].key # call[c].key
    /\ IF call[c].key # NoKey /\ Original(c) # {} THEN Goes(c, "duplicate")
       ELSE Goes(c, "entered")
    /\ UNCHANGED <<rows, outbox, disturbances>>

(* Then its entry in the exclusion constraint's, which is checked against  *)
(* what is there and waits for what others are still inserting.            *)
Rivals(c) == {d \in Requests \ {c} : /\ Entering(d)
                                     /\ call[d].interval \cap call[c].interval # {}}

Check(c) ==
    /\ call[c].step = "entered"
    /\ \/ Taken(call[c].interval) /\ Fails(c, "conflict")
       \/ ~Taken(call[c].interval) /\ Rivals(c) = {} /\ Goes(c, "checked")
    /\ UNCHANGED <<rows, outbox, disturbances>>

(* Two inserts that wait for each other: PostgreSQL aborts one of them,    *)
(* with an error that is neither of the two create knows.                  *)
Deadlock(c) ==
    /\ call[c].step = "entered" /\ ~Taken(call[c].interval)
    /\ \E d \in Rivals(c) : call[d].step = "entered" /\ ~Taken(call[d].interval)
    /\ Fails(c, "error")
    /\ UNCHANGED <<rows, outbox, disturbances>>

Commit(c) ==
    /\ call[c].step = "checked"
    /\ rows' = [rows EXCEPT ![c] = [status |-> "HELD", key |-> call[c].key,
                                    interval |-> call[c].interval, left |-> HoldTime]]
    /\ outbox' = [outbox EXCEPT ![c] = <<"created">>]
    /\ Returns(c, c)
    /\ UNCHANGED disturbances

(* P2002: the original of the key is there now.                            *)
Duplicate(c) == /\ call[c].step = "duplicate"
                /\ Replays(c)
                /\ UNCHANGED <<rows, outbox, disturbances>>

-----------------------------------------------------------------------------
(* expireHolds, in transactions of SweepSize rows, until none is due.      *)
Due(r) == rows[r].status = "HELD" /\ rows[r].left = 0

StartSweep(c) == /\ call[c].step = "start"
                 /\ call' = [call EXCEPT ![c].op = "sweep", ![c].step = "sweep"]
                 /\ UNCHANGED <<rows, outbox, disturbances>>

(* Mutant of Swept: the job runs once.                                     *)
SweptOnce(c) == CASE call[c].op = "create"  -> "insert"
                  [] call[c].op = "confirm" -> "conflict"
                  [] OTHER                  -> "ok"

(* What comes after it: the insert, the conflict of a confirmation that    *)
(* comes too late, or for a job to start over again.                       *)
Swept(c) == CASE call[c].op = "create"  -> "insert"
              [] call[c].op = "confirm" -> "conflict"
              [] OTHER                  -> "start"

Select(c) ==
    /\ call[c].step = "sweep"
    /\ LET due == {r \in Requests : Due(r)}
       IN  IF due = {} THEN Goes(c, Swept(c))
           ELSE \E batch \in SUBSET due :
                  /\ Cardinality(batch) = IF Cardinality(due) < SweepSize
                                          THEN Cardinality(due) ELSE SweepSize
                  /\ call' = [call EXCEPT ![c].step = "expire", ![c].batch = batch]
    /\ UNCHANGED <<rows, outbox, disturbances>>

(* A change of status and its event, in one transaction.                   *)
Change(changed, status, event) ==
    /\ rows' = [r \in Requests |-> IF r \in changed
                   THEN [rows[r] EXCEPT !.status = status, !.left = 0] ELSE rows[r]]
    /\ outbox' = [r \in Requests |-> IF r \in changed
                   THEN Append(outbox[r], event) ELSE outbox[r]]

(* Mutant of Expire: every selected row is updated.                        *)
ExpireSelected(c) ==
    /\ call[c].step = "expire"
    /\ Change(call[c].batch, "EXPIRED", "expired")
    /\ call' = [call EXCEPT ![c].step = "sweep", ![c].batch = {}]
    /\ UNCHANGED disturbances

(* Those of the selected rows that are still HELD and due.                 *)
Expire(c) ==
    /\ call[c].step = "expire"
    /\ Change({r \in call[c].batch : Due(r)}, "EXPIRED", "expired")
    /\ call' = [call EXCEPT ![c].step = "sweep", ![c].batch = {}]
    /\ UNCHANGED disturbances

-----------------------------------------------------------------------------
(* confirm and cancel: the row is read and judged, and then updated if it  *)
(* still is in a status that allows it.  The time confirm compares with    *)
(* holdExpiresAt was taken before it was read.                             *)
Confirm(c, r) ==
    /\ call[c].step = "start" /\ rows[r].status # "none"
    /\ call' = [call EXCEPT ![c] = [@ EXCEPT
                  !.op = "confirm", !.row = r,
                  !.step = IF rows[r].status # "HELD" THEN "conflict"
                           ELSE IF Due(r) THEN "sweep" ELSE "update"]]
    /\ UNCHANGED <<rows, outbox, disturbances>>

Cancel(c, r, allowed) ==
    /\ call[c].step = "start" /\ rows[r].status # "none"
    /\ call' = [call EXCEPT ![c] = [@ EXCEPT
                  !.op = "cancel", !.row = r,
                  !.step = IF rows[r].status \in Active /\ allowed THEN "update"
                           ELSE "conflict"]]
    /\ UNCHANGED <<rows, outbox, disturbances>>

(* Mutant of Allows: what was read decides.                                *)
AllowsAsRead(op, r) == TRUE

Allows(op, r) == rows[r].status \in (IF op = "confirm" THEN {"HELD"} ELSE Active)

Update(c) ==
    /\ call[c].step = "update"
    /\ LET r == call[c].row
       IN  IF ~Allows(call[c].op, r)
           THEN Fails(c, "conflict") /\ UNCHANGED <<rows, outbox>>
           ELSE /\ IF call[c].op = "confirm" THEN Change({r}, "CONFIRMED", "confirmed")
                   ELSE Change({r}, "CANCELLED", "cancelled")
                /\ Returns(c, r)
    /\ UNCHANGED disturbances

-----------------------------------------------------------------------------
(* A query or a transaction fails or the process dies: nothing is changed  *)
(* and the client does not learn what became of her request.  A job logs   *)
(* it and runs again in a minute.                                          *)
Abort(c) == /\ call[c].step \in Running
            /\ Disturb
            /\ call' = [call EXCEPT ![c].step = IF c \in Jobs THEN "start" ELSE "error",
                                    ![c].batch = {}]
            /\ UNCHANGED <<rows, outbox>>

Tick == /\ \E r \in Requests : rows[r].left > 0
        /\ rows' = [r \in Requests |-> [rows[r] EXCEPT !.left = IF @ > 0 THEN @ - 1 ELSE 0]]
        /\ UNCHANGED <<outbox, call, disturbances>>

-----------------------------------------------------------------------------
Start(c) == \/ \E k \in Keys \cup {NoKey}, i \in Intervals : Create(c, k, i)
            \/ \E r \in Requests : Confirm(c, r)
            \/ \E r \in Requests, allowed \in BOOLEAN : Cancel(c, r, allowed)

Serve(c) == \/ Replay(c) \/ (\E allows \in BOOLEAN : Policy(c, allows))
            \/ Enter(c) \/ Check(c) \/ Deadlock(c) \/ Commit(c) \/ Duplicate(c)
            \/ Update(c)

Sweep(c) == Select(c) \/ Expire(c)

Next == \/ \E c \in Requests : Start(c) \/ Serve(c)
        \/ \E c \in Jobs : StartSweep(c)
        \/ \E c \in Requests \cup Jobs : Sweep(c) \/ Abort(c)
        \/ Tick

(* The job is run every minute, the database serves it, and time passes;   *)
(* nothing is asked of the clients' requests.                              *)
Fairness == /\ \A c \in Jobs : WF_vars(StartSweep(c) \/ Sweep(c))
            /\ WF_vars(Tick)

Spec == Init /\ [][Next]_vars /\ Fairness

-----------------------------------------------------------------------------
TypeOK == /\ rows \in [Requests -> Row]
          /\ \A r \in Requests : rows[r].status # "HELD" => rows[r].left = 0
          /\ \A r \in Requests : Len(outbox[r]) <= 3
          /\ call \in [Requests \cup Jobs -> Call]
          /\ disturbances \in 0 .. MaxDisturbances

(* No slot is held or confirmed twice.  render.ts overlapSql.              *)
NoOverlap ==
    \A r, s \in Requests : r # s /\ {rows[r].status, rows[s].status} \subseteq Active =>
        rows[r].interval \cap rows[s].interval = {}

(* The events of a reservation that has come to this status.               *)
Lives(status) ==
    CASE status = "none"      -> {<<>>}
      [] status = "HELD"      -> {<<"created">>}
      [] status = "CONFIRMED" -> {<<"created", "confirmed">>}
      [] status = "EXPIRED"   -> {<<"created", "expired">>}
      [] status = "CANCELLED" -> {<<"created", "cancelled">>,
                                  <<"created", "confirmed", "cancelled">>}

(* The events of a reservation tell its life: each change of status is     *)
(* announced once, none that did not happen is, and none follows a         *)
(* terminal one.  feature.ts reservation-lifecycle; render.ts confirm,     *)
(* cancel, expireHolds.                                                    *)
EventsTellLife == \A r \in Requests : outbox[r] \in Lives(rows[r].status)

(* The answers to a key, at once or later, name one reservation, and the   *)
(* one that was asked for.                                                 *)
OneReservationPerKey ==
    \A c \in Requests : call[c].op = "create" /\ call[c].step = "ok" =>
        /\ rows[call[c].row].interval = call[c].interval
        /\ \A d \in Requests :
              /\ call[d].op = "create" /\ call[d].step = "ok"
              /\ call[d].key = call[c].key /\ call[c].key # NoKey
              => call[d].row = call[c].row

(* A request is not told of a conflict with the very reservation that was  *)
(* made for its key.                                                       *)
ConflictsAreOthers ==
    [][\A c \in Requests :
         call[c].op = "create" /\ call[c].key # NoKey
           /\ call[c].step # "conflict" /\ call'[c].step = "conflict" =>
         \A r \in Requests : rows[r].status # "none" /\ rows[r].key = call[c].key =>
             rows[r].interval # call[c].interval]_vars

(* However often a request is repeated with its key, the original          *)
(* reservation is returned: "Repeat the same key to retry safely".         *)
(* render.ts create, controllerFile; docs/FEATURE_PACKS.md:78.             *)
RetriesReplay == []OneReservationPerKey /\ ConflictsAreOthers

(* A hold that is not confirmed gives its interval back.                   *)
(* render.ts expireHolds, HoldExpiryJob.                                   *)
HoldsEnd == \A r \in Requests : rows[r].status = "HELD" ~> rows[r].status # "HELD"

(* Of simultaneous requests for an interval one gets it and the others a   *)
(* conflict: [201, 409].  render.ts, the specification of the pack:1321.   *)
LosersGetConflict ==
    disturbances = 0 => \A c \in Requests : call[c].step # "error"
=============================================================================
