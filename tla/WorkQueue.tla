----------------------------- MODULE WorkQueue -----------------------------
(***************************************************************************)
(* The PostgreSQL work queue that background jobs, the notification outbox *)
(* and webhook deliveries share (QUEUE_RUNNER in                           *)
(* targets/nestjs-prisma/src/project.ts): rows with a status, an attempt   *)
(* counter, the time of the next attempt and a lease.                      *)
(*                                                                         *)
(* Times are kept relative to now, in ticks: a row is due when `due' is 0, *)
(* and its lockedUntil is `left' ticks away, 0 when it is now and -1 once  *)
(* it is past.  PostgreSQL's NOW() and the processes' Date.now() are one   *)
(* clock.                                                                  *)
(***************************************************************************)
EXTENDS Integers, Sequences, FiniteSets

CONSTANTS Lease,        \* QUEUE_LEASE_MS, in ticks
          BatchSize,    \* QUEUE_BATCH_SIZE
          MaxAttempts,  \* the pack's maxAttempts
          BaseDelay, MaxDelay  \* of the exponential backoff, in ticks

ASSUME QueueAssumption == /\ Lease \in Nat \ {0} /\ BatchSize \in Nat \ {0}
                          /\ MaxAttempts \in Nat \ {0}
                          /\ BaseDelay \in Nat \ {0} /\ MaxDelay \in Nat \ {0}

Statuses == {"absent", "PENDING", "DONE", "FAILED", "deleted"}

Row == [status: Statuses, attempts: Nat, due: 0 .. MaxDelay,
        locked: BOOLEAN, left: -1 .. Lease]

NoRow     == [status |-> "absent", attempts |-> 0, due |-> 0, locked |-> FALSE, left |-> 0]
NewRow(d) == [NoRow EXCEPT !.status = "PENDING", !.due = d]

Leased(row)    == [row EXCEPT !.attempts = @ + 1, !.locked = TRUE, !.left = Lease]
Settled(row, s) == [row EXCEPT !.status = s, !.locked = FALSE, !.left = 0]
Retried(row, d) == [row EXCEPT !.due = d, !.locked = FALSE, !.left = 0]

Down(n, floor) == IF n > floor THEN n - 1 ELSE floor
Later(row) == [row EXCEPT !.due = Down(@, 0), !.left = IF row.locked THEN Down(@, -1) ELSE 0]

-----------------------------------------------------------------------------
(* queueRetryDelayMs: bounded exponential backoff of a 1-based attempt.    *)
RetryDelay(attempt) ==
    LET delay == BaseDelay * 2 ^ (IF attempt > 1 THEN attempt - 1 ELSE 0)
    IN  IF delay < MaxDelay THEN delay ELSE MaxDelay

(* Mutant of Claimable: a lease is only ever given up, it never runs out.  *)
ClaimableUnlocked(row) == row.status = "PENDING" /\ row.due = 0 /\ ~row.locked

(* Mutant of Claimable: leases are not looked at.                          *)
ClaimableAnyway(row) == row.status = "PENDING" /\ row.due = 0

(* The WHERE clause of queueClaimSql: lockedUntil IS NULL OR <= NOW().     *)
Claimable(row) == /\ row.status = "PENDING" /\ row.due = 0
                  /\ row.locked => row.left <= 0

(* ORDER BY "nextAttemptAt" LIMIT batchSize: the claimable rows that have  *)
(* fewer than BatchSize others ahead of them.                              *)
Page(ahead, rows) ==
    {r \in DOMAIN rows : /\ Claimable(rows[r])
                         /\ Cardinality({k \in ahead[r] : Claimable(rows[k])}) < BatchSize}

(* The pages there can be when the order of the line is left open.         *)
Pages(rows) ==
    LET ready == {r \in DOMAIN rows : Claimable(rows[r])}
    IN  {page \in SUBSET ready :
           \/ page = ready /\ Cardinality(ready) <= BatchSize
           \/ Cardinality(page) = BatchSize}

(* Mutant of InLine: the row keeps its old place as well.                  *)
InLineTwice(ahead, rows, j, d) ==
    [k \in DOMAIN rows |->
       IF k = j
       THEN ahead[j] \cup {i \in DOMAIN rows \ {j} : rows[i].status = "PENDING" /\ rows[i].due <= d}
       ELSE IF rows[k].status = "PENDING" /\ rows[k].due > d THEN ahead[k] \cup {j} ELSE ahead[k]]

(* A row whose next attempt is d ticks away stands behind every other one  *)
(* that is due by then, and ahead of the rest.                             *)
InLine(ahead, rows, j, d) ==
    LET others == {k \in DOMAIN rows \ {j} : rows[k].status = "PENDING"}
        sooner == {k \in others : rows[k].due <= d}
    IN  [k \in DOMAIN rows |-> CASE k = j               -> sooner
                               [] k \in others \ sooner -> ahead[k] \cup {j}
                               [] OTHER                -> ahead[k] \ {j}]

Without(ahead, S) == [k \in DOMAIN ahead |-> IF k \in S THEN {} ELSE ahead[k] \ S]

(* The queued rows stand one behind the other, in the order of their       *)
(* nextAttemptAt.                                                          *)
Lined(ahead, rows) ==
    /\ ahead \in [DOMAIN rows -> SUBSET {k \in DOMAIN rows : rows[k].status = "PENDING"}]
    /\ \A j \in DOMAIN rows : rows[j].status # "PENDING" => ahead[j] = {}
    /\ \A j, k \in DOMAIN rows :
          rows[j].status = "PENDING" /\ rows[k].status = "PENDING" /\ j # k =>
             (j \in ahead[k] <=> k \notin ahead[j])
    /\ \A j \in DOMAIN rows : \A k \in ahead[j] :
          j # k /\ ahead[k] \subseteq ahead[j] /\ rows[k].due <= rows[j].due
=============================================================================
