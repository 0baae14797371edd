------------------------------ MODULE JobQueue ------------------------------
(***************************************************************************)
(* The jobs pack (features/jobs/src/render.ts): jobs are enqueued, and any *)
(* number of JobRunner instances claim batches under a lease, run handlers *)
(* and settle the rows; with handlers that fail or outlive their lease,    *)
(* database errors, and processes that die at any step.                    *)
(* TransactionalEnqueue has what enqueueing does to a caller's transaction.*)
(***************************************************************************)
EXTENDS WorkQueue

CONSTANTS Workers,          \* the JobRunner instances
          Jobs,             \* JobRecord rows, by (name, dedupeKey)
          MaxBatches,       \* MAX_BATCHES_PER_TICK
          MaxDisturbances   \* bound: crashes, database errors, overrun leases

ASSUME JobsAssumption == MaxBatches \in Nat \ {0} /\ MaxDisturbances \in Nat

VARIABLES
    rows,      \* the JobRecord table
    ahead,     \* of each pending row, those that the order of nextAttemptAt puts first
    phase,     \* of each runner: "idle", "work", or "next" batch to claim
    batches,   \* how many batches its tick has claimed
    full,      \* was the last of them a full one?
    active,    \* the executions of processJob in flight
    disturbances

runnerVars == <<phase, batches, full>>
vars == <<rows, ahead, runnerVars, active, disturbances>>

(* One processJob call.  It holds the lease of its claim: lockedUntil      *)
(* identifies the claim of a row, as the attempt does, because two claims  *)
(* of a row are a lease or a backoff apart.                                *)
Execution == [job: Jobs, attempt: Nat \ {0}, worker: Workers, left: -1 .. Lease,
              step: {"handle", "done", "error", "fatal"}, awaited: BOOLEAN]

Init == /\ rows = [j \in Jobs |-> NoRow] /\ ahead = [j \in Jobs |-> {}]
        /\ phase = [w \in Workers |-> "idle"]
        /\ batches = [w \in Workers |-> 0]
        /\ full = [w \in Workers |-> FALSE]
        /\ active = {}
        /\ disturbances = 0

Disturb == /\ disturbances < MaxDisturbances
           /\ disturbances' = disturbances + 1

-----------------------------------------------------------------------------
(* JobService.enqueue, runAt d ticks away.  Enqueueing what is there       *)
(* already runs into the unique index and changes nothing.                 *)
Enqueue(j, d) == /\ rows[j].status = "absent"
                 /\ rows' = [rows EXCEPT ![j] = NewRow(d)]
                 /\ ahead' = InLine(ahead, rows, j, d)
                 /\ UNCHANGED <<runnerVars, active, disturbances>>

-----------------------------------------------------------------------------
(* scheduledDispatch, dispatchNow: one tick at a time per instance.        *)
(* Mutant of Exhausted: the last attempt is never made.                    *)
ExhaustedEarly(row) == /\ row.status = "PENDING" /\ row.due = 0
                       /\ row.attempts >= MaxAttempts - 1
                       /\ row.locked => row.left < 0

(* Rows to retire, lockedUntil: { lt: new Date() }.                        *)
Exhausted(row) == /\ row.status = "PENDING" /\ row.due = 0
                  /\ row.attempts >= MaxAttempts
                  /\ row.locked => row.left < 0

(* claimBatch, one transaction: retire what is exhausted, claim a page,    *)
(* and consume an attempt of every row in it.                              *)
ClaimBatch(w) ==
    /\ phase[w] \in {"idle", "next"}
    /\ LET retired == {j \in Jobs : Exhausted(rows[j])}
           left    == [j \in Jobs |-> IF j \in retired THEN Settled(rows[j], "FAILED")
                                                       ELSE rows[j]]
           page    == Page(ahead, left)
       IN  /\ rows' = [j \in Jobs |-> IF j \in page THEN Leased(left[j]) ELSE left[j]]
           /\ ahead' = Without(ahead, retired)
           /\ active' = active \cup
                {[job |-> j, attempt |-> left[j].attempts + 1, worker |-> w,
                  left |-> Lease, step |-> "handle", awaited |-> TRUE] : j \in page}
           /\ full' = [full EXCEPT ![w] = (Cardinality(page) = BatchSize)]
    /\ batches' = [batches EXCEPT ![w] = IF phase[w] = "idle" THEN 1 ELSE @ + 1]
    /\ phase' = [phase EXCEPT ![w] = "work"]
    /\ UNCHANGED disturbances

(* Promise.all has resolved: another batch, or the end of the tick, which  *)
(* deletes terminal rows older than the retention.  They can be any of     *)
(* them, as a day or more is longer than everything else here.             *)
Resolved(w) == /\ phase[w] = "work"
               /\ \A e \in active : e.worker = w => ~e.awaited

More(w) == full[w] /\ batches[w] < MaxBatches

NextBatch(w) == /\ Resolved(w) /\ More(w)
                /\ phase' = [phase EXCEPT ![w] = "next"]
                /\ UNCHANGED <<rows, ahead, batches, full, active, disturbances>>

EndTick(w, old) ==
    /\ Resolved(w) /\ ~More(w)
    /\ old \subseteq {j \in Jobs : rows[j].status \in {"DONE", "FAILED"}}
    /\ rows' = [j \in Jobs |-> IF j \in old THEN Settled(rows[j], "deleted") ELSE rows[j]]
    /\ phase' = [phase EXCEPT ![w] = "idle"]
    /\ batches' = [batches EXCEPT ![w] = 0]
    /\ full' = [full EXCEPT ![w] = FALSE]
    /\ UNCHANGED <<ahead, active, disturbances>>

-----------------------------------------------------------------------------
(* processJob.                                                             *)
Becomes(e, step) == active' = (active \ {e}) \cup {[e EXCEPT !.step = step]}

(* The handler returns, throws, or throws NonRetryableJobError.  No        *)
(* handler and a payload that does not parse end like the latter.          *)
Handle(e, outcome) == /\ e.step = "handle" /\ outcome \in {"done", "error", "fatal"}
                      /\ Becomes(e, outcome)
                      /\ UNCHANGED <<rows, ahead, runnerVars, disturbances>>

(* Mutant of Holds: whoever has the lease now.                             *)
HoldsAnyLease(e) == rows[e.job].status = "PENDING" /\ rows[e.job].locked

(* where: { status: 'PENDING', lockedUntil: row.leaseUntil }               *)
Holds(e) == /\ rows[e.job].status = "PENDING" /\ rows[e.job].locked
            /\ rows[e.job].attempts = e.attempt

Final(e) == e.step = "fatal" \/ e.attempt >= MaxAttempts

(* settle: the row becomes DONE or FAILED if the lease is still held.      *)
Settle(e) ==
    /\ e.step = "done" \/ (e.step \in {"error", "fatal"} /\ Final(e))
    /\ IF Holds(e)
       THEN /\ rows' = [rows EXCEPT ![e.job] =
                           Settled(@, IF e.step = "done" THEN "DONE" ELSE "FAILED")]
            /\ ahead' = Without(ahead, {e.job})
       ELSE UNCHANGED <<rows, ahead>>
    /\ active' = active \ {e}
    /\ UNCHANGED <<runnerVars, disturbances>>

Retry(e) ==
    /\ e.step = "error" /\ ~Final(e)
    /\ IF Holds(e)
       THEN /\ rows' = [rows EXCEPT ![e.job] = Retried(@, RetryDelay(e.attempt))]
            /\ ahead' = InLine(ahead, rows, e.job, RetryDelay(e.attempt))
       ELSE UNCHANGED <<rows, ahead>>
    /\ active' = active \ {e}
    /\ UNCHANGED <<runnerVars, disturbances>>

(* The database refuses the update.  Recording DONE happens inside the     *)
(* handler's try, so that this counts as the handler having thrown.        *)
DoneNotRecorded(e) == /\ e.step = "done" /\ Disturb
                      /\ Becomes(e, "error")
                      /\ UNCHANGED <<rows, ahead, runnerVars>>

Freed(w) == /\ phase' = [phase EXCEPT ![w] = "idle"]
            /\ batches' = [batches EXCEPT ![w] = 0]
            /\ full' = [full EXCEPT ![w] = FALSE]

(* Otherwise the tick fails: the runner is free for the next one while the *)
(* rest of the batch is still running.                                     *)
FailureNotRecorded(e) ==
    /\ e.step \in {"error", "fatal"} /\ Disturb
    /\ active' = {IF f.worker = e.worker THEN [f EXCEPT !.awaited = FALSE] ELSE f :
                     f \in active \ {e}}
    /\ IF e.awaited THEN Freed(e.worker) ELSE UNCHANGED runnerVars
    /\ UNCHANGED <<rows, ahead>>

ClaimFails(w) == /\ phase[w] = "next" /\ Disturb
                 /\ Freed(w)
                 /\ UNCHANGED <<rows, ahead, active>>

(* The process dies, handlers and all, and is started again.               *)
Crash(w) == /\ phase[w] = "work" \/ \E e \in active : e.worker = w
            /\ Disturb
            /\ active' = {e \in active : e.worker # w}
            /\ Freed(w)
            /\ UNCHANGED <<rows, ahead>>

(* A tick of the clock.  Handlers end before their lease does, except for  *)
(* MaxDisturbances times.                                                  *)
Overruns(e) == e.left = 1
Tick == /\ IF \E e \in active : Overruns(e) THEN Disturb ELSE UNCHANGED disturbances
        /\ rows' = [j \in Jobs |-> Later(rows[j])]
        /\ active' = {[e EXCEPT !.left = Down(@, -1)] : e \in active}
        /\ UNCHANGED <<ahead, runnerVars>>

-----------------------------------------------------------------------------
Dispatch(w) == \/ ClaimBatch(w) \/ NextBatch(w)
               \/ \E old \in SUBSET Jobs : EndTick(w, old)

Process(e) == \/ \E o \in {"done", "error", "fatal"} : Handle(e, o)
              \/ Settle(e) \/ Retry(e)

Next == \/ \E j \in Jobs : \E d \in 0 .. MaxDelay : Enqueue(j, d)
        \/ \E w \in Workers : Dispatch(w) \/ ClaimFails(w) \/ Crash(w)
        \/ \E e \in active : Process(e) \/ DoneNotRecorded(e) \/ FailureNotRecorded(e)
        \/ Tick

(* setInterval keeps the runners polling, the event loop keeps what they   *)
(* have started going, and time passes; nobody has to enqueue anything and *)
(* nothing has to fail.                                                    *)
Fairness == /\ \A w \in Workers : WF_vars(Dispatch(w))
            /\ \A j \in Jobs : \A w \in Workers :
                  WF_vars(\E e \in active : e.job = j /\ e.worker = w /\ Process(e))
            /\ WF_vars(Tick)

Spec == Init /\ [][Next]_vars /\ Fairness

-----------------------------------------------------------------------------
TypeOK == /\ rows \in [Jobs -> Row]
          /\ Lined(ahead, rows)
          /\ phase \in [Workers -> {"idle", "next", "work"}]
          /\ batches \in [Workers -> 0 .. MaxBatches]
          /\ full \in [Workers -> BOOLEAN]
          /\ active \subseteq Execution
          /\ disturbances \in 0 .. MaxDisturbances

(* Two executions of one job overlap only when the earlier has outlived    *)
(* its lease.  render.ts claimBatch; docs/FEATURE_PACKS.md:104-112.        *)
LeaseExcludes ==
    \A e, f \in active : e.job = f.job /\ e.attempt < f.attempt => e.left <= 0

(* Only the execution that holds the latest claim of a job takes it off    *)
(* the queue, gives its lease up or postpones it; one that was overtaken   *)
(* changes nothing.  The exception is retiring, after the lease ran out.   *)
(* render.ts settle, processJob.                                           *)
GivenUpByHolder(j) ==
    /\ rows[j].status = "PENDING" /\ rows[j].locked
    /\ rows'[j].status # "PENDING" \/ ~rows'[j].locked
    => \/ \E e \in active \ active' : e.job = j /\ e.attempt = rows[j].attempts
       \/ rows[j].left < 0 /\ rows'[j].status = "FAILED"

LatestClaimSettles == [][\A j \in Jobs : GivenUpByHolder(j)]_vars

(* A job is DONE only when its handler has returned, and FAILED only when  *)
(* the handler ruled a retry out or every attempt was consumed.  It gets   *)
(* an attempt more than MaxAttempts only where the two conditions of       *)
(* claimBatch differ: claimed at the very instant its last lease ends.     *)
(* render.ts claimBatch (retire), processJob; queueClaimSql.               *)
HasReason(j) ==
    rows[j].status = "PENDING" =>
       /\ rows'[j].status = "DONE" =>
             \E e \in active : e.job = j /\ e.step = "done"
       /\ rows'[j].status = "FAILED" =>
             \/ rows[j].attempts >= MaxAttempts
             \/ \E e \in active : e.job = j /\ e.step = "fatal"
       /\ rows'[j].attempts > MaxAttempts /\ rows'[j].attempts # rows[j].attempts =>
             rows[j].locked /\ rows[j].left = 0

EndsForAReason == [][\A j \in Jobs : HasReason(j)]_vars

(* Every job that is queued ends, whatever crashes: no lease is kept for   *)
(* ever and the retry budget converges.  render.ts:266-272, 377-379.       *)
EveryJobEnds == \A j \in Jobs : rows[j].status = "PENDING" ~> rows[j].status # "PENDING"
=============================================================================
