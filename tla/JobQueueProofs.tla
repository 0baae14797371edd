---------------------------- MODULE JobQueueProofs ----------------------------
(***************************************************************************)
(* Proofs about JobQueue, for any number of runners and jobs, and of       *)
(* crashes, database errors and leases that are overrun.  And about the    *)
(* schedules of the jobs pack (Cron), for any schedules, dates, instances, *)
(* ticks and faults.                                                       *)
(***************************************************************************)
EXTENDS JobQueue, Cron, WorkQueueProofs

(* An execution made an attempt of its row, which no other one has made.   *)
Made(e) == /\ rows[e.job].status # "absent"
           /\ e.attempt <= rows[e.job].attempts
OneEach == \A e, f \in active : e.job = f.job /\ e.attempt = f.attempt => e = f

(* One that was overtaken has outlived its lease, and the latest has the   *)
(* lease of its row until the row is taken off the queue.                  *)
Overtaken(e) == e.attempt < rows[e.job].attempts => e.left <= 0
Latest(e) == /\ e.attempt = rows[e.job].attempts
             /\ rows[e.job].status = "PENDING"
             => rows[e.job].locked /\ e.left = rows[e.job].left

IInv == /\ rows \in [Jobs -> Row]
        /\ active \subseteq Execution
        /\ \A e \in active : Made(e) /\ Overtaken(e) /\ Latest(e)
        /\ OneEach

-----------------------------------------------------------------------------
(* Rows that are settled, and executions that end.                         *)
LEMMA SettledKeeps ==
    ASSUME IInv, NEW S, NEW s \in {"DONE", "FAILED", "deleted"}, active' \subseteq active,
           rows' = [j \in Jobs |-> IF j \in S THEN Settled(rows[j], s) ELSE rows[j]]
    PROVE  IInv'
<1>1. \A j \in Jobs : /\ rows'[j] \in Row
                      /\ rows'[j].attempts = rows[j].attempts
                      /\ IF j \in S THEN rows'[j].status = s ELSE rows'[j] = rows[j]
  BY SettledRow DEF IInv, Statuses
<1>2. rows' \in [Jobs -> Row]
  BY <1>1
<1>3. \A e \in active' : e \in active /\ e.job \in Jobs
  BY DEF IInv, Execution
<1>4. \A e \in active' : (Made(e) /\ Overtaken(e) /\ Latest(e))'
  BY <1>1, <1>3 DEF IInv, Made, Overtaken, Latest
<1> QED BY <1>2, <1>4 DEF IInv, OneEach

LEMMA EndedKeeps == ASSUME IInv, active' \subseteq active, UNCHANGED rows PROVE IInv'
  BY DEF IInv, OneEach, Made, Overtaken, Latest

(* An execution goes on, or is no longer awaited: it stays what it is of.  *)
Same(e, f) == e.job = f.job /\ e.attempt = f.attempt /\ e.left = f.left

LEMMA GoesOnKeeps ==
    ASSUME IInv, UNCHANGED rows, active' \subseteq Execution,
           \A g \in active' : \E e \in active : Same(e, g),
           \A g, h \in active', e \in active : Same(e, g) /\ Same(e, h) => g = h
    PROVE  IInv'
<1>1. \A e \in active' : (Made(e) /\ Overtaken(e) /\ Latest(e))'
  BY DEF IInv, Made, Overtaken, Latest, Same
<1>2. OneEach'
  BY DEF IInv, OneEach, Same
<1> QED BY <1>1, <1>2 DEF IInv

LEMMA BecomesKeeps ==
    ASSUME IInv, UNCHANGED rows, NEW e \in active,
           NEW step \in {"handle", "done", "error", "fatal"}, Becomes(e, step)
    PROVE  IInv'
<1> DEFINE g == [e EXCEPT !.step = step]
<1>1. g \in Execution /\ Same(e, g)
  BY DEF IInv, Execution, Same
<1>2. active' = (active \ {e}) \cup {g}
  BY DEF Becomes
<1> HIDE DEF g
<1>3. \A h \in active' : h = g \/ (h \in active /\ h # e)
  BY <1>2
<1>4. \A h \in active' : \E f \in active : Same(f, h)
  BY <1>1, <1>3 DEF Same
<1>5. \A h, i \in active', f \in active : Same(f, h) /\ Same(f, i) => h = i
  <2>1. \A h \in active', f \in active : Same(f, h) => IF h = g THEN f = e ELSE h = f
    BY <1>1, <1>3 DEF Same, IInv, OneEach
  <2>2. \A h \in active' : h = g \/ h # e
    BY <1>3
  <2> QED BY <2>1, <2>2
<1>6. active' \subseteq Execution
  BY <1>1, <1>3 DEF IInv
<1> QED BY <1>4, <1>5, <1>6, GoesOnKeeps

-----------------------------------------------------------------------------
LEMMA InitIInv == Init => IInv
<1>1. NoRow \in Row
  BY QueueAssumption DEF NoRow, Row, Statuses
<1> QED BY <1>1 DEF Init, IInv, OneEach

LEMMA EnqueueKeeps == ASSUME IInv, NEW j \in Jobs, NEW d \in 0 .. MaxDelay, Enqueue(j, d)
                      PROVE  IInv'
<1>1. rows' \in [Jobs -> Row]
  BY NewRowType DEF IInv, Enqueue
<1>2. \A e \in active : e.job \in Jobs /\ e.job # j
  BY DEF IInv, Made, Enqueue, Execution
<1>3. \A e \in active : rows'[e.job] = rows[e.job]
  BY <1>2 DEF IInv, Enqueue
<1>4. active' = active
  BY DEF Enqueue
<1> QED BY <1>1, <1>3, <1>4 DEF IInv, Made, Overtaken, Latest, OneEach

(* A claim: who holds a row that can be claimed has outlived its lease.    *)
LEMMA ClaimKeeps == ASSUME IInv, NEW w \in Workers, ClaimBatch(w) PROVE IInv'
<1> DEFINE retired == {j \in Jobs : Exhausted(rows[j])}
           left    == [j \in Jobs |-> IF j \in retired THEN Settled(rows[j], "FAILED")
                                                       ELSE rows[j]]
           page    == Page(ahead, left)
           New(j)  == [job |-> j, attempt |-> left[j].attempts + 1, worker |-> w,
                       left |-> Lease, step |-> "handle", awaited |-> TRUE]
<1>1. /\ rows' = [j \in Jobs |-> IF j \in page THEN Leased(left[j]) ELSE left[j]]
      /\ active' = active \cup {New(j) : j \in page}
  BY DEF ClaimBatch
<1>2. \A j \in page : j \in Jobs /\ Claimable(left[j])
  BY DEF Page
<1>3. \A j \in Jobs : /\ left[j] \in Row /\ left[j].attempts = rows[j].attempts
                      /\ left[j].status \in {rows[j].status, "FAILED"}
                      /\ left[j].status # "FAILED" => left[j] = rows[j]
  BY SettledRow DEF IInv, Statuses
<1> HIDE DEF retired, left, page
<1>4. \A j \in page : /\ left[j] = rows[j] /\ rows[j].status = "PENDING"
                      /\ rows[j].locked => rows[j].left <= 0
  BY <1>2, <1>3 DEF Claimable
<1>5. \A j \in Jobs :
        /\ rows'[j] \in Row
        /\ IF j \in page THEN /\ rows'[j].attempts = rows[j].attempts + 1
                             /\ rows'[j].status = "PENDING"
                             /\ rows'[j].locked /\ rows'[j].left = Lease
           ELSE rows'[j] = left[j]
  BY <1>1, <1>3, <1>4, LeasedRow
<1>6. rows' \in [Jobs -> Row]
  BY <1>1, <1>5
<1>7. \A j \in page : New(j) \in Execution
  BY <1>2, <1>3, QueueAssumption DEF Row, Execution
<1>8. active' \subseteq Execution
  BY <1>1, <1>7 DEF IInv
<1>9. ASSUME NEW e \in active PROVE (Made(e) /\ Overtaken(e) /\ Latest(e))'
  <2>1. /\ e.job \in Jobs /\ e.attempt \in Nat /\ e.left \in Int
        /\ Made(e) /\ Overtaken(e) /\ Latest(e) /\ rows[e.job].attempts \in Nat
    BY QueueAssumption DEF IInv, Execution, Row
  <2>2. CASE e.job \in page
    <3>1. e.left <= 0
      BY <2>1, <2>2, <1>4 DEF Made, Overtaken, Latest
    <3> QED BY <2>1, <2>2, <3>1, <1>5 DEF Made, Overtaken, Latest
  <2>3. CASE e.job \notin page
    BY <2>1, <2>3, <1>3, <1>5 DEF Made, Overtaken, Latest
  <2> QED BY <2>2, <2>3
<1>10. ASSUME NEW e \in active', NEW j \in page, e = New(j)
       PROVE  (Made(e) /\ Overtaken(e) /\ Latest(e))'
  <2>1. rows[j].attempts \in Nat /\ left[j].attempts = rows[j].attempts
    BY <1>2, <1>3 DEF IInv, Row
  <2>2. e.job = j /\ e.attempt = left[j].attempts + 1 /\ e.left = Lease
    BY <1>10
  <2> HIDE DEF New
  <2> QED BY <2>1, <2>2, <1>2, <1>5 DEF Made, Overtaken, Latest
<1>11. OneEach'
  <2>1. \A e \in active, j \in page : e.job = j => e.attempt # New(j).attempt
    BY <1>2, <1>3 DEF IInv, Made, Execution, Row
  <2>2. \A e, f \in active : e.job = f.job /\ e.attempt = f.attempt => e = f
    BY DEF IInv, OneEach
  <2>3. \A j \in page : New(j).job = j
    OBVIOUS
  <2> HIDE DEF New
  <2> QED BY <1>1, <2>1, <2>2, <2>3 DEF OneEach
<1> HIDE DEF New
<1>12. \A e \in active' : (Made(e) /\ Overtaken(e) /\ Latest(e))'
  BY <1>1, <1>9, <1>10
<1> QED BY <1>6, <1>8, <1>11, <1>12 DEF IInv

-----------------------------------------------------------------------------
LEMMA EndTickKeeps ==
    ASSUME IInv, NEW w \in Workers, NEW old \in SUBSET Jobs, EndTick(w, old) PROVE IInv'
  BY SettledKeeps DEF EndTick

LEMMA SettleKeeps == ASSUME IInv, NEW e \in active, Settle(e) PROVE IInv'
<1>1. e.job \in Jobs /\ active' \subseteq active
  BY DEF IInv, Execution, Settle
<1>2. CASE Holds(e)
  <2> DEFINE s == IF e.step = "done" THEN "DONE" ELSE "FAILED"
  <2>1. rows' = [j \in Jobs |-> IF j \in {e.job} THEN Settled(rows[j], s) ELSE rows[j]]
    BY <1>1, <1>2 DEF Settle, IInv
  <2>2. s \in {"DONE", "FAILED"}
    OBVIOUS
  <2> HIDE DEF s
  <2> QED BY <1>1, <2>1, <2>2, SettledKeeps
<1>3. CASE ~Holds(e)
  BY <1>1, <1>3, EndedKeeps DEF Settle
<1> QED BY <1>2, <1>3

(* Nobody else has made the attempt that is given up.                      *)
LEMMA RetryKeeps == ASSUME IInv, NEW e \in active, Retry(e) PROVE IInv'
<1> DEFINE d == RetryDelay(e.attempt)
<1>1. e.job \in Jobs /\ d \in 0 .. MaxDelay /\ active' = active \ {e}
  BY DelayType DEF IInv, Execution, Retry
<1>2. CASE Holds(e)
  <2>1. rows' = [rows EXCEPT ![e.job] = Retried(@, d)]
    BY <1>2 DEF Retry
  <2> HIDE DEF d
  <2>2. \A j \in Jobs : /\ rows'[j] \in Row /\ rows'[j].attempts = rows[j].attempts
                        /\ rows'[j].status = rows[j].status
                        /\ j # e.job => rows'[j] = rows[j]
    BY <1>1, <2>1, RetriedRow DEF IInv
  <2>3. rows' \in [Jobs -> Row]
    BY <2>1, <2>2 DEF IInv
  <2>4. \A f \in active' : f \in active /\ f.job \in Jobs
                         /\ (f.job = e.job => f.attempt # rows[f.job].attempts)
    BY <1>1, <1>2 DEF IInv, OneEach, Holds, Execution
  <2>5. \A f \in active' : (Made(f) /\ Overtaken(f) /\ Latest(f))'
    BY <2>2, <2>4 DEF IInv, Made, Overtaken, Latest
  <2> QED BY <1>1, <2>3, <2>5 DEF IInv, OneEach
<1>3. CASE ~Holds(e)
  BY <1>1, <1>3, EndedKeeps DEF Retry
<1> QED BY <1>2, <1>3

LEMMA FailureKeeps == ASSUME IInv, NEW e \in active, FailureNotRecorded(e) PROVE IInv'
<1> DEFINE Left(f) == IF f.worker = e.worker THEN [f EXCEPT !.awaited = FALSE] ELSE f
<1>1. active' = {Left(f) : f \in active \ {e}}
  BY DEF FailureNotRecorded
<1>2. \A f \in active : Left(f) \in Execution /\ Same(f, Left(f))
  BY DEF IInv, Execution, Same
<1>3. UNCHANGED rows
  BY DEF FailureNotRecorded
<1> HIDE DEF Left
<1>4. \A g \in active' : \E f \in active : g = Left(f) /\ Same(f, g) /\ g \in Execution
  BY <1>1, <1>2
<1>5. \A f, k \in active : Same(f, Left(k)) => f = k
  BY <1>2 DEF Same, IInv, OneEach
<1>6. \A g, h \in active', f \in active : Same(f, g) /\ Same(f, h) => g = h
  BY <1>4, <1>5
<1> QED BY <1>3, <1>4, <1>6, GoesOnKeeps

(* A tick takes the same from the lease of a row and of its execution.     *)
LEMMA TickKeeps == ASSUME IInv, Tick PROVE IInv'
<1> DEFINE Aged(e) == [e EXCEPT !.left = Down(@, -1)]
<1>1. rows' = [j \in Jobs |-> Later(rows[j])] /\ active' = {Aged(e) : e \in active}
  BY DEF Tick
<1>2. \A j \in Jobs : /\ rows'[j] \in Row
                      /\ rows'[j].attempts = rows[j].attempts
                      /\ rows'[j].status = rows[j].status
                      /\ rows'[j].locked = rows[j].locked
                      /\ rows[j].locked => rows'[j].left = Down(rows[j].left, -1)
  BY <1>1, LaterRow DEF IInv
<1>3. rows' \in [Jobs -> Row]
  BY <1>1, <1>2
<1>4. \A e \in active : Down(e.left, -1) \in -1 .. Lease /\ (e.left <= 0 => Down(e.left, -1) <= 0)
  BY QueueAssumption DEF IInv, Execution, Down
<1>5. \A e \in active : /\ Aged(e) \in Execution /\ Aged(e).job = e.job
                        /\ Aged(e).attempt = e.attempt /\ Aged(e).left = Down(e.left, -1)
  BY <1>4 DEF IInv, Execution
<1> HIDE DEF Aged
<1>6. active' \subseteq Execution
  BY <1>1, <1>5
<1>7. ASSUME NEW g \in active' PROVE (Made(g) /\ Overtaken(g) /\ Latest(g))'
  <2>1. PICK e \in active : g = Aged(e)
    BY <1>1
  <2>2. /\ e.job \in Jobs /\ Made(e) /\ Overtaken(e) /\ Latest(e)
        /\ g.job = e.job /\ g.attempt = e.attempt /\ g.left = Down(e.left, -1)
    BY <2>1, <1>5 DEF IInv, Execution
  <2>3. Made(g)' /\ Overtaken(g)'
    BY <2>2, <1>2, <1>4 DEF Made, Overtaken
  <2>4. Latest(g)'
    BY <2>2, <1>2 DEF Latest
  <2> QED BY <2>3, <2>4
<1>8. OneEach'
  BY <1>1, <1>5 DEF IInv, OneEach
<1> QED BY <1>3, <1>6, <1>7, <1>8 DEF IInv

LEMMA NextIInv == IInv /\ [Next]_vars => IInv'
<1> SUFFICES ASSUME IInv, [Next]_vars PROVE IInv'
  OBVIOUS
<1>1. ASSUME NEW j \in Jobs, NEW d \in 0 .. MaxDelay, Enqueue(j, d) PROVE IInv'
  BY <1>1, EnqueueKeeps
<1>2. ASSUME NEW w \in Workers, Dispatch(w) PROVE IInv'
  <2>1. CASE ClaimBatch(w)
    BY <2>1, ClaimKeeps
  <2>2. CASE NextBatch(w)
    BY <2>2, EndedKeeps DEF NextBatch
  <2>3. CASE \E old \in SUBSET Jobs : EndTick(w, old)
    BY <2>3, EndTickKeeps
  <2> QED BY <1>2, <2>1, <2>2, <2>3 DEF Dispatch
<1>3. ASSUME NEW w \in Workers, ClaimFails(w) \/ Crash(w) PROVE IInv'
  BY <1>3, EndedKeeps DEF ClaimFails, Crash
<1>4. ASSUME NEW e \in active, Process(e) PROVE IInv'
  <2>1. CASE \E o \in {"done", "error", "fatal"} : Handle(e, o)
    BY <2>1, BecomesKeeps DEF Handle
  <2> QED BY <1>4, <2>1, SettleKeeps, RetryKeeps DEF Process
<1>5. ASSUME NEW e \in active, DoneNotRecorded(e) PROVE IInv'
  BY <1>5, BecomesKeeps DEF DoneNotRecorded
<1>6. ASSUME NEW e \in active, FailureNotRecorded(e) PROVE IInv'
  BY <1>6, FailureKeeps
<1>7. CASE Tick
  BY <1>7, TickKeeps
<1>8. CASE UNCHANGED vars
  BY <1>8, EndedKeeps DEF vars
<1> QED BY <1>1, <1>2, <1>3, <1>4, <1>5, <1>6, <1>7, <1>8 DEF Next

(* However many runners claim, fail and die, two executions of one job     *)
(* overlap only when the earlier has outlived its lease.                   *)
(* features/jobs/src/render.ts claimBatch.                                 *)
THEOREM LeasesExclude == Spec => []LeaseExcludes
<1>1. IInv => LeaseExcludes
  BY DEF IInv, LeaseExcludes, Made, Overtaken, Execution, Row
<1> QED BY InitIInv, NextIInv, <1>1, PTL DEF Spec

-----------------------------------------------------------------------------
(* What a step may do to a row in the queue: nothing that matters,         *)
Kept(j) == /\ rows'[j].status = rows[j].status
           /\ rows'[j].attempts = rows[j].attempts
           /\ rows'[j].locked = rows[j].locked
Fair(j) == GivenUpByHolder(j) /\ HasReason(j)

LEMMA KeptIsFair == ASSUME NEW j \in Jobs, Kept(j) PROVE Fair(j)
  BY DEF Kept, Fair, GivenUpByHolder, HasReason

(* retire it or claim it,                                                  *)
LEMMA ClaimIsFair == ASSUME IInv, NEW w \in Workers, ClaimBatch(w), NEW j \in Jobs PROVE Fair(j)
<1> DEFINE retired == {k \in Jobs : Exhausted(rows[k])}
           left    == [k \in Jobs |-> IF k \in retired THEN Settled(rows[k], "FAILED")
                                                       ELSE rows[k]]
           page    == Page(ahead, left)
<1>1. rows'[j] = IF j \in page THEN Leased(left[j]) ELSE left[j]
  BY DEF ClaimBatch
<1>2. j \in page => Claimable(left[j])
  BY DEF Page
<1>3. /\ left[j] \in Row /\ left[j].attempts = rows[j].attempts /\ rows[j] \in Row
      /\ IF Exhausted(rows[j]) THEN left[j].status = "FAILED" ELSE left[j] = rows[j]
  BY SettledRow DEF IInv, Statuses
<1> HIDE DEF retired, left, page
<1>4. CASE j \in page
  <2>1. left[j] = rows[j] /\ ~Exhausted(rows[j])
    BY <1>2, <1>3, <1>4 DEF Claimable
  <2>2. /\ rows'[j].status = "PENDING" /\ rows'[j].locked
        /\ rows'[j].attempts = rows[j].attempts + 1
    BY <1>1, <1>2, <1>4, <2>1, <1>3, LeasedRow DEF Claimable
  <2>3. rows[j].attempts >= MaxAttempts => rows[j].locked /\ rows[j].left = 0
    BY <1>2, <1>3, <1>4, <2>1 DEF Claimable, Exhausted, Row
  <2> QED BY <2>2, <2>3, <1>3, QueueAssumption DEF Fair, GivenUpByHolder, HasReason, Row
<1>5. CASE j \notin page /\ Exhausted(rows[j])
  BY <1>1, <1>3, <1>5 DEF Exhausted, Fair, GivenUpByHolder, HasReason
<1>6. CASE j \notin page /\ ~Exhausted(rows[j])
  BY <1>1, <1>3, <1>6, KeptIsFair DEF Kept
<1> QED BY <1>4, <1>5, <1>6

(* settle it,                                                              *)
LEMMA SettleIsFair == ASSUME IInv, NEW e \in active, Settle(e), NEW j \in Jobs PROVE Fair(j)
<1> DEFINE s == IF e.step = "done" THEN "DONE" ELSE "FAILED"
<1>1. e.job \in Jobs /\ e.attempt \in Nat /\ rows[j] \in Row /\ active' = active \ {e}
  BY DEF IInv, Execution, Settle
<1>2. \/ s = "DONE" /\ e.step = "done"
      \/ s = "FAILED" /\ (e.step = "fatal" \/ e.attempt >= MaxAttempts)
  BY DEF Settle, Final
<1>3. CASE Holds(e) /\ e.job = j
  <2>1. rows'[j] = Settled(rows[j], s)
    BY <1>1, <1>3 DEF Settle, IInv
  <2>2. rows'[j].status = s /\ rows'[j].attempts = rows[j].attempts
    BY <1>1, <1>2, <2>1, SettledRow DEF Statuses
  <2>3. e.attempt = rows[j].attempts /\ e \in active \ active'
    BY <1>1, <1>3 DEF Holds
  <2> QED BY <1>2, <1>3, <2>2, <2>3 DEF Fair, GivenUpByHolder, HasReason
<1>4. CASE ~Holds(e) \/ e.job # j
  BY <1>1, <1>4, KeptIsFair DEF Settle, IInv, Kept
<1> QED BY <1>3, <1>4

(* or put it off.                                                          *)
LEMMA RetryIsFair == ASSUME IInv, NEW e \in active, Retry(e), NEW j \in Jobs PROVE Fair(j)
<1> DEFINE d == RetryDelay(e.attempt)
<1>1. /\ e.job \in Jobs /\ d \in 0 .. MaxDelay /\ rows[j] \in Row /\ active' = active \ {e}
  BY DelayType DEF IInv, Execution, Retry
<1>2. CASE Holds(e) /\ e.job = j
  <2>1. rows'[j] = Retried(rows[j], d)
    BY <1>1, <1>2 DEF Retry, IInv
  <2> HIDE DEF d
  <2>2. rows'[j].status = rows[j].status /\ rows'[j].attempts = rows[j].attempts
    BY <1>1, <2>1, RetriedRow
  <2>3. e.attempt = rows[j].attempts /\ rows[j].status = "PENDING" /\ e \in active \ active'
    BY <1>1, <1>2 DEF Holds
  <2> QED BY <1>2, <2>2, <2>3 DEF Fair, GivenUpByHolder, HasReason
<1>3. CASE ~Holds(e) \/ e.job # j
  BY <1>1, <1>3, KeptIsFair DEF Retry, IInv, Kept
<1> QED BY <1>2, <1>3

LEMMA NextIsFair == IInv /\ [Next]_vars => \A j \in Jobs : Fair(j)
<1> SUFFICES ASSUME IInv, [Next]_vars, NEW j \in Jobs PROVE Fair(j)
  OBVIOUS
<1>1. rows[j] \in Row
  BY DEF IInv
<1>2. ASSUME NEW k \in Jobs, NEW d \in 0 .. MaxDelay, Enqueue(k, d) PROVE Fair(j)
  <2>1. CASE k = j
    BY <1>2, <2>1 DEF Enqueue, Fair, GivenUpByHolder, HasReason
  <2>2. CASE k # j
    BY <1>2, <2>2, KeptIsFair DEF Enqueue, Kept, IInv
  <2> QED BY <2>1, <2>2
<1>3. ASSUME NEW w \in Workers, Dispatch(w) PROVE Fair(j)
  <2>1. CASE ClaimBatch(w)
    BY <2>1, ClaimIsFair
  <2>2. CASE NextBatch(w)
    BY <2>2, KeptIsFair DEF NextBatch, Kept
  <2>3. ASSUME NEW old \in SUBSET Jobs, EndTick(w, old) PROVE Fair(j)
    <3>1. CASE j \in old
      BY <2>3, <3>1 DEF EndTick, Fair, GivenUpByHolder, HasReason
    <3>2. CASE j \notin old
      BY <2>3, <3>2, KeptIsFair DEF EndTick, Kept
    <3> QED BY <3>1, <3>2
  <2> QED BY <1>3, <2>1, <2>2, <2>3 DEF Dispatch
<1>4. ASSUME NEW w \in Workers, ClaimFails(w) \/ Crash(w) PROVE Fair(j)
  BY <1>4, KeptIsFair DEF ClaimFails, Crash, Kept
<1>5. ASSUME NEW e \in active, Process(e) PROVE Fair(j)
  <2>1. CASE \E o \in {"done", "error", "fatal"} : Handle(e, o)
    BY <2>1, KeptIsFair DEF Handle, Kept
  <2> QED BY <1>5, <2>1, SettleIsFair, RetryIsFair DEF Process
<1>6. ASSUME NEW e \in active, DoneNotRecorded(e) \/ FailureNotRecorded(e) PROVE Fair(j)
  BY <1>6, KeptIsFair DEF DoneNotRecorded, FailureNotRecorded, Kept
<1>7. CASE Tick
  BY <1>1, <1>7, LaterRow, KeptIsFair DEF Tick, Kept
<1>8. CASE UNCHANGED vars
  BY <1>8, KeptIsFair DEF vars, Kept
<1> QED BY <1>2, <1>3, <1>4, <1>5, <1>6, <1>7, <1>8 DEF Next

(* Only the holder of the latest claim of a job gives its lease up, and an *)
(* execution that was overtaken changes nothing, whatever it comes back    *)
(* with and however late.  features/jobs/src/render.ts settle, processJob. *)
THEOREM OvertakenChangeNothing == Spec => LatestClaimSettles
<1>1. IInv /\ [Next]_vars => [\A j \in Jobs : GivenUpByHolder(j)]_vars
  BY NextIsFair DEF Fair
<1> QED BY InitIInv, NextIInv, <1>1, PTL DEF Spec, LatestClaimSettles

(* No job is DONE without its handler having returned, or FAILED before    *)
(* its attempts are consumed or its handler has ruled another one out, and *)
(* the budget is exceeded only at the instant a last lease ends.           *)
(* features/jobs/src/render.ts claimBatch, processJob.                     *)
THEOREM EndsHaveReasons == Spec => EndsForAReason
<1>1. IInv /\ [Next]_vars => [\A j \in Jobs : HasReason(j)]_vars
  BY NextIsFair DEF Fair
<1> QED BY InitIInv, NextIInv, <1>1, PTL DEF Spec, EndsForAReason

-----------------------------------------------------------------------------
(* The order of the queued rows.                                           *)
Queued == {j \in Jobs : rows[j].status = "PENDING"}

(* It is one for as long as the same rows are queued, none of which is due *)
(* before those ahead of it.                                               *)
LEMMA SameLine ==
    ASSUME rows \in [Jobs -> Row], rows' \in [Jobs -> Row], Lined(ahead, rows), UNCHANGED ahead,
           \A j \in Jobs : rows'[j].status = "PENDING" <=> rows[j].status = "PENDING",
           \A j, k \in Queued : rows[k].due <= rows[j].due => rows'[k].due <= rows'[j].due
    PROVE  Lined(ahead, rows)'
<1>1. DOMAIN rows = Jobs /\ DOMAIN rows' = Jobs
  OBVIOUS
<1>2. Queued' = Queued
  BY DEF Queued
<1>3. ahead \in [Jobs -> SUBSET Queued]
  BY <1>1 DEF Lined, Queued
<1>4. \A j \in Jobs : \A k \in ahead[j] : j \in Queued /\ k \in Queued
  BY <1>1, <1>3 DEF Lined, Queued
<1>5. \A j \in Jobs : \A k \in ahead[j] : rows'[k].due <= rows'[j].due
  BY <1>1, <1>4 DEF Lined
<1> QED BY <1>1, <1>2, <1>3, <1>5 DEF Lined, Queued

(* Rows that leave the queue leave their places.                           *)
LEMMA ShorterLine ==
    ASSUME rows \in [Jobs -> Row], rows' \in [Jobs -> Row], Lined(ahead, rows), NEW S,
           ahead' = Without(ahead, S),
           \A j \in Jobs : rows'[j].status = "PENDING" <=> rows[j].status = "PENDING" /\ j \notin S,
           \A j \in Jobs \ S : rows'[j].due = rows[j].due
    PROVE  Lined(ahead, rows)'
<1>1. DOMAIN rows = Jobs /\ DOMAIN rows' = Jobs
  OBVIOUS
<1>2. Queued' = Queued \ S
  BY DEF Queued
<1>3. ahead \in [Jobs -> SUBSET Queued]
  BY <1>1 DEF Lined, Queued
<1>4. /\ ahead' \in [Jobs -> SUBSET (Queued \ S)]
      /\ \A j \in Jobs : ahead'[j] = IF j \in S THEN {} ELSE ahead[j] \ S
  BY <1>3 DEF Without
<1>5. \A j \in Jobs : rows'[j].status # "PENDING" => ahead'[j] = {}
  BY <1>1, <1>4 DEF Lined
<1>6. ASSUME NEW j \in Jobs, NEW k \in Jobs, rows'[j].status = "PENDING",
             rows'[k].status = "PENDING", j # k
      PROVE  j \in ahead'[k] <=> k \notin ahead'[j]
  BY <1>1, <1>4, <1>6 DEF Lined
<1>7. ASSUME NEW j \in Jobs, NEW k \in ahead'[j]
      PROVE  j # k /\ ahead'[k] \subseteq ahead'[j] /\ rows'[k].due <= rows'[j].due
  <2>1. k \in Jobs \ S /\ j \in Jobs \ S /\ k \in ahead[j]
    BY <1>4 DEF Queued
  <2>2. j # k /\ ahead[k] \subseteq ahead[j] /\ rows[k].due <= rows[j].due
    BY <1>1, <2>1 DEF Lined
  <2> QED BY <1>4, <2>1, <2>2
<1> QED BY <1>1, <1>2, <1>4, <1>5, <1>6, <1>7 DEF Lined, Queued

(* A row that is put in line has its place.                                *)
LEMMA LongerLine ==
    ASSUME rows \in [Jobs -> Row], rows' \in [Jobs -> Row], Lined(ahead, rows), NEW i \in Jobs,
           NEW d \in 0 .. MaxDelay, ahead' = InLine(ahead, rows, i, d),
           rows'[i].status = "PENDING", rows'[i].due = d,
           \A j \in Jobs \ {i} : rows'[j] = rows[j]
    PROVE  Lined(ahead, rows)'
<1> DEFINE others == Queued \ {i}
           sooner == {k \in others : rows[k].due <= d}
<1>1. DOMAIN rows = Jobs /\ DOMAIN rows' = Jobs
  OBVIOUS
<1>2. Queued' = others \cup {i}
  BY DEF Queued
<1>3. ahead \in [Jobs -> SUBSET Queued]
  BY <1>1 DEF Lined, Queued
<1>4. \A j \in Jobs : ahead'[j] = CASE j = i               -> sooner
                                    [] j \in others \ sooner -> ahead[j] \cup {i}
                                    [] OTHER                -> ahead[j] \ {i}
  BY <1>1 DEF InLine, Queued
<1>5. DOMAIN ahead' = Jobs /\ ahead' = [j \in Jobs |-> ahead'[j]]
  BY <1>1 DEF InLine
<1>6. sooner \subseteq others /\ others \subseteq Queued /\ Queued \subseteq Jobs
  BY DEF Queued
<1>7. \A j \in Jobs : rows[j].due \in Int /\ (j \in Queued <=> rows[j].status = "PENDING")
  BY DEF Row, Queued
<1>8. \A j \in others : j \in sooner <=> rows[j].due <= d
  OBVIOUS
<1> HIDE DEF others, sooner
<1>9. /\ ahead'[i] = sooner
      /\ \A j \in others \ sooner : ahead'[j] = ahead[j] \cup {i}
      /\ \A j \in Jobs \ {i} : j \notin others \ sooner => ahead'[j] = ahead[j] \ {i}
  <2>1. i \notin others
    BY DEF others
  <2> QED BY <1>4, <1>6, <2>1
<1>10. others = Queued \ {i}
  BY DEF others
<1>11. \A j \in Jobs : ahead'[j] \subseteq others \cup {i}
  BY <1>3, <1>6, <1>9, <1>10
<1>12. ASSUME NEW j \in Jobs, rows'[j].status # "PENDING" PROVE ahead'[j] = {}
  <2>1. j # i /\ rows[j].status # "PENDING" /\ ahead[j] = {}
    BY <1>1, <1>12 DEF Lined
  <2> QED BY <1>6, <1>7, <1>9, <2>1
<1>13. ASSUME NEW j \in others \cup {i}, NEW k \in others \cup {i}, j # k
       PROVE  j \in ahead'[k] <=> k \notin ahead'[j]
  <2>1. CASE j = i
    BY <1>6, <1>9, <1>10, <1>13, <2>1
  <2>2. CASE k = i
    BY <1>6, <1>9, <1>10, <1>13, <2>2
  <2>3. CASE j # i /\ k # i
    <3>1. j \in others /\ k \in others /\ j \in Jobs /\ k \in Jobs
      BY <1>6, <1>13, <2>3
    <3>2. j \in ahead[k] <=> k \notin ahead[j]
      BY <1>1, <1>6, <1>7, <1>13, <3>1 DEF Lined
    <3> QED BY <1>9, <2>3, <3>1, <3>2
  <2> QED BY <2>1, <2>2, <2>3
<1>14. ASSUME NEW j \in Jobs, NEW k \in ahead'[j]
       PROVE  j # k /\ ahead'[k] \subseteq ahead'[j] /\ rows'[k].due <= rows'[j].due
  <2>1. \A m \in Jobs : \A n \in ahead[m] :
           /\ m \in Queued /\ n \in Queued /\ m # n
           /\ ahead[n] \subseteq ahead[m] /\ rows[n].due <= rows[m].due
    BY <1>1, <1>3, <1>7 DEF Lined
  <2>2. k \in others \cup {i} /\ k \in Jobs
    BY <1>6, <1>11
  <2>3. CASE j = i
    <3>1. k \in sooner /\ k \in others /\ k # i
      BY <1>6, <1>9, <1>10, <2>3
    <3>2. ahead'[k] = ahead[k] \ {i} /\ rows[k].due <= d
      BY <1>8, <1>9, <2>2, <3>1
    <3>3. ASSUME NEW n \in ahead[k] \ {i} PROVE n \in sooner
      <4>1. n \in others /\ rows[n].due <= rows[k].due
        BY <1>10, <2>1, <2>2, <3>3
      <4>2. rows[n].due <= d
        BY <1>6, <1>7, <2>2, <3>2, <4>1
      <4> QED BY <1>8, <4>1, <4>2
    <3> QED BY <1>9, <2>3, <2>2, <3>1, <3>2, <3>3
  <2>4. CASE j # i /\ k = i
    <3>1. j \in others \ sooner
      BY <1>9, <2>4
    <3>2. d <= rows[j].due /\ j \in Jobs /\ j \in Queued
      BY <1>6, <1>7, <1>8, <3>1
    <3>3. ASSUME NEW n \in sooner PROVE n \in ahead[j]
      <4>1. n \in others /\ n \in Jobs /\ n # j /\ n \in Queued /\ rows[n].due <= d
        BY <1>6, <1>8, <3>1, <3>3
      <4>2. j \notin ahead[n]
        BY <1>7, <1>8, <2>1, <3>1, <4>1
      <4>3. n \in ahead[j] <=> j \notin ahead[n]
        BY <1>1, <1>7, <3>2, <4>1 DEF Lined
      <4> QED BY <4>2, <4>3
    <3> QED BY <1>9, <2>4, <3>1, <3>2, <3>3
  <2>5. CASE j # i /\ k # i
    <3>1. k \in ahead[j] /\ j \in others /\ k \in others
      BY <1>9, <1>10, <2>1, <2>2, <2>5
    <3>2. ahead[k] \subseteq ahead[j] /\ rows[k].due <= rows[j].due /\ j # k
      BY <2>1, <3>1
    <3>3. k \in others \ sooner => j \in others \ sooner
      BY <1>6, <1>7, <1>8, <2>2, <3>1, <3>2
    <3>4. ahead'[k] \subseteq ahead'[j]
      BY <1>9, <2>2, <2>5, <3>1, <3>2, <3>3
    <3> QED BY <2>2, <2>5, <3>2, <3>4
  <2> QED BY <2>3, <2>4, <2>5
<1>15. ahead' \in [Jobs -> SUBSET Queued']
  BY <1>2, <1>5, <1>11
<1>16. \A j \in Jobs : j \in Queued' <=> rows'[j].status = "PENDING"
  BY DEF Queued
<1> QED BY <1>1, <1>2, <1>12, <1>13, <1>14, <1>15, <1>16 DEF Lined, Queued
(* A runner claims no more batches in a tick than it may.                  *)
Counted == \A w \in Workers : phase[w] = "next" => batches[w] < MaxBatches
JobTypes == TypeOK /\ IInv /\ Counted

LEMMA FreedTypes ==
    ASSUME TypeOK, Counted, NEW w \in Workers, Freed(w)
    PROVE  /\ Counted' /\ phase' \in [Workers -> {"idle", "next", "work"}]
           /\ batches' \in [Workers -> 0 .. MaxBatches] /\ full' \in [Workers -> BOOLEAN]
<1>1. MaxBatches \in Nat
  BY JobsAssumption
<1>2. /\ phase' \in [Workers -> {"idle", "next", "work"}]
      /\ batches' \in [Workers -> 0 .. MaxBatches] /\ full' \in [Workers -> BOOLEAN]
  BY <1>1 DEF TypeOK, Freed
<1>3. Counted'
  BY DEF TypeOK, Freed, Counted
<1> QED BY <1>2, <1>3

LEMMA DisturbType == ASSUME TypeOK, Disturb PROVE disturbances' \in 0 .. MaxDisturbances
  BY JobsAssumption DEF TypeOK, Disturb

LEMMA InitTypes == Init => JobTypes
<1> SUFFICES ASSUME Init PROVE JobTypes
  OBVIOUS
<1>1. IInv
  BY InitIInv
<1>2. Lined(ahead, rows)
  <2>1. \A j \in Jobs : rows[j].status = "absent" /\ ahead[j] = {}
    BY DEF Init, NoRow
  <2>2. DOMAIN rows = Jobs /\ ahead \in [Jobs -> SUBSET {}]
    BY DEF Init
  <2>3. ahead \in [Jobs -> SUBSET {j \in Jobs : rows[j].status = "PENDING"}]
    BY <2>2
  <2> QED BY <2>1, <2>2, <2>3 DEF Lined
<1>3. /\ phase \in [Workers -> {"idle", "next", "work"}]
      /\ batches \in [Workers -> 0 .. MaxBatches] /\ full \in [Workers -> BOOLEAN]
      /\ disturbances \in 0 .. MaxDisturbances /\ Counted
  BY JobsAssumption DEF Init, Counted
<1> QED BY <1>1, <1>2, <1>3 DEF JobTypes, TypeOK, IInv

(* What each action does to the line and to the runners.                   *)
LEMMA EnqueueTypes ==
    ASSUME JobTypes, IInv', NEW j \in Jobs, NEW d \in 0 .. MaxDelay, Enqueue(j, d) PROVE JobTypes'
<1>1. rows \in [Jobs -> Row] /\ rows' \in [Jobs -> Row] /\ Lined(ahead, rows)
  BY DEF JobTypes, TypeOK, IInv
<1>2. /\ rows' = [rows EXCEPT ![j] = NewRow(d)] /\ ahead' = InLine(ahead, rows, j, d)
      /\ UNCHANGED <<runnerVars, disturbances>>
  BY DEF Enqueue
<1>3. rows'[j].status = "PENDING" /\ rows'[j].due = d /\ \A k \in Jobs \ {j} : rows'[k] = rows[k]
  BY <1>1, <1>2 DEF NewRow, NoRow
<1>4. Lined(ahead, rows)'
  BY <1>1, <1>2, <1>3, LongerLine
<1> QED BY <1>1, <1>2, <1>4 DEF JobTypes, TypeOK, IInv, Counted, runnerVars

LEMMA ClaimTypes == ASSUME JobTypes, IInv', NEW w \in Workers, ClaimBatch(w) PROVE JobTypes'
<1> DEFINE retired == {j \in Jobs : Exhausted(rows[j])}
           left    == [j \in Jobs |-> IF j \in retired THEN Settled(rows[j], "FAILED")
                                                       ELSE rows[j]]
           page    == Page(ahead, left)
<1>1. rows \in [Jobs -> Row] /\ rows' \in [Jobs -> Row] /\ Lined(ahead, rows)
  BY DEF JobTypes, TypeOK, IInv
<1>2. /\ rows' = [j \in Jobs |-> IF j \in page THEN Leased(left[j]) ELSE left[j]]
      /\ ahead' = Without(ahead, retired)
      /\ full' = [full EXCEPT ![w] = (Cardinality(page) = BatchSize)]
      /\ batches' = [batches EXCEPT ![w] = IF phase[w] = "idle" THEN 1 ELSE @ + 1]
      /\ phase' = [phase EXCEPT ![w] = "work"]
      /\ phase[w] \in {"idle", "next"} /\ disturbances' = disturbances
  BY DEF ClaimBatch
<1>3. \A j \in page : j \in Jobs /\ Claimable(left[j])
  BY DEF Page
<1>4. \A j \in Jobs : /\ left[j] \in Row
                      /\ j \notin retired => left[j] = rows[j]
                      /\ j \in retired => left[j].status = "FAILED"
  BY <1>1, SettledRow DEF Statuses
<1>5. \A j \in retired : rows[j].status = "PENDING"
  BY DEF Exhausted
<1> HIDE DEF retired, left, page
<1>6. \A j \in Jobs : rows'[j].status = left[j].status /\ rows'[j].due = left[j].due
  <2>1. ASSUME NEW j \in Jobs
        PROVE  rows'[j].status = left[j].status /\ rows'[j].due = left[j].due
    <3>1. left[j] \in Row /\ rows'[j] \in {left[j], Leased(left[j])}
      BY <1>2, <1>4
    <3> QED BY <3>1 DEF Leased, Row
  <2> QED BY <2>1
<1>7. \A j \in Jobs : rows'[j].status = "PENDING" <=> rows[j].status = "PENDING" /\ j \notin retired
  BY <1>4, <1>6
<1>8. \A j \in Jobs \ retired : rows'[j].due = rows[j].due
  BY <1>4, <1>6
<1>9. Lined(ahead, rows)'
  BY <1>1, <1>2, <1>7, <1>8, ShorterLine
<1>10. full' \in [Workers -> BOOLEAN] /\ phase' \in [Workers -> {"idle", "next", "work"}]
  BY <1>2 DEF JobTypes, TypeOK
<1>11. batches' \in [Workers -> 0 .. MaxBatches]
  <2>1. batches[w] \in Nat /\ MaxBatches \in Nat \ {0} /\ (phase[w] = "next" => batches[w] < MaxBatches)
    BY JobsAssumption DEF JobTypes, TypeOK, Counted
  <2>2. (IF phase[w] = "idle" THEN 1 ELSE batches[w] + 1) \in 0 .. MaxBatches
    BY <1>2, <2>1
  <2> QED BY <1>2, <2>2 DEF JobTypes, TypeOK
<1>12. Counted'
  BY <1>2 DEF JobTypes, TypeOK, Counted
<1> QED BY <1>1, <1>2, <1>9, <1>10, <1>11, <1>12 DEF JobTypes, TypeOK, IInv

LEMMA EndTickTypes ==
    ASSUME JobTypes, IInv', NEW w \in Workers, NEW old \in SUBSET Jobs, EndTick(w, old)
    PROVE  JobTypes'
<1>1. rows \in [Jobs -> Row] /\ rows' \in [Jobs -> Row] /\ Lined(ahead, rows)
  BY DEF JobTypes, TypeOK, IInv
<1>2. \A j \in Jobs : IF j \in old THEN /\ rows[j].status # "PENDING"
                                       /\ rows'[j].status = "deleted"
                      ELSE rows'[j] = rows[j]
  BY <1>1, SettledRow DEF EndTick, Statuses
<1>3. Lined(ahead, rows)'
  <2>1. ahead' = ahead
    BY DEF EndTick
  <2>2. \A j \in Jobs : rows'[j].status = "PENDING" <=> rows[j].status = "PENDING"
    BY <1>2
  <2>3. \A j \in Queued : rows'[j] = rows[j]
    BY <1>2 DEF Queued
  <2> QED BY <1>1, <2>1, <2>2, <2>3, SameLine
<1>4. Freed(w) /\ disturbances' = disturbances
  BY DEF EndTick, Freed
<1> QED BY <1>1, <1>3, <1>4, FreedTypes DEF JobTypes, TypeOK, IInv

LEMMA SettleTypes ==
    ASSUME JobTypes, IInv', NEW e \in active, Settle(e) \/ Retry(e) PROVE JobTypes'
<1>1. /\ rows \in [Jobs -> Row] /\ rows' \in [Jobs -> Row] /\ Lined(ahead, rows) /\ e.job \in Jobs
      /\ UNCHANGED <<runnerVars, disturbances>>
  BY DEF JobTypes, TypeOK, IInv, Execution, Settle, Retry
<1>2. CASE ~Holds(e)
  <2>1. UNCHANGED <<rows, ahead>>
    BY <1>2 DEF Settle, Retry
  <2> QED BY <1>1, <2>1 DEF JobTypes, TypeOK, IInv, Counted, runnerVars, Lined
<1>3. CASE Holds(e) /\ Settle(e)
  <2> DEFINE s == IF e.step = "done" THEN "DONE" ELSE "FAILED"
  <2>1. rows' = [rows EXCEPT ![e.job] = Settled(@, s)] /\ ahead' = Without(ahead, {e.job})
    BY <1>3 DEF Settle
  <2>2. s \in {"DONE", "FAILED"}
    OBVIOUS
  <2> HIDE DEF s
  <2>3. rows'[e.job].status = s /\ \A j \in Jobs \ {e.job} : rows'[j] = rows[j]
    BY <1>1, <2>1, <2>2, SettledRow DEF Statuses
  <2>4. \A j \in Jobs : rows'[j].status = "PENDING" <=> rows[j].status = "PENDING" /\ j \notin {e.job}
    BY <2>2, <2>3
  <2>5. Lined(ahead, rows)'
    BY <1>1, <2>1, <2>3, <2>4, ShorterLine
  <2> QED BY <1>1, <2>5 DEF JobTypes, TypeOK, IInv, Counted, runnerVars
<1>4. CASE Holds(e) /\ Retry(e)
  <2> DEFINE d == RetryDelay(e.attempt)
  <2>1. d \in 0 .. MaxDelay
    BY DelayType DEF JobTypes, IInv, Execution
  <2>2. rows' = [rows EXCEPT ![e.job] = Retried(@, d)] /\ ahead' = InLine(ahead, rows, e.job, d)
    BY <1>4 DEF Retry
  <2> HIDE DEF d
  <2>3. /\ rows'[e.job].status = "PENDING" /\ rows'[e.job].due = d
        /\ \A j \in Jobs \ {e.job} : rows'[j] = rows[j]
    BY <1>1, <1>4, <2>2 DEF Retried, Holds, Row
  <2>4. Lined(ahead, rows)'
    BY <1>1, <2>1, <2>2, <2>3, LongerLine
  <2> QED BY <1>1, <2>4 DEF JobTypes, TypeOK, IInv, Counted, runnerVars
<1> QED BY <1>2, <1>3, <1>4

(* The order of due times is kept as they come nearer.                     *)
LEMMA TickTypes == ASSUME JobTypes, IInv', Tick PROVE JobTypes'
<1>1. /\ rows \in [Jobs -> Row] /\ rows' \in [Jobs -> Row] /\ Lined(ahead, rows)
      /\ UNCHANGED <<ahead, runnerVars>>
  BY DEF JobTypes, TypeOK, IInv, Tick
<1>2. \A j \in Jobs : /\ rows'[j].status = rows[j].status /\ rows'[j].due = Down(rows[j].due, 0)
                      /\ rows[j].due \in Nat
  <2>1. ASSUME NEW j \in Jobs
        PROVE  /\ rows'[j].status = rows[j].status /\ rows'[j].due = Down(rows[j].due, 0)
               /\ rows[j].due \in Nat
    <3>1. rows[j] \in Row /\ rows'[j] = Later(rows[j])
      BY <1>1 DEF Tick
    <3> QED BY <3>1 DEF Later, Row
  <2> QED BY <2>1
<1>3. \A j, k \in Queued : rows[k].due <= rows[j].due => rows'[k].due <= rows'[j].due
  <2>1. \A m, n \in Nat : m <= n => Down(m, 0) <= Down(n, 0)
    BY DEF Down
  <2> QED BY <1>2, <2>1 DEF Queued
<1>4. Lined(ahead, rows)'
  BY <1>1, <1>2, <1>3, SameLine
<1>5. disturbances' \in 0 .. MaxDisturbances
  BY DisturbType DEF JobTypes, TypeOK, Tick
<1> QED BY <1>1, <1>4, <1>5 DEF JobTypes, TypeOK, IInv, Counted, runnerVars

LEMMA NextTypes == JobTypes /\ [Next]_vars => JobTypes'
<1> SUFFICES ASSUME JobTypes, [Next]_vars PROVE JobTypes'
  OBVIOUS
<1>1. IInv'
  BY NextIInv DEF JobTypes
<1>2. ASSUME UNCHANGED <<rows, ahead>>, disturbances' \in 0 .. MaxDisturbances, Counted',
             phase' \in [Workers -> {"idle", "next", "work"}],
             batches' \in [Workers -> 0 .. MaxBatches], full' \in [Workers -> BOOLEAN]
      PROVE  JobTypes'
  BY <1>1, <1>2 DEF JobTypes, TypeOK, IInv, Lined
<1>3. ASSUME UNCHANGED <<rows, ahead, runnerVars>>, disturbances' \in 0 .. MaxDisturbances
      PROVE  JobTypes'
  BY <1>2, <1>3 DEF JobTypes, TypeOK, Counted, runnerVars
<1>4. ASSUME NEW w \in Workers, Dispatch(w) PROVE JobTypes'
  <2>1. CASE NextBatch(w)
    <3>1. /\ phase' = [phase EXCEPT ![w] = "next"] /\ More(w)
          /\ UNCHANGED <<rows, ahead, batches, full, disturbances>>
      BY <2>1 DEF NextBatch
    <3>2. Counted' /\ phase' \in [Workers -> {"idle", "next", "work"}]
      BY <3>1 DEF JobTypes, TypeOK, Counted, More
    <3> QED BY <1>2, <3>1, <3>2 DEF JobTypes, TypeOK
  <2> QED BY <1>1, <1>4, <2>1, ClaimTypes, EndTickTypes DEF Dispatch
<1>5. ASSUME NEW w \in Workers, ClaimFails(w) \/ Crash(w) PROVE JobTypes'
  <2>1. Freed(w) /\ Disturb /\ UNCHANGED <<rows, ahead>>
    BY <1>5 DEF ClaimFails, Crash
  <2> QED BY <1>2, <2>1, FreedTypes, DisturbType DEF JobTypes
<1>6. ASSUME NEW e \in active, Process(e) \/ DoneNotRecorded(e) PROVE JobTypes'
  <2>1. CASE \E o \in {"done", "error", "fatal"} : Handle(e, o)
    BY <1>3, <2>1 DEF Handle, JobTypes, TypeOK
  <2>2. CASE DoneNotRecorded(e)
    BY <1>3, <2>2, DisturbType DEF DoneNotRecorded, JobTypes
  <2> QED BY <1>1, <1>6, <2>1, <2>2, SettleTypes DEF Process
<1>7. ASSUME NEW e \in active, FailureNotRecorded(e) PROVE JobTypes'
  <2>1. Disturb /\ UNCHANGED <<rows, ahead>> /\ (Freed(e.worker) \/ UNCHANGED runnerVars)
    BY <1>7 DEF FailureNotRecorded
  <2>2. e.worker \in Workers
    BY DEF JobTypes, IInv, Execution
  <2> QED BY <1>2, <1>3, <2>1, <2>2, FreedTypes, DisturbType DEF JobTypes
<1>8. CASE UNCHANGED vars
  BY <1>3, <1>8 DEF vars, JobTypes, TypeOK
<1> QED BY <1>1, <1>4, <1>5, <1>6, <1>7, <1>8, EnqueueTypes, TickTypes DEF Next

(* The queued jobs stand in one line, in the order in which they are due,  *)
(* through claims, retries, failures and the passing of time, and runners  *)
(* claim no more batches than they may.                                    *)
(* features/jobs/src/render.ts dispatchNow, processJob; queueClaimSql.     *)
THEOREM JobTypesAlways == Spec => []TypeOK
<1>1. JobTypes => TypeOK
  BY DEF JobTypes
<1> QED BY InitTypes, NextTypes, <1>1, PTL DEF Spec

-----------------------------------------------------------------------------
(* Schedules.                                                              *)
CronSpec(tables, dates, up, now) == CronInit(tables, dates, up, now) /\ [][CronNext]_cronVars

(* What a field can be, a table of schedules, and a date.                  *)
CronForms == {Always} \cup {Every(n) : n \in Nat}
             \cup {Listed(parts) : parts \in {s \in SUBSET (Nat \X Nat) : s # {}}}
Timetables == {t \in Seq([Positions -> CronForms]) : t # <<>>}
Dates == {d \in [Positions -> Nat] :
             /\ \A p \in Positions : Lowest[p] <= d[p] /\ d[p] <= Highest[p]
             /\ d.day <= DaysIn(d.month)}

-----------------------------------------------------------------------------
LEMMA StepDenotes ==
    ASSUME NEW s \in Nat \ {0}, NEW low \in Nat, NEW high \in Nat, NEW v \in low .. high
    PROVE  (v - low) % s = 0 <=> \E k \in 0 .. high : v = low + k * s
<1>1. ASSUME (v - low) % s = 0 PROVE \E k \in 0 .. high : v = low + k * s
  <2> DEFINE k == (v - low) \div s
  <2>1. k \in Nat /\ v - low = s * k
    BY <1>1
  <2> HIDE DEF k
  <2>2. k * s = v - low /\ k <= k * s
    BY <2>1
  <2>3. k \in 0 .. high
    BY <2>1, <2>2
  <2> QED BY <2>2, <2>3
<1>2. ASSUME NEW k \in 0 .. high, v = low + k * s PROVE (v - low) % s = 0
  <2>1. k * s = s * k /\ k * s \in Nat
    OBVIOUS
  <2>2. v - low = s * k
    BY <1>2, <2>1
  <2>3. (s * k) % s = 0
    OBVIOUS
  <2> QED BY <2>2, <2>3
<1> QED BY <1>1, <1>2

LEMMA Ranges ==
    ASSUME NEW p \in Positions
    PROVE  Lowest[p] \in {0, 1} /\ Highest[p] \in 6 .. 59 /\ Lowest[p] <= Highest[p]
  BY DEF Positions, Lowest, Highest

(* The matcher takes a field for what it stands for.                       *)
LEMMA FieldDenotes ==
    ASSUME NEW p \in Positions, NEW f \in CronForms, validCronField(f, Lowest[p], Highest[p]),
           NEW v \in Lowest[p] .. Highest[p]
    PROVE  fieldMatches(f, v, Lowest[p]) <=> v \in Denotes(f, p)
<1>1. CASE f = Always
  BY <1>1 DEF Always, fieldMatches, Denotes
<1>2. ASSUME NEW n \in Nat, f = Every(n) PROVE fieldMatches(f, v, Lowest[p]) <=> v \in Denotes(f, p)
  <2>1. n \in Nat \ {0} /\ Lowest[p] \in Nat /\ Highest[p] \in Nat
    BY <1>2, Ranges DEF Every, validCronField
  <2>2. (v - Lowest[p]) % n = 0 <=> \E k \in 0 .. Highest[p] : v = Lowest[p] + k * n
    BY <2>1, StepDenotes
  <2>3. fieldMatches(f, v, Lowest[p]) <=> (v - Lowest[p]) % n = 0
    BY <1>2 DEF Every, fieldMatches
  <2>4. v \in Denotes(f, p) <=> \E k \in 0 .. Highest[p] : v = Lowest[p] + k * n
    BY <1>2 DEF Every, Denotes
  <2> QED BY <2>2, <2>3, <2>4
<1>3. ASSUME NEW parts \in SUBSET (Nat \X Nat), f = Listed(parts)
      PROVE  fieldMatches(f, v, Lowest[p]) <=> v \in Denotes(f, p)
  <2>1. fieldMatches(f, v, Lowest[p]) <=> \E q \in parts : q[1] <= v /\ v <= q[2]
    BY <1>3 DEF Listed, fieldMatches
  <2>2. v \in Denotes(f, p) <=> \E q \in parts : v \in q[1] .. q[2]
    BY <1>3 DEF Listed, Denotes
  <2>3. \A q \in parts : q[1] \in Nat /\ q[2] \in Nat /\ v \in Nat
    BY Ranges
  <2>4. \A q \in parts : v \in q[1] .. q[2] <=> q[1] <= v /\ v <= q[2]
    BY <2>3
  <2> QED BY <2>1, <2>2, <2>4
<1> QED BY <1>1, <1>2, <1>3 DEF CronForms

(* Each field that is accepted stands for something.                       *)
LEMMA FieldFires ==
    ASSUME NEW p \in Positions, NEW f \in CronForms, validCronField(f, Lowest[p], Highest[p])
    PROVE  \E v \in Lowest[p] .. Highest[p] : fieldMatches(f, v, Lowest[p])
<1>0. Lowest[p] \in Nat /\ Highest[p] \in Nat /\ Lowest[p] <= Highest[p]
  BY Ranges
<1>1. CASE f = Always
  BY <1>0, <1>1 DEF Always, fieldMatches
<1>2. ASSUME NEW n \in Nat, f = Every(n)
      PROVE  \E v \in Lowest[p] .. Highest[p] : fieldMatches(f, v, Lowest[p])
  <2>1. n \in Nat \ {0}
    BY <1>2, <1>0 DEF Every, validCronField
  <2>2. (Lowest[p] - Lowest[p]) % n = 0
    BY <2>1, <1>0
  <2>3. fieldMatches(f, Lowest[p], Lowest[p])
    BY <1>2, <2>2 DEF Every, fieldMatches
  <2> QED BY <2>3, <1>0
<1>3. ASSUME NEW parts \in SUBSET (Nat \X Nat), parts # {}, f = Listed(parts)
      PROVE  \E v \in Lowest[p] .. Highest[p] : fieldMatches(f, v, Lowest[p])
  <2>1. PICK q \in parts : TRUE
    BY <1>3
  <2>2. q[1] \in Nat /\ q[2] \in Nat /\ Lowest[p] <= q[1] /\ q[1] <= q[2] /\ q[2] <= Highest[p]
    BY <1>3, <2>1 DEF Listed, validCronField
  <2>3. fieldMatches(f, q[1], Lowest[p])
    BY <1>3, <2>1, <2>2 DEF Listed, fieldMatches
  <2> QED BY <2>2, <2>3, <1>0
<1> QED BY <1>1, <1>2, <1>3 DEF CronForms

(* A schedule that is accepted matches a minute exactly when it is due.    *)
LEMMA MatchesWhenDue ==
    ASSUME NEW s \in [Positions -> CronForms], validateCronExpression(s), NEW d \in Dates
    PROVE  cronMatches(s, d) <=> Due(s, d)
<1>1. \A p \in Positions : fieldMatches(s[p], d[p], Lowest[p]) <=> d[p] \in Denotes(s[p], p)
  <2>1. SUFFICES ASSUME NEW p \in Positions
                 PROVE  fieldMatches(s[p], d[p], Lowest[p]) <=> d[p] \in Denotes(s[p], p)
    OBVIOUS
  <2>2. d[p] \in Lowest[p] .. Highest[p]
    BY Ranges DEF Dates
  <2>3. s[p] \in CronForms /\ validCronField(s[p], Lowest[p], Highest[p])
    BY DEF validateCronExpression
  <2> QED BY <2>2, <2>3, FieldDenotes
<1>2. /\ fieldMatches(s.minute, d.minute, 0) <=> d.minute \in Denotes(s.minute, "minute")
      /\ fieldMatches(s.hour, d.hour, 0) <=> d.hour \in Denotes(s.hour, "hour")
      /\ fieldMatches(s.day, d.day, 1) <=> d.day \in Denotes(s.day, "day")
      /\ fieldMatches(s.month, d.month, 1) <=> d.month \in Denotes(s.month, "month")
      /\ fieldMatches(s.weekday, d.weekday, 0) <=> d.weekday \in Denotes(s.weekday, "weekday")
  BY <1>1 DEF Positions, Lowest
<1>3. /\ s.day = Always => d.day \in Denotes(s.day, "day")
      /\ s.weekday = Always => d.weekday \in Denotes(s.weekday, "weekday")
  <2>1. \A p \in Positions : d[p] \in Lowest[p] .. Highest[p]
    BY Ranges DEF Dates
  <2>2. d.day \in Lowest["day"] .. Highest["day"] /\ d.weekday \in Lowest["weekday"] .. Highest["weekday"]
    BY <2>1 DEF Positions
  <2>3. \A p \in Positions : Denotes(Always, p) = Lowest[p] .. Highest[p]
    BY DEF Always, Denotes
  <2> QED BY <2>2, <2>3 DEF Positions
<1> QED BY <1>2, <1>3 DEF cronMatches, DayMatches, Due

-----------------------------------------------------------------------------
(* Time.                                                                   *)
LEMMA MinuteIs ==
    ASSUME NEW t \in Nat, NEW m \in Nat
    PROVE  /\ MinuteOf(t) \in Nat
           /\ m = MinuteOf(t) <=> m * MinuteUnits <= t /\ t < (m + 1) * MinuteUnits
<1>1. MinuteUnits \in Nat \ {0}
  BY CronAssumption
<1>2. MinuteOf(t) \in Nat /\ MinuteOf(t) * MinuteUnits <= t /\ t < (MinuteOf(t) + 1) * MinuteUnits
  BY <1>1 DEF MinuteOf
<1>3. ASSUME m * MinuteUnits <= t, t < (m + 1) * MinuteUnits PROVE m = MinuteOf(t)
  <2> DEFINE n == MinuteOf(t)
  <2>1. n \in Nat /\ n * MinuteUnits <= t /\ t < (n + 1) * MinuteUnits
    BY <1>2
  <2> HIDE DEF n
  <2>2. CASE m < n
    <3>1. (m + 1) * MinuteUnits <= n * MinuteUnits
      BY <1>1, <2>1, <2>2
    <3> QED BY <1>1, <1>3, <2>1, <3>1
  <2>3. CASE n < m
    <3>1. (n + 1) * MinuteUnits <= m * MinuteUnits
      BY <1>1, <2>1, <2>3
    <3> QED BY <1>1, <1>3, <2>1, <3>1
  <2> QED BY <2>1, <2>2, <2>3 DEF n
<1> QED BY <1>2, <1>3

(* The next moment is in the same minute or the next.                      *)
LEMMA NextMoment ==
    ASSUME NEW t \in Nat
    PROVE  \/ MinuteOf(t + 1) = MinuteOf(t)
           \/ MinuteOf(t + 1) = MinuteOf(t) + 1 /\ t + 1 = (MinuteOf(t) + 1) * MinuteUnits
<1> DEFINE m == MinuteOf(t)
<1>1. m \in Nat /\ m * MinuteUnits <= t /\ t < (m + 1) * MinuteUnits
  BY MinuteIs
<1> HIDE DEF m
<1>2. MinuteUnits \in Nat \ {0} /\ m * MinuteUnits \in Nat /\ (m + 1) * MinuteUnits \in Nat
      /\ (m + 2) * MinuteUnits = (m + 1) * MinuteUnits + MinuteUnits
      /\ m + 1 \in Nat /\ (m + 1) + 1 = m + 2
  BY <1>1, CronAssumption
<1>3. CASE t + 1 < (m + 1) * MinuteUnits
  <2>1. m * MinuteUnits <= t + 1
    BY <1>1, <1>2
  <2>2. m = MinuteOf(t + 1)
    BY <1>1, <1>3, <2>1, MinuteIs
  <2> QED BY <2>2 DEF m
<1>4. CASE t + 1 = (m + 1) * MinuteUnits
  <2>1. t + 1 < ((m + 1) + 1) * MinuteUnits
    BY <1>2, <1>4
  <2>2. m + 1 = MinuteOf(t + 1)
    BY <1>2, <1>4, <2>1, MinuteIs
  <2> QED BY <1>4, <2>2 DEF m
<1> QED BY <1>1, <1>2, <1>3, <1>4

(* A calendar goes from dates to dates.                                    *)
LEMMA NextDate == ASSUME NEW d \in Dates PROVE NextMinute(d) \in Dates
<1> DEFINE e == NextMinute(d)
<1>1. /\ d.minute \in 0 .. 59 /\ d.hour \in 0 .. 23 /\ d.day \in 1 .. 31
      /\ d.month \in 1 .. 12 /\ d.weekday \in 0 .. 6 /\ d.day <= DaysIn(d.month)
  <2>1. \A p \in Positions : d[p] \in Lowest[p] .. Highest[p]
    BY Ranges DEF Dates
  <2> QED BY <2>1 DEF Positions, Lowest, Highest, Dates
<1>2. \A m \in 1 .. 12 : DaysIn(m) \in 28 .. 31
  BY DEF DaysIn
<1>3. e.minute \in 0 .. 59 /\ e.hour \in 0 .. 23 /\ e.weekday \in 0 .. 6
  BY <1>1 DEF NextMinute
<1>4. e.month \in 1 .. 12
  BY <1>1 DEF NextMinute
<1>5. e.day \in 1 .. 31 /\ e.day <= DaysIn(e.month)
  <2>1. CASE d.minute = 59 /\ d.hour = 23 /\ d.day = DaysIn(d.month)
    <3>1. e.day = 1
      BY <2>1 DEF NextMinute
    <3> QED BY <1>2, <1>4, <3>1
  <2>2. CASE ~(d.minute = 59 /\ d.hour = 23 /\ d.day = DaysIn(d.month))
    <3>1. e.month = d.month /\ e.day \in {d.day, d.day + 1}
          /\ (e.day = d.day + 1 => d.day # DaysIn(d.month))
      BY <1>1, <2>2 DEF NextMinute
    <3> QED BY <1>1, <1>2, <3>1
  <2> QED BY <2>1, <2>2
<1>6. e = [p \in Positions |-> e[p]]
  BY DEF NextMinute, Positions
<1>7. \A p \in Positions : e[p] \in Nat /\ Lowest[p] <= e[p] /\ e[p] <= Highest[p]
  BY <1>3, <1>4, <1>5 DEF Positions, Lowest, Highest
<1>8. e.day <= DaysIn(e.month)
  BY <1>5
<1> HIDE DEF e
<1>9. e \in [Positions -> Nat]
  BY <1>6, <1>7
<1>10. e \in Dates
  BY <1>7, <1>8, <1>9 DEF Dates
<1> QED BY <1>10 DEF e

-----------------------------------------------------------------------------
(* A schedule that is accepted fires on some day, or names days that none  *)
(* of its months has.                                                      *)
LEMMA DayFires ==
    ASSUME NEW s \in [Positions -> CronForms], validateCronExpression(s)
    PROVE  \/ \E month \in Denotes(s.month, "month") :
                 \E day \in 1 .. DaysIn(month) + 1, weekday \in 0 .. 6 :
                     /\ day = DaysIn(month) + 1 => month = 2
                     /\ DayMatches(s, [day |-> day, weekday |-> weekday])
           \/ s.weekday = Always /\ \A m \in Denotes(s.month, "month"), d \in Denotes(s.day, "day") :
                                       d > DaysIn(m)
<1>1. \A p \in Positions : s[p] \in CronForms /\ validCronField(s[p], Lowest[p], Highest[p])
  BY DEF validateCronExpression
<1>2. /\ s.day \in CronForms /\ validCronField(s.day, Lowest["day"], Highest["day"])
      /\ s.month \in CronForms /\ validCronField(s.month, Lowest["month"], Highest["month"])
      /\ s.weekday \in CronForms /\ validCronField(s.weekday, Lowest["weekday"], Highest["weekday"])
      /\ "day" \in Positions /\ "month" \in Positions /\ "weekday" \in Positions
  BY <1>1 DEF Positions
<1>3. /\ Lowest["day"] = 1 /\ Lowest["month"] = 1 /\ Lowest["weekday"] = 0
      /\ Highest["day"] = 31 /\ Highest["month"] = 12 /\ Highest["weekday"] = 6
  BY DEF Lowest, Highest
<1>4. PICK m \in 1 .. 12 : m \in Denotes(s.month, "month")
  <2>1. PICK m \in 1 .. 12 : fieldMatches(s.month, m, Lowest["month"])
    BY <1>2, <1>3, FieldFires
  <2> QED BY <1>2, <1>3, <2>1, FieldDenotes
<1>5. PICK w \in 0 .. 6 : fieldMatches(s.weekday, w, 0)
  BY <1>2, <1>3, FieldFires
<1>6. DaysIn(m) \in 28 .. 31
  BY DEF DaysIn
<1>7. \A v : fieldMatches(Always, v, 1) /\ fieldMatches(Always, v, 0)
  BY DEF Always, fieldMatches
<1>8. CASE s.day = Always \/ s.weekday # Always
  <2>1. DayMatches(s, [day |-> 1, weekday |-> w])
    BY <1>5, <1>7, <1>8 DEF DayMatches
  <2>2. 1 \in 1 .. DaysIn(m) + 1 /\ 1 # DaysIn(m) + 1
    BY <1>6
  <2>3. \E day \in 1 .. DaysIn(m) + 1, weekday \in 0 .. 6 :
           /\ day = DaysIn(m) + 1 => m = 2
           /\ DayMatches(s, [day |-> day, weekday |-> weekday])
    BY <2>1, <2>2
  <2> QED BY <1>4, <2>3
<1>9. CASE s.weekday = Always /\ s.day # Always
  <2>1. SUFFICES ASSUME NEW month \in Denotes(s.month, "month"), NEW d \in Denotes(s.day, "day"),
                        ~(d > DaysIn(month))
                 PROVE  \E day \in 1 .. DaysIn(month) + 1, weekday \in 0 .. 6 :
                           /\ day = DaysIn(month) + 1 => month = 2
                           /\ DayMatches(s, [day |-> day, weekday |-> weekday])
    BY <1>9
  <2>2. DaysIn(month) \in 28 .. 31
    BY DEF DaysIn
  <2>3. d \in 1 .. 31
    <3>1. Denotes(s.day, "day") \subseteq Lowest["day"] .. Highest["day"]
      BY <1>2 DEF Denotes, CronForms, Every, Listed, Always
    <3> QED BY <1>3, <3>1
  <2>4. fieldMatches(s.day, d, 1)
    BY <1>2, <1>3, <2>3, FieldDenotes
  <2>5. DayMatches(s, [day |-> d, weekday |-> 0])
    BY <1>7, <1>9, <2>4 DEF DayMatches
  <2>6. d \in 1 .. DaysIn(month) + 1 /\ d # DaysIn(month) + 1
    BY <2>1, <2>2, <2>3
  <2> QED BY <2>5, <2>6
<1> QED BY <1>8, <1>9

LEMMA Fires == ASSUME crontab \in Timetables PROVE AcceptedFires
<1> SUFFICES ASSUME NEW n \in DOMAIN crontab, validateCronExpression(crontab[n])
             PROVE  LET s == crontab[n] IN
                    /\ \A p \in Positions : \E v \in Lowest[p] .. Highest[p] :
                          fieldMatches(s[p], v, Lowest[p])
                    /\ \/ \E month \in Denotes(s.month, "month") :
                             \E day \in 1 .. DaysIn(month) + 1, weekday \in 0 .. 6 :
                                /\ day = DaysIn(month) + 1 => month = 2
                                /\ DayMatches(s, [day |-> day, weekday |-> weekday])
                       \/ s.weekday = Always /\ \A m \in Denotes(s.month, "month"),
                                                   d \in Denotes(s.day, "day") : d > DaysIn(m)
  BY DEF AcceptedFires
<1>1. crontab[n] \in [Positions -> CronForms]
  BY DEF Timetables
<1>2. \A p \in Positions : \E v \in Lowest[p] .. Highest[p] :
         fieldMatches(crontab[n][p], v, Lowest[p])
  <2> SUFFICES ASSUME NEW p \in Positions
               PROVE  \E v \in Lowest[p] .. Highest[p] : fieldMatches(crontab[n][p], v, Lowest[p])
    OBVIOUS
  <2>1. crontab[n][p] \in CronForms /\ validCronField(crontab[n][p], Lowest[p], Highest[p])
    BY <1>1 DEF validateCronExpression
  <2> QED BY <2>1, FieldFires
<1> QED BY <1>1, <1>2, DayFires

-----------------------------------------------------------------------------
(* What is under way, and what there is.                                   *)
CronTypes ==
    /\ crontab \in Timetables /\ cronNow \in Nat
    /\ DOMAIN calendar \subseteq Nat /\ MinuteOf(cronNow) \in DOMAIN calendar
    /\ \A m \in DOMAIN calendar : calendar[m] \in Dates
    /\ runners \in [Runners -> [up: BOOLEAN, wait: 0 .. MinuteUnits, stalled: BOOLEAN,
                                excused: SUBSET Nat]]
    /\ crons \subseteq [runner: Runners, at: Nat, entry: Nat]

(* Ticks are of minutes there have been, and schedules that are accepted;  *)
Ticks == \A t \in crons : /\ t.at \in Nat /\ MinuteOf(t.at) \in DOMAIN calendar
                          /\ t.entry \in DOMAIN crontab
                          /\ Started
(* a job is for its minute, in which it is due, and the only one.          *)
CronJob(j) == /\ j.at \in Nat /\ MinuteOf(j.at) \in DOMAIN calendar
              /\ j.key = cronOccurrenceKey(j.at)
              /\ Due(crontab[j.name], DateOf(j.at))
OneJobEach == \A j, k \in cronjobs : j.name = k.name /\ j.key = k.key => j = k

(* An entry is done with in a minute once it has its job, if it is due;    *)
Covered(n, m) == Due(crontab[n], calendar[m]) =>
                     \E j \in cronjobs : j.name = n /\ MinuteOf(j.at) = m
(* an instance that has ticked in a minute is done with the entries before *)
(* the one it is at, or with all;                                          *)
Ticked(i, m) == \/ \A n \in DOMAIN crontab : Covered(n, m)
                \/ \E t \in crons : /\ t.runner = i /\ MinuteOf(t.at) = m
                                    /\ \A n \in DOMAIN crontab : n < t.entry => Covered(n, m)
(* and one that was not kept from it has ticked in every minute so far, or *)
(* has been waiting since before this one began.                           *)
Watches(i) == \A m \in DOMAIN calendar :
    \/ m \in runners[i].excused
    \/ Ticked(i, m)
    \/ /\ m = MinuteOf(cronNow)
       /\ runners[i].up => cronNow < m * MinuteUnits + runners[i].wait

CronInv == /\ CronTypes /\ Ticks /\ OneJobEach
           /\ \A j \in cronjobs : CronJob(j)
           /\ \A i \in Runners : Watches(i)

-----------------------------------------------------------------------------
LEMMA CronKept == ASSUME CronInv PROVE SchedulesKept
<1>1. AcceptedFires
  BY Fires DEF CronInv, CronTypes
<1>2. OncePerOccurrence
  <2>1. \A j, k \in cronjobs : MinuteOf(j.at) = MinuteOf(k.at) => j.key = k.key
    BY DEF CronInv, CronJob, cronOccurrenceKey
  <2> QED BY <2>1 DEF CronInv, CronJob, OneJobEach, OncePerOccurrence
<1>3. NoneMissed
  <2> SUFFICES ASSUME NEW n \in DOMAIN crontab, NEW m \in DOMAIN calendar, NEW i \in Runners,
                      cronNow >= (m + 1) * MinuteUnits, m \notin runners[i].excused,
                      \A t \in crons : MinuteOf(t.at) # m, Due(crontab[n], calendar[m])
               PROVE  \E j \in cronjobs : j.name = n /\ MinuteOf(j.at) = m
    BY DEF NoneMissed
  <2>1. m \in Nat /\ cronNow \in Nat /\ MinuteUnits \in Nat
    BY CronAssumption DEF CronInv, CronTypes
  <2>2. m # MinuteOf(cronNow)
    <3>1. (m + 1) * MinuteUnits \in Nat
      BY <2>1
    <3> QED BY <2>1, <3>1, MinuteIs
  <2>3. Ticked(i, m)
    BY <2>2 DEF CronInv, Watches
  <2> QED BY <2>3 DEF Ticked, Covered
<1> QED BY <1>1, <1>2, <1>3 DEF SchedulesKept

LEMMA InitCron ==
    ASSUME NEW tables, NEW dates, NEW up, NEW now, CronInit(tables, dates, up, now),
           tables \subseteq Timetables, dates \subseteq Dates, up \subseteq BOOLEAN, now \in Nat
    PROVE  CronInv
<1>1. MinuteOf(now) \in Nat /\ MinuteUnits \in Nat
  BY MinuteIs, CronAssumption
<1>2. /\ cronNow = now /\ crontab \in Timetables /\ crons = {} /\ cronjobs = {}
      /\ calendar \in [{MinuteOf(now)} -> Dates]
      /\ runners \in [Runners -> [up: up, wait: {0}, stalled: {FALSE}, excused: {0 .. MinuteOf(now)}]]
  BY DEF CronInit
<1>3. CronTypes
  <2>1. 0 \in 0 .. MinuteUnits /\ FALSE \in BOOLEAN /\ 0 .. MinuteOf(now) \in SUBSET Nat
    BY <1>1
  <2>2. [up: up, wait: {0}, stalled: {FALSE}, excused: {0 .. MinuteOf(now)}]
           \subseteq [up: BOOLEAN, wait: 0 .. MinuteUnits, stalled: BOOLEAN, excused: SUBSET Nat]
    BY <2>1
  <2>3. runners \in [Runners -> [up: BOOLEAN, wait: 0 .. MinuteUnits, stalled: BOOLEAN,
                                 excused: SUBSET Nat]]
    BY <1>2, <2>2
  <2> QED BY <1>1, <1>2, <2>3 DEF CronTypes
<1>4. \A i \in Runners : runners[i].excused = 0 .. MinuteOf(now)
  BY <1>2
<1> QED BY <1>1, <1>2, <1>3, <1>4 DEF CronInv, Ticks, OneJobEach, Watches

-----------------------------------------------------------------------------

(* What was ticked stays so while no tick of it is given up.               *)
LEMMA TickedStays ==
    ASSUME NEW i, NEW m, Ticked(i, m), UNCHANGED crontab, calendar'[m] = calendar[m],
           cronjobs \subseteq cronjobs',
           \A t \in crons : t.runner = i /\ MinuteOf(t.at) = m => t \in crons'
    PROVE  Ticked(i, m)'
<1>1. \A n : Covered(n, m) => Covered(n, m)'
  BY DEF Covered
<1> QED BY <1>1 DEF Ticked

(* An instance ticks: it has been waiting for this minute, if for any.     *)
LEMMA CronTickKeeps == ASSUME CronInv, NEW i \in Runners, CronTick(i) PROVE CronInv'
<1> DEFINE t == [runner |-> i, at |-> cronNow, entry |-> 1]
<1>1. /\ Started /\ crons' = crons \cup {t}
      /\ runners' = [runners EXCEPT ![i].wait = 0, ![i].stalled = FALSE]
      /\ UNCHANGED <<crontab, calendar, cronNow, cronjobs, cronFaults>>
  BY DEF CronTick
<1>2. t.runner = i /\ t.at = cronNow /\ t.entry = 1
  OBVIOUS
<1> HIDE DEF t
<1>3. \A k \in Runners : /\ runners'[k].excused = runners[k].excused
                         /\ runners'[k].up = runners[k].up
                         /\ k # i => runners'[k].wait = runners[k].wait
  BY <1>1 DEF CronInv, CronTypes
<1>4. CronTypes'
  <2>1. 0 \in 0 .. MinuteUnits
    BY CronAssumption
  <2>2. t \in [runner: Runners, at: Nat, entry: Nat]
    BY DEF t, CronInv, CronTypes
  <2> QED BY <1>1, <2>1, <2>2 DEF CronInv, CronTypes
<1>5. Ticks'
  <2>1. 1 \in DOMAIN crontab /\ cronNow \in Nat /\ MinuteOf(cronNow) \in DOMAIN calendar
    BY DEF CronInv, CronTypes, Timetables
  <2>2. Started'
    BY <1>1 DEF Started
  <2> QED BY <1>1, <1>2, <2>1, <2>2 DEF CronInv, Ticks
<1>6. OneJobEach' /\ \A j \in cronjobs' : CronJob(j)'
  BY <1>1 DEF CronInv, OneJobEach, CronJob, DateOf
<1>7. ASSUME NEW k \in Runners PROVE Watches(k)'
  <2>1. \A m \in DOMAIN calendar : Ticked(k, m) => Ticked(k, m)'
    BY <1>1, TickedStays
  <2>2. ASSUME k = i PROVE Ticked(k, MinuteOf(cronNow))'
    <3>1. \A n \in DOMAIN crontab : ~(n < 1)
      BY DEF CronInv, CronTypes, Timetables
    <3> QED BY <1>1, <1>2, <2>2, <3>1 DEF Ticked
  <2> QED BY <1>1, <1>3, <2>1, <2>2 DEF CronInv, Watches
<1> QED BY <1>4, <1>5, <1>6, <1>7 DEF CronInv

(* The keys of two moments are the same when their minutes are.            *)
LEMMA KeysAreMinutes ==
    ASSUME NEW s \in Nat, NEW t \in Nat
    PROVE  cronOccurrenceKey(s) = cronOccurrenceKey(t) <=> MinuteOf(s) = MinuteOf(t)
<1> DEFINE m == MinuteOf(s)
           n == MinuteOf(t)
<1>1. m \in Nat /\ n \in Nat /\ MinuteUnits \in Nat \ {0}
  BY MinuteIs, CronAssumption
<1> HIDE DEF m, n
<1>2. m * MinuteUnits = n * MinuteUnits => m = n
  <2>1. m < n => (m + 1) * MinuteUnits <= n * MinuteUnits
    BY <1>1
  <2>2. n < m => (n + 1) * MinuteUnits <= m * MinuteUnits
    BY <1>1
  <2>3. /\ (m + 1) * MinuteUnits = m * MinuteUnits + MinuteUnits
        /\ (n + 1) * MinuteUnits = n * MinuteUnits + MinuteUnits
        /\ m * MinuteUnits \in Nat /\ n * MinuteUnits \in Nat
    BY <1>1
  <2> QED BY <1>1, <2>1, <2>2, <2>3
<1> QED BY <1>2 DEF m, n, cronOccurrenceKey

(* A tick comes to an entry: its job is there afterwards, if it is due.    *)
LEMMA CronEntryKeeps == ASSUME CronInv, NEW t \in crons, CronEntry(t) PROVE CronInv'
<1> DEFINE key == cronOccurrenceKey(t.at)
           new == [name |-> t.entry, key |-> key, at |-> t.at]
           goes == [t EXCEPT !.entry = @ + 1]
<1>1. /\ UNCHANGED <<crontab, calendar, cronNow, runners, cronFaults>>
      /\ cronjobs' = IF /\ cronMatches(crontab[t.entry], DateOf(t.at))
                        /\ ~\E j \in cronjobs : j.name = t.entry /\ j.key = key
                     THEN cronjobs \cup {new} ELSE cronjobs
      /\ crons' = (crons \ {t}) \cup (IF t.entry = Len(crontab) THEN {} ELSE {goes})
  BY DEF CronEntry, Passed
<1>2. /\ t.at \in Nat /\ MinuteOf(t.at) \in DOMAIN calendar /\ t.entry \in DOMAIN crontab /\ Started
      /\ DateOf(t.at) \in Dates /\ crontab[t.entry] \in [Positions -> CronForms]
      /\ validateCronExpression(crontab[t.entry])
  BY DEF CronInv, CronTypes, Ticks, DateOf, Started, Timetables
<1>3. cronMatches(crontab[t.entry], DateOf(t.at)) <=> Due(crontab[t.entry], DateOf(t.at))
  BY <1>2, MatchesWhenDue
<1>4. new.name = t.entry /\ new.key = key /\ new.at = t.at
  OBVIOUS
<1>5. t.entry # Len(crontab) => goes \in crons' /\ goes.entry \in DOMAIN crontab
  BY <1>1, <1>2 DEF CronInv, CronTypes, Timetables, Ticks
<1> HIDE DEF new
<1>6. CronTypes'
  <2>1. goes \in [runner: Runners, at: Nat, entry: Nat]
    BY DEF CronInv, CronTypes
  <2> QED BY <1>1, <2>1 DEF CronInv, CronTypes
<1>7. \A j \in cronjobs' : CronJob(j)'
  <2>1. \A j \in cronjobs : CronJob(j)'
    BY <1>1 DEF CronInv, CronJob, DateOf
  <2>2. ASSUME cronjobs' = cronjobs \cup {new}, Due(crontab[t.entry], DateOf(t.at))
        PROVE  CronJob(new)'
    BY <1>1, <1>2, <1>4, <2>2 DEF CronJob, DateOf
  <2> QED BY <1>1, <1>3, <2>1, <2>2
<1>8. OneJobEach'
  BY <1>1, <1>4 DEF CronInv, OneJobEach
<1>9. Covered(t.entry, MinuteOf(t.at))'
  <2> SUFFICES ASSUME Due(crontab[t.entry], DateOf(t.at))
               PROVE  \E j \in cronjobs' : j.name = t.entry /\ MinuteOf(j.at) = MinuteOf(t.at)
    BY <1>1 DEF Covered, DateOf
  <2>1. CASE \E j \in cronjobs : j.name = t.entry /\ j.key = key
    <3>1. PICK j \in cronjobs : j.name = t.entry /\ j.key = key
      BY <2>1
    <3>2. j.at \in Nat /\ j.key = cronOccurrenceKey(j.at)
      BY DEF CronInv, CronJob
    <3>3. MinuteOf(j.at) = MinuteOf(t.at)
      BY <1>2, <3>1, <3>2, KeysAreMinutes
    <3> QED BY <1>1, <3>1, <3>3
  <2>2. CASE ~\E j \in cronjobs : j.name = t.entry /\ j.key = key
    <3>1. new \in cronjobs'
      BY <1>1, <1>3, <2>2
    <3> QED BY <1>4, <3>1
  <2> QED BY <2>1, <2>2
<1>10. Ticks'
  <2>1. goes.at = t.at /\ Started'
    BY <1>1, <1>2 DEF Started, CronInv, CronTypes
  <2> QED BY <1>1, <1>2, <1>5, <2>1 DEF CronInv, Ticks
<1>11. ASSUME NEW i \in Runners PROVE Watches(i)'
  <2> SUFFICES ASSUME NEW m \in DOMAIN calendar, Ticked(i, m) PROVE Ticked(i, m)'
    BY <1>1 DEF CronInv, Watches
  <2>1. \A n : Covered(n, m) => Covered(n, m)'
    BY <1>1 DEF Covered
  <2>2. CASE \A u \in crons : u.runner = i /\ MinuteOf(u.at) = m => u # t
    BY <1>1, <2>2, TickedStays
  <2>3. CASE t.runner = i /\ MinuteOf(t.at) = m
    <3>1. CASE \E u \in crons \ {t} : /\ u.runner = i /\ MinuteOf(u.at) = m
                                      /\ \A n \in DOMAIN crontab : n < u.entry => Covered(n, m)
      <4>1. \A u \in crons \ {t} : u \in crons'
        BY <1>1
      <4> QED BY <1>1, <2>1, <3>1, <4>1 DEF Ticked
    <3>2. CASE \A n \in DOMAIN crontab : Covered(n, m)
      BY <1>1, <2>1, <3>2 DEF Ticked
    <3>3. CASE \A n \in DOMAIN crontab : n < t.entry => Covered(n, m)
      <4>1. \A n \in DOMAIN crontab : n <= t.entry => Covered(n, m)'
        BY <1>2, <1>9, <2>1, <2>3, <3>3 DEF CronInv, CronTypes, Timetables
      <4>2. \A n \in DOMAIN crontab : n <= Len(crontab) /\ n \in Nat
        BY DEF CronInv, CronTypes, Timetables
      <4>3. CASE t.entry = Len(crontab)
        BY <1>1, <4>1, <4>2, <4>3 DEF Ticked
      <4>4. CASE t.entry # Len(crontab)
        <5>1. \A n \in DOMAIN crontab : n < goes.entry => n <= t.entry
          BY <1>2, <1>5, <4>2
        <5>2. goes.runner = i /\ MinuteOf(goes.at) = m
          BY <2>3 DEF CronInv, CronTypes
        <5> HIDE DEF goes
        <5>3. \A n \in DOMAIN crontab' : n < goes.entry => Covered(n, m)'
          BY <1>1, <4>1, <5>1
        <5> QED BY <1>5, <4>4, <5>2, <5>3 DEF Ticked
      <4> QED BY <4>3, <4>4
    <3> QED BY <2>3, <3>1, <3>2, <3>3 DEF Ticked
  <2> QED BY <2>2, <2>3
<1> QED BY <1>6, <1>7, <1>8, <1>10, <1>11 DEF CronInv

(* Whoever's tick is given up, or who was not there, is excused.           *)
LEMMA ExcusedKeeps ==
    ASSUME CronInv, UNCHANGED <<crontab, calendar, cronNow, cronjobs>>, crons' \subseteq crons,
           runners' \in [Runners -> [up: BOOLEAN, wait: 0 .. MinuteUnits, stalled: BOOLEAN,
                                     excused: SUBSET Nat]],
           \A i \in Runners :
              /\ runners[i].excused \subseteq runners'[i].excused
              /\ \A t \in crons \ crons' : t.runner = i => MinuteOf(t.at) \in runners'[i].excused
              /\ \/ runners'[i].up => runners[i].up /\ runners'[i].wait = runners[i].wait
                 \/ MinuteOf(cronNow) \in runners'[i].excused
    PROVE  CronInv'
<1>1. CronTypes' /\ Ticks' /\ OneJobEach' /\ \A j \in cronjobs' : CronJob(j)'
  BY DEF CronInv, CronTypes, Ticks, OneJobEach, CronJob, DateOf, Started
<1>2. ASSUME NEW i \in Runners PROVE Watches(i)'
  <2> SUFFICES ASSUME NEW m \in DOMAIN calendar, m \notin runners'[i].excused
               PROVE  \/ Ticked(i, m)'
                      \/ /\ m = MinuteOf(cronNow)
                         /\ runners'[i].up => cronNow < m * MinuteUnits + runners'[i].wait
    BY DEF Watches
  <2>1. CASE Ticked(i, m)
    <3>1. \A t \in crons : t.runner = i /\ MinuteOf(t.at) = m => t \in crons'
      OBVIOUS
    <3> QED BY <2>1, <3>1, TickedStays
  <2>2. CASE ~Ticked(i, m)
    BY <2>2 DEF CronInv, Watches
  <2> QED BY <2>1, <2>2
<1> QED BY <1>1, <1>2 DEF CronInv

LEMMA CronFailureKeeps == ASSUME CronInv, NEW t \in crons, CronEntryFails(t) PROVE CronInv'
<1>1. /\ UNCHANGED <<crontab, calendar, cronNow, cronjobs>> /\ crons' = crons \ {t}
      /\ runners' = [runners EXCEPT ![t.runner].excused = @ \cup {MinuteOf(t.at)}]
  BY DEF CronEntryFails, Excuse
<1>2. MinuteOf(t.at) \in Nat /\ t.runner \in Runners
  BY DEF CronInv, CronTypes, Ticks
<1>3. runners' \in [Runners -> [up: BOOLEAN, wait: 0 .. MinuteUnits, stalled: BOOLEAN,
                                excused: SUBSET Nat]]
  BY <1>1, <1>2 DEF CronInv, CronTypes
<1>4. ASSUME NEW i \in Runners
      PROVE  /\ runners[i].excused \subseteq runners'[i].excused
             /\ runners'[i].up = runners[i].up /\ runners'[i].wait = runners[i].wait
             /\ i = t.runner => MinuteOf(t.at) \in runners'[i].excused
  BY <1>1, <1>2 DEF CronInv, CronTypes
<1> QED BY <1>1, <1>3, <1>4, ExcusedKeeps

LEMMA DeathKeeps == ASSUME CronInv, NEW i \in Runners, RunnerDies(i) PROVE CronInv'
<1> DEFINE mine == {t \in crons : t.runner = i}
           lost == {MinuteOf(t.at) : t \in mine} \cup {MinuteOf(cronNow)}
<1>1. /\ UNCHANGED <<crontab, calendar, cronNow, cronjobs>> /\ crons' = crons \ mine
      /\ runners' = [runners EXCEPT ![i].up = FALSE, ![i].excused = runners[i].excused \cup lost]
  BY DEF RunnerDies, Excuse
<1>2. lost \subseteq Nat
  BY DEF CronInv, CronTypes, Ticks
<1>3. \A t \in mine : MinuteOf(t.at) \in lost
  OBVIOUS
<1>4. MinuteOf(cronNow) \in lost /\ \A t \in crons \ mine : t.runner # i
  OBVIOUS
<1>5. \A t \in mine : t.runner = i
  OBVIOUS
<1> HIDE DEF mine, lost
<1>6. runners' \in [Runners -> [up: BOOLEAN, wait: 0 .. MinuteUnits, stalled: BOOLEAN,
                                excused: SUBSET Nat]]
  BY <1>1, <1>2 DEF CronInv, CronTypes
<1>7. /\ runners'[i].excused = runners[i].excused \cup lost
      /\ \A k \in Runners \ {i} : runners'[k] = runners[k]
  BY <1>1 DEF CronInv, CronTypes
<1>8. ASSUME NEW k \in Runners
      PROVE  /\ runners[k].excused \subseteq runners'[k].excused
             /\ \A t \in crons \ crons' : t.runner = k => MinuteOf(t.at) \in runners'[k].excused
             /\ \/ runners'[k].up => runners[k].up /\ runners'[k].wait = runners[k].wait
                \/ MinuteOf(cronNow) \in runners'[k].excused
  BY <1>1, <1>3, <1>4, <1>5, <1>7
<1> QED BY <1>1, <1>6, <1>8, ExcusedKeeps

LEMMA StartKeeps == ASSUME CronInv, NEW i \in Runners, RunnerStarts(i) PROVE CronInv'
<1>1. /\ UNCHANGED <<crontab, calendar, cronNow, crons, cronjobs>>
      /\ runners' = [runners EXCEPT ![i] = [up |-> TRUE, wait |-> 0, stalled |-> FALSE,
                                            excused |-> runners[i].excused \cup {MinuteOf(cronNow)}]]
  BY DEF RunnerStarts, Excuse
<1>2. MinuteOf(cronNow) \in Nat /\ 0 \in 0 .. MinuteUnits
  BY CronAssumption DEF CronInv, CronTypes
<1>3. runners' \in [Runners -> [up: BOOLEAN, wait: 0 .. MinuteUnits, stalled: BOOLEAN,
                                excused: SUBSET Nat]]
  BY <1>1, <1>2 DEF CronInv, CronTypes
<1>4. /\ runners'[i].excused = runners[i].excused \cup {MinuteOf(cronNow)}
      /\ \A k \in Runners \ {i} : runners'[k] = runners[k]
  BY <1>1 DEF CronInv, CronTypes
<1> QED BY <1>1, <1>3, <1>4, ExcusedKeeps

LEMMA StallKeeps == ASSUME CronInv, NEW i \in Runners, RunnerStalls(i) PROVE CronInv'
<1>1. /\ UNCHANGED <<crontab, calendar, cronNow, crons, cronjobs>>
      /\ runners' = [runners EXCEPT ![i].stalled = TRUE]
  BY DEF RunnerStalls
<1>2. runners' \in [Runners -> [up: BOOLEAN, wait: 0 .. MinuteUnits, stalled: BOOLEAN,
                                excused: SUBSET Nat]]
  BY <1>1 DEF CronInv, CronTypes
<1>3. \A k \in Runners : /\ runners'[k].excused = runners[k].excused
                         /\ runners'[k].up = runners[k].up /\ runners'[k].wait = runners[k].wait
  BY <1>1 DEF CronInv, CronTypes
<1> QED BY <1>1, <1>2, <1>3, ExcusedKeeps

(* Time goes on, and with it the calendar: an instance that may still go   *)
(* without its tick for the minute has not waited for a whole one.         *)
LEMMA CronClockKeeps == ASSUME CronInv, CronClock PROVE CronInv'
<1> DEFINE now == MinuteOf(cronNow)
           next == MinuteOf(cronNow + 1)
           Out(i) == ~runners[i].up \/ runners[i].wait = MinuteUnits
           Waiting(i) == [runners[i] EXCEPT !.wait = IF Out(i) THEN @ ELSE @ + 1,
                          !.excused = IF Out(i) THEN runners[i].excused \cup {now} ELSE @]
<1>1. /\ UNCHANGED <<crontab, crons, cronjobs, cronFaults>> /\ cronNow' = cronNow + 1
      /\ calendar' = [m \in DOMAIN calendar \cup {next} |->
                        IF m \in DOMAIN calendar THEN calendar[m] ELSE NextMinute(calendar[m - 1])]
      /\ runners' = [i \in Runners |-> Waiting(i)]
  BY DEF CronClock, Excuse
<1>2. /\ cronNow \in Nat /\ MinuteUnits \in Nat \ {0} /\ now \in DOMAIN calendar
      /\ now \in Nat /\ next \in Nat
      /\ now * MinuteUnits <= cronNow /\ cronNow < (now + 1) * MinuteUnits
  <2>1. cronNow \in Nat /\ MinuteOf(cronNow) \in DOMAIN calendar
    BY DEF CronInv, CronTypes
  <2> QED BY <2>1, MinuteIs, CronAssumption
<1>3. next = now \/ (next = now + 1 /\ cronNow + 1 = (now + 1) * MinuteUnits)
  BY <1>2, NextMoment
<1>4. MinuteOf(cronNow)' = next
  BY <1>1 DEF MinuteOf
<1> HIDE DEF now, next
<1>5. /\ DOMAIN calendar' = DOMAIN calendar \cup {next}
      /\ \A m \in DOMAIN calendar : calendar'[m] = calendar[m]
  BY <1>1
<1>6. ASSUME NEW i \in Runners
      PROVE  /\ Waiting(i) \in [up: BOOLEAN, wait: 0 .. MinuteUnits, stalled: BOOLEAN, excused: SUBSET Nat]
             /\ Waiting(i).up = runners[i].up
             /\ Waiting(i).wait = IF Out(i) THEN runners[i].wait ELSE runners[i].wait + 1
             /\ Waiting(i).excused = IF Out(i) THEN runners[i].excused \cup {now} ELSE runners[i].excused
  <2>1. runners[i] \in [up: BOOLEAN, wait: 0 .. MinuteUnits, stalled: BOOLEAN, excused: SUBSET Nat]
    BY DEF CronInv, CronTypes
  <2> DEFINE wait == IF Out(i) THEN runners[i].wait ELSE runners[i].wait + 1
             excused == IF Out(i) THEN runners[i].excused \cup {now} ELSE runners[i].excused
  <2>2. wait \in 0 .. MinuteUnits
    BY <1>2, <2>1
  <2>3. excused \in SUBSET Nat
    BY <1>2, <2>1
  <2>4. Waiting(i) = [runners[i] EXCEPT !.wait = wait, !.excused = excused]
    OBVIOUS
  <2> HIDE DEF Waiting, Out, wait, excused
  <2>5. /\ Waiting(i) \in [up: BOOLEAN, wait: 0 .. MinuteUnits, stalled: BOOLEAN, excused: SUBSET Nat]
        /\ Waiting(i).up = runners[i].up /\ Waiting(i).wait = wait /\ Waiting(i).excused = excused
    BY <2>1, <2>2, <2>3, <2>4
  <2> QED BY <2>5 DEF wait, excused
<1>7. \A i \in Runners : runners'[i] = Waiting(i)
  BY <1>1
<1> HIDE DEF Waiting
<1>8. CronTypes'
  <2>1. runners' \in [Runners -> [up: BOOLEAN, wait: 0 .. MinuteUnits, stalled: BOOLEAN,
                                  excused: SUBSET Nat]]
    BY <1>1, <1>6
  <2>2. \A m \in DOMAIN calendar' : calendar'[m] \in Dates
    <3> SUFFICES ASSUME next \notin DOMAIN calendar PROVE calendar'[next] \in Dates
      BY <1>5 DEF CronInv, CronTypes
    <3>1. next - 1 = now
      BY <1>2, <1>3
    <3>2. calendar'[next] = NextMinute(calendar[now])
      BY <1>1, <3>1
    <3>3. calendar[now] \in Dates
      BY <1>2 DEF CronInv, CronTypes
    <3> QED BY <3>2, <3>3, NextDate
  <2>3. cronNow' \in Nat /\ DOMAIN calendar' \subseteq Nat
    BY <1>1, <1>2, <1>5 DEF CronInv, CronTypes
  <2>4. MinuteOf(cronNow)' \in DOMAIN calendar'
    BY <1>4, <1>5
  <2>5. crontab' \in Timetables /\ crons' \subseteq [runner: Runners, at: Nat, entry: Nat]
    BY <1>1 DEF CronInv, CronTypes
  <2> QED BY <2>1, <2>2, <2>3, <2>4, <2>5 DEF CronTypes
<1>9. Ticks' /\ OneJobEach' /\ \A j \in cronjobs' : CronJob(j)'
  BY <1>1, <1>5 DEF CronInv, Ticks, OneJobEach, CronJob, DateOf, Started
<1>10. ASSUME NEW i \in Runners PROVE Watches(i)'
  <2> SUFFICES ASSUME NEW m \in DOMAIN calendar', m \notin runners'[i].excused, ~Ticked(i, m)'
               PROVE  m = next /\ (runners'[i].up => cronNow + 1 < m * MinuteUnits + runners'[i].wait)
    BY <1>1, <1>4 DEF Watches
  <2>1. /\ runners[i].wait \in 0 .. MinuteUnits /\ runners[i].up \in BOOLEAN
        /\ runners'[i].up = runners[i].up /\ runners[i].excused \subseteq runners'[i].excused
        /\ runners'[i].wait = IF Out(i) THEN runners[i].wait ELSE runners[i].wait + 1
    BY <1>6, <1>7 DEF CronInv, CronTypes
  <2>2. m \in DOMAIN calendar => ~Ticked(i, m)
    <3> SUFFICES ASSUME m \in DOMAIN calendar, Ticked(i, m) PROVE FALSE
      OBVIOUS
    <3> QED BY <1>1, <1>5, TickedStays
  <2>3. m \in DOMAIN calendar => m = now /\ (runners[i].up => cronNow < m * MinuteUnits + runners[i].wait)
    BY <2>1, <2>2 DEF CronInv, Watches, now
  <2>4. m = now => ~Out(i)
    BY <1>6, <1>7
  <2>5. CASE m = next /\ next # now
    <3>1. m * MinuteUnits = cronNow + 1
      BY <1>3, <2>5
    <3>2. runners'[i].up => runners'[i].wait \in Nat /\ runners'[i].wait >= 1
      BY <1>2, <2>1
    <3> QED BY <1>2, <2>5, <3>1, <3>2
  <2>6. CASE m = now
    <3>1. /\ runners[i].up /\ runners[i].wait < MinuteUnits
          /\ cronNow < m * MinuteUnits + runners[i].wait
          /\ runners'[i].wait = runners[i].wait + 1
      BY <1>2, <2>1, <2>3, <2>4, <2>6
    <3>2. m * MinuteUnits \in Nat /\ (m + 1) * MinuteUnits = m * MinuteUnits + MinuteUnits
      BY <1>2, <2>6
    <3>3. next = now
      BY <1>2, <1>3, <2>1, <2>6, <3>1, <3>2
    <3> QED BY <1>2, <2>1, <2>6, <3>1, <3>2, <3>3
  <2> QED BY <1>5, <2>3, <2>5, <2>6
<1> QED BY <1>8, <1>9, <1>10 DEF CronInv

LEMMA NextCron == ASSUME CronInv, [CronNext]_cronVars PROVE CronInv'
<1>1. ASSUME NEW i \in Runners, CronTick(i) \/ RunnerDies(i) \/ RunnerStarts(i) \/ RunnerStalls(i)
      PROVE  CronInv'
  BY <1>1, CronTickKeeps, DeathKeeps, StartKeeps, StallKeeps
<1>2. ASSUME NEW t \in crons, CronEntry(t) \/ CronEntryFails(t) PROVE CronInv'
  BY <1>2, CronEntryKeeps, CronFailureKeeps
<1>3. CASE CronClock
  BY <1>3, CronClockKeeps
<1>4. CASE UNCHANGED cronVars
  BY <1>4 DEF cronVars, CronInv, CronTypes, Ticks, OneJobEach, CronJob, DateOf, Started, Watches,
              Ticked, Covered, MinuteOf
<1> QED BY <1>1, <1>2, <1>3, <1>4 DEF CronNext

(* However many instances tick, however often a minute, every accepted     *)
(* schedule that can fire does (validateCronExpression, fieldMatches), a   *)
(* minute it is due in has one job of it and no other minute has any       *)
(* (cronTickNow's deduplication key), and no such minute goes by without   *)
(* while one instance is up, does not stall and has no insert fail.        *)
THEOREM SchedulesAreKept ==
    ASSUME NEW tables, NEW dates, NEW up, NEW now,
           tables \subseteq Timetables, dates \subseteq Dates, up \subseteq BOOLEAN, now \in Nat
    PROVE  CronSpec(tables, dates, up, now) => []SchedulesKept
<1>1. CronInit(tables, dates, up, now) => CronInv
  BY InitCron
<1>2. CronInv /\ [CronNext]_cronVars => CronInv'
  BY NextCron
<1>3. CronInv => SchedulesKept
  BY CronKept
<1> QED BY <1>1, <1>2, <1>3, PTL DEF CronSpec
=============================================================================
