---------------------------- MODULE WorkQueueProofs ----------------------------
(***************************************************************************)
(* What the operations of a WorkQueue do to a row: the lemmas that the     *)
(* proofs about the queues built on it share.                              *)
(***************************************************************************)
EXTENDS WorkQueue, FiniteSetTheorems, TLAPS

(* What the changes of a row leave of it.                                  *)
LEMMA NewRowType == ASSUME NEW d \in 0 .. MaxDelay PROVE NewRow(d) \in Row
<1>1. NoRow \in Row
  BY QueueAssumption DEF NoRow, Row, Statuses
<1> QED BY <1>1 DEF NewRow, Row, Statuses

LEMMA LeasedRow == ASSUME NEW r \in Row
                   PROVE  /\ Leased(r) \in Row
                          /\ Leased(r).attempts = r.attempts + 1
                          /\ Leased(r).status = r.status
                          /\ Leased(r).locked /\ Leased(r).left = Lease
<1> DEFINE p == [r EXCEPT !.attempts = @ + 1]
           q == [p EXCEPT !.locked = TRUE]
<1>1. p \in Row /\ p.attempts = r.attempts + 1 /\ p.status = r.status
  BY DEF Row
<1> HIDE DEF p
<1>2. q \in Row /\ q.attempts = p.attempts /\ q.status = p.status /\ q.locked
  BY <1>1 DEF Row
<1>3. Leased(r) = [q EXCEPT !.left = Lease]
  BY DEF Leased, p
<1> HIDE DEF q
<1> QED BY <1>1, <1>2, <1>3, QueueAssumption DEF Row

LEMMA SettledRow == ASSUME NEW r \in Row, NEW s \in Statuses
                    PROVE  /\ Settled(r, s) \in Row
                           /\ Settled(r, s).attempts = r.attempts
                           /\ Settled(r, s).status = s
<1> DEFINE p == [r EXCEPT !.status = s]
           q == [p EXCEPT !.locked = FALSE]
<1>1. p \in Row /\ p.attempts = r.attempts /\ p.status = s
  BY DEF Row
<1> HIDE DEF p
<1>2. q \in Row /\ q.attempts = p.attempts /\ q.status = p.status /\ ~q.locked
  BY <1>1 DEF Row
<1>3. Settled(r, s) = [q EXCEPT !.left = 0]
  BY DEF Settled, p
<1> HIDE DEF q
<1> QED BY <1>1, <1>2, <1>3, QueueAssumption DEF Row

LEMMA RetriedRow == ASSUME NEW r \in Row, NEW d \in 0 .. MaxDelay
                    PROVE  /\ Retried(r, d) \in Row
                           /\ Retried(r, d).attempts = r.attempts
                           /\ Retried(r, d).status = r.status
                           /\ ~Retried(r, d).locked
<1> DEFINE p == [r EXCEPT !.due = d]
           q == [p EXCEPT !.locked = FALSE]
<1>1. p \in Row /\ p.attempts = r.attempts /\ p.status = r.status
  BY DEF Row
<1> HIDE DEF p
<1>2. q \in Row /\ q.attempts = p.attempts /\ q.status = p.status /\ ~q.locked
  BY <1>1 DEF Row
<1>3. Retried(r, d) = [q EXCEPT !.left = 0]
  BY DEF Retried, p
<1> HIDE DEF q
<1> QED BY <1>1, <1>2, <1>3, QueueAssumption DEF Row

LEMMA LaterRow == ASSUME NEW r \in Row
                  PROVE  /\ Later(r) \in Row
                         /\ Later(r).attempts = r.attempts
                         /\ Later(r).status = r.status
                         /\ Later(r).locked = r.locked
                         /\ r.locked => Later(r).left = Down(r.left, -1)
<1>1. Down(r.due, 0) \in 0 .. MaxDelay /\ Down(r.left, -1) \in -1 .. Lease
  BY QueueAssumption DEF Row, Down
<1>2. 0 \in -1 .. Lease
  BY QueueAssumption
<1> QED BY <1>1, <1>2 DEF Row, Later

(* The backoff is a delay there can be: 2 ^ n is the number of subsets of  *)
(* 1 .. n.                                                                 *)
LEMMA DelayType == ASSUME NEW n \in Nat \ {0} PROVE RetryDelay(n) \in 0 .. MaxDelay
<1> DEFINE k == IF n > 1 THEN n - 1 ELSE 0
           p == 2 ^ k
<1>1. k \in Nat
  OBVIOUS
<1>2. IsFiniteSet(1 .. k) /\ Cardinality(1 .. k) = k
  BY <1>1, FS_Interval
<1>3. p \in Nat
  BY <1>2, FS_SUBSET, FS_CardinalityType
<1> HIDE DEF p
<1>4. BaseDelay * p \in Nat
  BY <1>3, QueueAssumption
<1> QED BY <1>4, QueueAssumption DEF RetryDelay, p
=============================================================================
