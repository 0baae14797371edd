------------------------ MODULE TransactionalEnqueue ------------------------
(***************************************************************************)
(* JobService.enqueue (features/jobs/src/render.ts) called with the client *)
(* of a caller's transaction, as its documentation recommends, and with    *)
(* none.  PostgreSQL aborts a transaction in which a statement fails and   *)
(* ends it with a rollback even when it is told to commit; an insert waits *)
(* for another transaction that has inserted the same key.                 *)
(***************************************************************************)
CONSTANTS Callers,  \* transactions: a domain change, then an enqueue
          Keys,     \* (name, dedupeKey)
          NoKey     \* a transaction that has enqueued nothing

VARIABLES queued,   \* the keys of committed JobRecord rows
          staged,   \* of each transaction: the key it has inserted, NoKey if none
          state,    \* of each transaction
          changed   \* the transactions whose domain change has committed

vars == <<queued, staged, state, changed>>

Init == /\ queued = {} /\ changed = {}
        /\ staged = [c \in Callers |-> NoKey]
        /\ state = [c \in Callers |-> "none"]

(* enqueue(null, ...): an insert of its own.  A collision is success.      *)
EnqueueAlone(k) == /\ \A c \in Callers : staged[c] # k
                   /\ queued' = queued \cup {k}
                   /\ UNCHANGED <<staged, state, changed>>

Begin(c) == /\ state[c] = "none"
            /\ state' = [state EXCEPT ![c] = "open"]
            /\ UNCHANGED <<queued, staged, changed>>

(* enqueue(tx, ...) inserts, or catches P2002 and returns.                 *)
EnqueueInTx(c, k) == /\ state[c] = "open"
                     /\ k \notin queued /\ \A d \in Callers : staged[d] # k
                     /\ staged' = [staged EXCEPT ![c] = k]
                     /\ state' = [state EXCEPT ![c] = "enqueued"]
                     /\ UNCHANGED <<queued, changed>>

CollideInTx(c, k) == /\ state[c] = "open" /\ k \in queued
                     /\ state' = [state EXCEPT ![c] = "aborted"]
                     /\ UNCHANGED <<queued, staged, changed>>

(* The caller, who has met no error, commits.                              *)
Commit(c) == /\ state[c] = "enqueued"
             /\ queued' = queued \cup {staged[c]}
             /\ changed' = changed \cup {c}
             /\ staged' = [staged EXCEPT ![c] = NoKey]
             /\ state' = [state EXCEPT ![c] = "committed"]

CommitAborted(c) == /\ state[c] = "aborted"
                    /\ state' = [state EXCEPT ![c] = "committed"]
                    /\ UNCHANGED <<queued, staged, changed>>

(* The caller meets an error of its own.                                   *)
RollBack(c) == /\ state[c] \in {"open", "enqueued", "aborted"}
               /\ staged' = [staged EXCEPT ![c] = NoKey]
               /\ state' = [state EXCEPT ![c] = "rolledback"]
               /\ UNCHANGED <<queued, changed>>

Next == \/ \E k \in Keys : EnqueueAlone(k)
        \/ \E c \in Callers : \/ Begin(c) \/ Commit(c) \/ CommitAborted(c) \/ RollBack(c)
                              \/ \E k \in Keys : EnqueueInTx(c, k) \/ CollideInTx(c, k)

Spec == Init /\ [][Next]_vars

-----------------------------------------------------------------------------
(* The comment at render.ts:209-210: a dedupe collision "is success, not   *)
(* failure".  So a transaction whose every call succeeded and that was     *)
(* told to commit has made its domain change.                              *)
CollisionIsSuccess == \A c \in Callers : state[c] = "committed" => c \in changed
=============================================================================
