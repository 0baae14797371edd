----------------------- MODULE MCTransactionalEnqueue -----------------------
(***************************************************************************)
(* TransactionalEnqueue with names for its transactions and keys.          *)
(***************************************************************************)
EXTENDS TransactionalEnqueue

CONSTANTS c1, c2, k1, k2
=============================================================================
