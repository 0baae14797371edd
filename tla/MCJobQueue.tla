----------------------------- MODULE MCJobQueue -----------------------------
(***************************************************************************)
(* JobQueue with names for its workers and jobs.                           *)
(***************************************************************************)
EXTENDS JobQueue

CONSTANTS w1, w2, j1, j2
=============================================================================
