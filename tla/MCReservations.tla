--------------------------- MODULE MCReservations ---------------------------
(***************************************************************************)
(* Reservations of two slots, singly or together.                          *)
(***************************************************************************)
EXTENDS Reservations

CONSTANTS r1, r2, r3, job, key

OneOrBoth == {{"morning"}, {"morning", "evening"}}
=============================================================================
