------------------------------ MODULE MCOutbox ------------------------------
(* Instances of Outbox for TLC: rows 1..NRows, of which the first NOrphans    *)
(* are of a kind this image has no handler for.                              *)
EXTENDS Outbox

CONSTANTS NRows, NOrphans

McRow == 1..NRows
McUnhandled == 1..NOrphans
=============================================================================
