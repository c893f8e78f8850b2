---------------------------- MODULE MCConfigEpoch ----------------------------
(* Small instances of ConfigEpoch. *)
EXTENDS ConfigEpoch, TLC
CONSTANTS p1, p2
Symm == Permutations(Proc)
==============================================================================
