----------------------------- MODULE MCCronLease -----------------------------
(* CronLease on a few replicas.  Replicas are interchangeable. *)
EXTENDS CronLease, TLC

Symm == Permutations(Proc)

=============================================================================
