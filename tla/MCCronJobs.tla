----------------------------- MODULE MCCronJobs ------------------------------
(* CronJobs with two processes and two jobs: "a" is unsafe, "b" runs after it *)
(* where Chained is TRUE; both are heavy.                                     *)
EXTENDS CronJobs, TLC

CONSTANTS p1, p2, a, b, Chained

McKids ==
  [j \in Job |-> IF Chained /\ j = a THEN <<b>> ELSE <<>>]
Symm == Permutations(Proc)

=============================================================================
