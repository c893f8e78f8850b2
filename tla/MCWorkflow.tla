----------------------------- MODULE MCWorkflow ------------------------------
(* Workflow with a manual move that a partner may refuse, two automatic moves     *)
(* that follow it, the first of which a partner may refuse too; three workers on *)
(* two processes.                                                                 *)
EXTENDS Workflow, TLC

CONSTANTS draft, sent, placed, closed, submit, place, close,
          plain, marked, p1, p2, w1, w2, w3

McFrom == submit :> draft @@ place :> sent @@ close :> placed
McTo   == submit :> sent @@ place :> placed @@ close :> closed
McRule == submit :> {plain, marked}
          @@ place :> {plain, marked} @@ close :> {marked, plain}
McBefore == [t \in Transition |-> {}]
McFailed == [v \in Value |-> marked]
McHome == w1 :> p1 @@ w2 :> p1 @@ w3 :> p2

=============================================================================
