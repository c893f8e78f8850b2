------------------------------ MODULE SlotPool -------------------------------
(***************************************************************************)
(* What the read gate promises (src/api/src/services/read-gate.ts:9-36),   *)
(* with nothing said of queues, users, tickets or flights: a pool of Limit *)
(* slots that never stands idle while somebody waits.  A reader that has   *)
(* waited too long goes on without a slot, and one may leave while it      *)
(* waits.                                                                  *)
(***************************************************************************)
EXTENDS Integers, FiniteSets

CONSTANTS Reader, Limit

VARIABLES
  waiting,  \* readers in want of a slot
  holding,  \* readers with a slot
  extra     \* readers that went on without one

poolVars == <<waiting, holding, extra>>

Init == waiting = {} /\ holding = {} /\ extra = {}

Free == Cardinality(holding) < Limit

\* A free slot is had at once.
Take(r) ==
  /\ r \notin waiting \cup holding \cup extra
  /\ waiting = {} /\ Free
  /\ holding' = holding \cup {r}
  /\ UNCHANGED <<waiting, extra>>

Wait(r) ==
  /\ r \notin waiting \cup holding \cup extra
  /\ ~Free
  /\ waiting' = waiting \cup {r}
  /\ UNCHANGED <<holding, extra>>

Leave(r) ==
  /\ r \in waiting
  /\ waiting' = waiting \ {r}
  /\ UNCHANGED <<holding, extra>>

Overflow(r) ==
  /\ r \in waiting
  /\ waiting' = waiting \ {r}
  /\ extra' = extra \cup {r}
  /\ UNCHANGED holding

\* A slot given back goes to one of those who wait, in the same step.
Give(r) ==
  /\ r \in holding
  /\ \/ /\ waiting = {}
        /\ holding' = holding \ {r}
        /\ UNCHANGED waiting
     \/ \E w \in waiting :
          /\ holding' = (holding \ {r}) \cup {w}
          /\ waiting' = waiting \ {w}
  /\ UNCHANGED extra

EndExtra(r) ==
  /\ r \in extra
  /\ extra' = extra \ {r}
  /\ UNCHANGED <<waiting, holding>>

Next ==
  \E r \in Reader : Take(r) \/ Wait(r) \/ Leave(r) \/ Overflow(r) \/ Give(r) \/ EndExtra(r)

Spec == Init /\ [][Next]_poolVars

=============================================================================
