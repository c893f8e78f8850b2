----------------------------- MODULE DurableWork -----------------------------
(***************************************************************************)
(* What the outbox promises whoever leaves work with it                    *)
(* (src/api/src/services/outbox.ts:3-12), with nothing said of passes that *)
(* select, batches, backoff or what a pass remembers of a row: work that   *)
(* was left is there until it has been handled, or Limit calls of its      *)
(* handler have failed; only what waits is taken in hand, and only who has *)
(* it in hand calls for it and says what became of it.                     *)
(***************************************************************************)
EXTENDS Naturals

CONSTANTS Item, Worker, Limit

VARIABLES
  state,  \* what became of each item
  calls,  \* calls of its handler, counted one further than Limit
  hands   \* hands[w]: the items a worker has taken and not put down

workVars == <<state, calls, hands>>

Init ==
  /\ state = [i \in Item |-> "none"] /\ calls = [i \in Item |-> 0]
  /\ hands = [w \in Worker |-> {}]

Leave(i) ==
  /\ state[i] = "none"
  /\ state' = [state EXCEPT ![i] = "pending"]
  /\ UNCHANGED <<calls, hands>>

Take(w) ==
  /\ hands[w] = {}
  /\ \E some \in SUBSET {i \in Item : state[i] = "pending"} : hands' = [hands EXCEPT ![w] = some]
  /\ UNCHANGED <<state, calls>>

Call(w, i) ==
  /\ i \in hands[w] /\ calls[i] <= Limit
  /\ calls' = [calls EXCEPT ![i] = @ + 1]
  /\ UNCHANGED <<state, hands>>

PutDown(w, i) ==
  /\ i \in hands[w]
  /\ hands' = [hands EXCEPT ![w] = @ \ {i}]

\* The handler was called and returned, or failed: the item waits again, or is given up.
Settle(w, i) ==
  /\ PutDown(w, i)
  /\ calls[i] > 0 /\ state[i] # "gone"
  /\ \E s \in {"delivered", "pending"} \cup {d \in {"dead"} : calls[i] >= Limit} :
       state' = [state EXCEPT ![i] = s]
  /\ UNCHANGED calls

\* No handler for it, or what became of it could not be written.
Leftover(w, i) == PutDown(w, i) /\ UNCHANGED <<state, calls>>

Abandon(w) == hands' = [hands EXCEPT ![w] = {}] /\ UNCHANGED <<state, calls>>

Forget ==
  /\ \E old \in SUBSET {i \in Item : state[i] = "delivered"} :
       state' = [i \in Item |-> IF i \in old THEN "gone" ELSE state[i]]
  /\ UNCHANGED <<calls, hands>>

Next ==
  \/ \E i \in Item : Leave(i)
  \/ \E w \in Worker : \/ Take(w) \/ Abandon(w)
                       \/ \E i \in Item : Call(w, i) \/ Settle(w, i) \/ Leftover(w, i)
  \/ Forget

Spec == Init /\ [][Next]_workVars

=============================================================================
