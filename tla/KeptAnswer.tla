----------------------------- MODULE KeptAnswer ------------------------------
(***************************************************************************)
(* What an idempotency key promises its caller                             *)
(* (src/api/src/services/idempotency.ts:4-26), with nothing said of Redis, *)
(* claims, expiry or processes: one handler at a time runs under the key,  *)
(* none once an answer is kept, and what is kept is the answer of a write  *)
(* that landed, told to those who ask for the same thing again.  A handler *)
(* may end without an answer that is kept, and a write may land without    *)
(* the key.                                                                *)
(***************************************************************************)
CONSTANTS Request, Body, None

VARIABLES
  asked,    \* what each request asks for, once it has arrived
  running,  \* requests whose handler runs under the key
  landed,   \* requests whose write took effect
  kept,     \* the request whose answer is kept, or None
  told      \* told[r]: the request whose answer r was given instead of a run of its own

keyVars == <<asked, running, landed, kept, told>>

Init ==
  /\ asked = [r \in Request |-> None] /\ told = [r \in Request |-> None]
  /\ running = {} /\ landed = {} /\ kept = None

Ask(r) ==
  /\ asked[r] = None
  /\ \E b \in Body : asked' = [asked EXCEPT ![r] = b]
  /\ UNCHANGED <<running, landed, kept, told>>

Begin(r) ==
  /\ running = {} /\ kept = None
  /\ running' = {r}
  /\ UNCHANGED <<asked, landed, kept, told>>

\* Under the key or, with Redis unreachable, without it.
Land(r) ==
  /\ landed' = landed \cup {r}
  /\ UNCHANGED <<asked, running, kept, told>>

Keep(r) ==
  /\ r \in running \cap landed
  /\ running' = running \ {r} /\ kept' = r
  /\ UNCHANGED <<asked, landed, told>>

\* It failed, or its process died; what it wrote may have landed.
Drop(r) ==
  /\ r \in running
  /\ running' = running \ {r} /\ landed' \in {landed, landed \cup {r}}
  /\ UNCHANGED <<asked, kept, told>>

Tell(r) ==
  /\ kept # None /\ asked[r] = asked[kept] /\ told[r] = None
  /\ told' = [told EXCEPT ![r] = kept]
  /\ UNCHANGED <<asked, running, landed, kept>>

Next == \E r \in Request : Ask(r) \/ Begin(r) \/ Land(r) \/ Keep(r) \/ Drop(r) \/ Tell(r)

Spec == Init /\ [][Next]_keyVars

=============================================================================
