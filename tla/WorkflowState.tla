---------------------------- MODULE WorkflowState ----------------------------
(***************************************************************************)
(* The state of one record's pipeline, which Workflow moves: the instance  *)
(* and its record (src/api/src/services/workflow-transitions.ts:72-101),   *)
(* the claims of the double-fire guard in Redis (transition-guard.ts), the *)
(* refusals remembered (auto-transition-memory.ts), the count of moves in  *)
(* flight in each process, and where every request and evaluation stands.  *)
(***************************************************************************)
EXTENDS Naturals, FiniteSets

CONSTANTS
  State, Terminal, Start,
  Transition, From, To, \* To: the state a transition resolves to
  Automatic,            \* auto_trigger
  Before,               \* Before[t]: automatic transitions sorted before t
  Sends,                \* transitions with a blocking action
  Value,                \* what rules and payloads make of the record
  Rule,                 \* Rule[t]: the values for which condition_rules pass
  Failed,               \* Failed[v]: the value once on_failure has been written
  First,                \* the value at first
  Process, Worker, Home,
  Hops,                 \* hops of an evaluation (5)
  Ladder,               \* LADDER.length
  Timely,               \* no request is slower than TRANSITION_GUARD_SECONDS
  MaxAsks, MaxEvents,   \* bounds: requests; edits and crashes
  Nil

ASSUME WorkflowAssumption ==
  /\ Start \in State \ Terminal /\ First \in Value /\ Failed \in [Value -> Value]
  /\ From \in [Transition -> State] /\ To \in [Transition -> State]
  /\ Automatic \subseteq Transition /\ Sends \subseteq Transition
  /\ Before \in [Transition -> SUBSET Automatic] /\ Rule \in [Transition -> SUBSET Value]
  /\ Home \in [Worker -> Process] /\ IsFiniteSet(Worker) /\ Hops \in Nat \ {0} /\ Ladder \in Nat
  /\ Timely \in BOOLEAN /\ Nil \notin State \cup Transition \cup Worker

VARIABLES
  state,     \* current_state of the instance
  value,     \* the record
  claims,    \* Redis: who holds the claim of a manual transition
  memory,    \* failures: the value that was refused and how often
  inFlight,  \* transitionsInFlight of each process, for this record
  at, move, seen, hops,  \* a worker: where it is, the transition it makes, the
                         \* state its hop read, the hops it has left
  beaten,    \* another has made the move of a request since it read the instance (history)
  asks, events

Manual == Transition \ Automatic

\* Where a worker of which applyTransition() has been called can be.
Flying == {"send", "move", "clear", "history"}

-----------------------------------------------------------------------------
(* Properties.                                                             *)

\* "The guard lets one through and refuses the twin" (transition-guard.ts:7-11): a
\* request never makes a move that another has made since it read the instance,
\* across processes, refusals by partners and crashes, as long as no request is
\* slower than the guard.
TwinMovesOnce ==
  [][\A w \in Worker : at[w] = "move" /\ at'[w] = "clear" => ~beaten[w]]_<<at, beaten>>

\* transitionsInFlight (workflow-transitions.ts:1070-1101) is the moves a process has
\* under way, whatever partners refuse and processes die: a move that stayed on the
\* count would keep the engine of that process from the record for good.
FlightsCounted ==
  \A p \in Process :
    inFlight[p] = Cardinality({w \in Worker : Home[w] = p /\ at[w] \in Flying})

=============================================================================
