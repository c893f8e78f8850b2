------------------------------ MODULE Workflow -------------------------------
(***************************************************************************)
(* One record's pipeline                                                   *)
(* (src/api/src/services/workflow-transitions.ts): people move it, the     *)
(* engine moves it whenever an automatic transition's rules pass, and a    *)
(* blocking action may refuse a move and write on the record.  With the    *)
(* double-fire guard (transition-guard.ts), the memory of refused          *)
(* automatic transitions (auto-transition-memory.ts), the count of moves   *)
(* in flight in each process, the hook after a write and the sweep.        *)
(*                                                                         *)
(* A worker is a request of a person or an evaluation by the engine in     *)
(* some process.  Every action is a statement of the database, a command   *)
(* of Redis or a call of a partner, with the code up to the next await.    *)
(***************************************************************************)
EXTENDS WorkflowState

vars == <<state, value, claims, memory, inFlight, at, move, seen, hops, beaten,
          asks, events>>
bounds == <<asks, events>>

Refusal == [value : Value, tries : Nat]

TypeOK ==
  /\ state \in State /\ value \in Value
  /\ claims \in [Manual -> Worker \cup {Nil}]
  /\ memory \in [Automatic -> Refusal \cup {Nil}]
  /\ inFlight \in [Process -> Nat]
  /\ at \in [Worker -> {"idle", "gated", "claimed", "release", "look", "match", "record"} \cup Flying]
  /\ move \in [Worker -> Transition \cup {Nil}] /\ seen \in [Worker -> State \cup {Nil}]
  /\ hops \in [Worker -> 0 .. Hops]
  /\ beaten \in [Worker -> BOOLEAN]
  /\ asks \in Nat /\ events \in Nat

Init ==
  /\ state = Start /\ value = First
  /\ claims = [t \in Manual |-> Nil] /\ memory = [t \in Automatic |-> Nil]
  /\ inFlight = [p \in Process |-> 0]
  /\ at = [w \in Worker |-> "idle"] /\ move = [w \in Worker |-> Nil]
  /\ seen = [w \in Worker |-> Nil] /\ hops = [w \in Worker |-> 0]
  /\ beaten = [w \in Worker |-> FALSE]
  /\ asks = 0 /\ events = 0

-----------------------------------------------------------------------------

Open(s) == s \notin Terminal

At(w, where, t, st, h) ==
  /\ at' = [at EXCEPT ![w] = where] /\ move' = [move EXCEPT ![w] = t]
  /\ seen' = [seen EXCEPT ![w] = st] /\ hops' = [hops EXCEPT ![w] = h]

\* A worker has done what it was for.
Done(w) == At(w, "idle", Nil, Nil, 0)

Goto(w, where) == At(w, where, move[w], Nil, hops[w])

\* applyTransition() begins, and ends.
TakeOff(w, t) ==
  /\ inFlight' = [inFlight EXCEPT ![Home[w]] = @ + 1]
  /\ At(w, IF t \in Sends THEN "send" ELSE "move", t, Nil, hops[w])

\* Mutant: only a move that succeeds is taken off the count.
LandMoved(w) ==
  IF at[w] = "send" THEN UNCHANGED inFlight
  ELSE inFlight' = [inFlight EXCEPT ![Home[w]] = IF @ > 0 THEN @ - 1 ELSE 0]

Land(w) == inFlight' = [inFlight EXCEPT ![Home[w]] = IF @ > 0 THEN @ - 1 ELSE 0]

\* runAutoTransitions() begins in worker w, unless the record is in flight here.
Evaluate(w, flying) ==
  IF flying > 0 THEN Done(w) ELSE At(w, "look", Nil, Nil, Hops)

\* A request to move: the instance is read and passes every gate.
Ask(w, t) ==
  /\ at[w] = "idle" /\ asks < MaxAsks /\ asks' = asks + 1
  /\ t \in Manual /\ Open(state) /\ From[t] = state /\ value \in Rule[t]
  /\ At(w, "gated", t, Nil, 0)
  /\ UNCHANGED <<state, value, claims, memory, inFlight, beaten, events>>

\* Mutant: the guard looks and lets everybody through.
claimTransitionOpen(w) ==
  /\ at[w] = "gated"
  /\ claims' = [claims EXCEPT ![move[w]] = w] /\ Goto(w, "claimed")
  /\ UNCHANGED <<state, value, memory, inFlight, beaten, bounds>>

\* SET NX: the twin of a request is refused.
claimTransition(w) ==
  /\ at[w] = "gated"
  /\ IF claims[move[w]] = Nil
       THEN claims' = [claims EXCEPT ![move[w]] = w] /\ Goto(w, "claimed") /\ UNCHANGED beaten
       ELSE UNCHANGED claims /\ Done(w) /\ beaten' = [beaten EXCEPT ![w] = FALSE]
  /\ UNCHANGED <<state, value, memory, inFlight, bounds>>

\* A person acts: what was held may fire again.  The move begins.
clearAutoFailures(w) ==
  /\ at[w] = "claimed"
  /\ memory' = [t \in Automatic |-> Nil] /\ TakeOff(w, move[w])
  /\ UNCHANGED <<state, value, claims, beaten, bounds>>

\* The blocking action: the partner accepts, or refuses and on_failure is written;
\* the hook of that write finds the record in flight.
Accepted(w) ==
  /\ at[w] = "send" /\ Goto(w, "move")
  /\ UNCHANGED <<state, value, claims, memory, inFlight, beaten, bounds>>

Blocked(w) ==
  /\ at[w] = "send"
  /\ value' = Failed[value] /\ Land(w)
  /\ Goto(w, IF move[w] \in Automatic THEN "record" ELSE "release")
  /\ beaten' = [beaten EXCEPT ![w] = FALSE]
  /\ UNCHANGED <<state, claims, memory, bounds>>

\* Requests to make move t, which the move of w forestalls.
Twins(w, t) == {x \in Worker \ {w} : at[x] # "idle" /\ move[x] = t /\ t \in Manual}

\* The update of the instance, by id.
Move(w) ==
  /\ at[w] = "move"
  /\ state' = To[move[w]] /\ Goto(w, "clear")
  /\ beaten' = [x \in Worker |-> IF x = w THEN FALSE ELSE beaten[x] \/ x \in Twins(w, move[w])]
  /\ UNCHANGED <<value, claims, memory, inFlight, bounds>>

\* The record has moved: whatever was held belongs to a state it has left.
Clear(w) ==
  /\ at[w] = "clear"
  /\ memory' = [t \in Automatic |-> Nil] /\ Goto(w, "history")
  /\ UNCHANGED <<state, value, claims, inFlight, beaten, bounds>>

\* The history row and the post actions; the move ends.  A request then evaluates,
\* an evaluation goes on with its next hop.
Finish(w) ==
  /\ at[w] = "history" /\ Land(w)
  /\ \/ move[w] \in Manual /\ Evaluate(w, inFlight'[Home[w]])
     \/ move[w] \in Automatic /\ hops[w] > 1 /\ At(w, "look", Nil, Nil, hops[w] - 1)
     \/ move[w] \in Automatic /\ hops[w] = 1 /\ Done(w)
  /\ beaten' = [beaten EXCEPT ![w] = FALSE]
  /\ UNCHANGED <<state, value, claims, memory, bounds>>

\* release(): DEL, whoever holds the claim.
Release(w) ==
  /\ at[w] = "release"
  /\ claims' = [claims EXCEPT ![move[w]] = Nil] /\ Done(w)
  /\ UNCHANGED <<state, value, memory, inFlight, beaten, bounds>>

-----------------------------------------------------------------------------
(* The engine.                                                             *)

\* A hop reads the instance.
Look(w) ==
  /\ at[w] = "look"
  /\ IF Open(state) THEN At(w, "match", Nil, state, hops[w]) ELSE Done(w)
  /\ UNCHANGED <<state, value, claims, memory, inFlight, beaten, bounds>>

Passing(s, v) == {t \in Automatic : From[t] = s /\ To[t] # s /\ v \in Rule[t]}

\* The first whose rules pass is the only candidate.
Candidate(s, v) == {t \in Passing(s, v) : Before[t] \cap Passing(s, v) = {}}

\* Refused as it is, and the ladder is spent; until then time may allow a try.
Held(t, v) == memory[t] # Nil /\ memory[t].value = v /\ memory[t].tries >= Ladder

\* Refused as it is: to be left alone, until the next rung comes up.
Waits(t, v) == memory[t] # Nil /\ memory[t].value = v

\* ... the record and the memory, and fires, or leaves it alone.
Match(w) ==
  /\ at[w] = "match"
  /\ \/ /\ \A t \in Candidate(seen[w], value) : Waits(t, value)
        /\ Done(w) /\ UNCHANGED <<memory, inFlight>>
     \/ \E t \in Candidate(seen[w], value) :
          /\ ~Held(t, value)
          /\ memory' = IF Waits(t, value) THEN memory ELSE [memory EXCEPT ![t] = Nil]
          /\ TakeOff(w, t)
  /\ UNCHANGED <<state, value, claims, beaten, bounds>>

\* Mutant: refusals are not counted.
recordAutoFailureAfresh(w) ==
  /\ at[w] = "record" /\ Done(w)
  /\ memory' = [memory EXCEPT ![move[w]] = [value |-> value, tries |-> 1]]
  /\ UNCHANGED <<state, value, claims, inFlight, beaten, bounds>>

\* The refusal is remembered with what would be sent now.
recordAutoFailure(w) ==
  /\ at[w] = "record" /\ Done(w)
  /\ memory' = [memory EXCEPT ![move[w]] =
                  [value |-> value, tries |-> IF @ = Nil THEN 1 ELSE @.tries + 1]]
  /\ UNCHANGED <<state, value, claims, inFlight, beaten, bounds>>

\* The sweep of open instances in a state some automatic transition leaves.
sweepAutoTransitions(w) ==
  /\ at[w] = "idle" /\ Open(state) /\ \E t \in Automatic : From[t] = state
  /\ inFlight[Home[w]] = 0 /\ Evaluate(w, 0)
  /\ UNCHANGED <<state, value, claims, memory, inFlight, beaten, bounds>>

\* Somebody writes the record; its hook evaluates in that process.
Edit(w, v) ==
  /\ at[w] = "idle" /\ events < MaxEvents /\ events' = events + 1
  /\ v # value /\ value' = v
  /\ Evaluate(w, inFlight[Home[w]])
  /\ UNCHANGED <<state, claims, memory, inFlight, beaten, asks>>

-----------------------------------------------------------------------------
(* Time and crashes.                                                       *)

\* The claim of t expires.
Expire(t) ==
  /\ claims[t] # Nil
  /\ Timely => \A w \in Worker : move[w] # t
  /\ claims' = [claims EXCEPT ![t] = Nil]
  /\ UNCHANGED <<state, value, memory, inFlight, at, move, seen, hops, beaten, bounds>>

Crash(p) ==
  /\ events < MaxEvents /\ events' = events + 1
  /\ \E w \in Worker : Home[w] = p /\ at[w] # "idle"
  /\ inFlight' = [inFlight EXCEPT ![p] = 0]
  /\ at' = [w \in Worker |-> IF Home[w] = p THEN "idle" ELSE at[w]]
  /\ move' = [w \in Worker |-> IF Home[w] = p THEN Nil ELSE move[w]]
  /\ seen' = [w \in Worker |-> IF Home[w] = p THEN Nil ELSE seen[w]]
  /\ hops' = [w \in Worker |-> IF Home[w] = p THEN 0 ELSE hops[w]]
  /\ beaten' = [w \in Worker |-> Home[w] # p /\ beaten[w]]
  /\ UNCHANGED <<state, value, claims, memory, asks>>

Step(w) ==
  \/ claimTransition(w) \/ clearAutoFailures(w) \/ Accepted(w) \/ Blocked(w)
  \/ Move(w) \/ Clear(w) \/ Finish(w) \/ Release(w)
  \/ Look(w) \/ Match(w) \/ recordAutoFailure(w)

Next ==
  \/ \E w \in Worker : \/ Step(w) \/ sweepAutoTransitions(w)
                       \/ \E t \in Transition : Ask(w, t)
                       \/ \E v \in Value : Edit(w, v)
  \/ \E t \in Manual : Expire(t)
  \/ \E p \in Process : Crash(p)

Spec == Init /\ [][Next]_vars

\* Awaited calls return, and the sweep comes round to a worker that has nothing to do.
FairSpec == Spec /\ \A w \in Worker : WF_vars(Step(w) \/ sweepAutoTransitions(w))

-----------------------------------------------------------------------------
(* Liveness; WorkflowState has what holds of the state and of each step.   *)

\* Something the engine ought to do.
Eligible == Open(state) /\ \E t \in Candidate(state, value) : ~Waits(t, value)

\* An automatic transition whose rules pass is made, or refused and remembered: no
\* evaluation that was skipped because the record was in flight is missed for good.
AutoSettles == Eligible ~> ~Eligible

\* A partner that refuses is left alone: with nobody editing or moving the record
\* any more, sweeps go on for ever and submissions do not.
SendsEnd == <>[](\A w \in Worker : at[w] # "send")

=============================================================================
