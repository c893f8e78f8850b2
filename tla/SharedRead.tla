----------------------------- MODULE SharedRead ------------------------------
(***************************************************************************)
(* Expensive reads of one process: calls that ask the same question at the *)
(* same time share one run (src/api/src/services/single-flight.ts), and    *)
(* the run takes a slot of the gate (src/api/src/services/read-gate.ts:    *)
(* sharedGatedRead, withReadGate).                                         *)
(*                                                                         *)
(* A run has the name of the call that leads it.  Every action is a piece  *)
(* of JavaScript between two awaits; a settled promise reaches those who   *)
(* await it in an action of its own (Begin, Refuse, Settle), so that calls *)
(* arrive in between.                                                      *)
(***************************************************************************)
EXTENDS ReadGate

CONSTANTS
  Key,          \* what sharedGatedRead is asked for
  Inner,        \* keys that bodies of other reads ask for; their own ask nothing
  Signalled,    \* calls that carry the signal of their client
  MAX_FLIGHTS

ASSUME ReadAssumption ==
  /\ Inner \subseteq Key /\ Signalled \subseteq Call /\ None \notin Key
  /\ MAX_FLIGHTS \in Nat

VARIABLES
  gate,     \* the gate, see ReadGate
  at,       \* "idle", "await" or "done": answered, or refused with an AbortError
  key,      \* what the run a call leads asks for; None: a gated read of its own
  within,   \* the run in whose body a call that awaits was made
  lead,     \* the run whose promise a call awaits
  run,      \* runs, by the call that leads them
  flights   \* flights[k]: the run a new call of k finds

vars == <<gate, at, key, within, lead, run, flights>>

TypeOK ==
  /\ gate \in GateType
  /\ at \in [Call -> {"idle", "await", "done"}]
  /\ key \in [Call -> Key \cup {None}]
  /\ within \in [Call -> Call \cup {None}] /\ lead \in [Call -> Call \cup {None}]
  /\ run \in [Call -> {"none", "queued", "busy", "freed", "over"}]
  /\ flights \in [Key -> Call \cup {None}]

Init ==
  /\ gate = EmptyGate
  /\ at = [c \in Call |-> "idle"] /\ key = [c \in Call |-> None]
  /\ within = [c \in Call |-> None] /\ lead = [c \in Call |-> None]
  /\ run = [c \in Call |-> "none"]
  /\ flights = [k \in Key |-> None]

-----------------------------------------------------------------------------
(* A call.                                                                 *)

\* markStarted() has been called.
Started(r) == run[r] \in {"busy", "freed"}

\* Bodies that hold a slot, in which a call is re-entrant.
Holders == {r \in Call : run[r] = "busy" /\ gate.slot[r] # None /\ key[r] \notin Inner}

\* From outside any body, or from the body of a holder.
Place(c, k, r) == r = None \/ (r \in Holders /\ k \in Inner)

\* The call awaits run r; one whose client has gone already is refused at once.
Await(c, k, r, p, gone) ==
  /\ at[c] = "idle"
  /\ gone => c \in Signalled
  /\ key' = [key EXCEPT ![c] = IF r = c THEN k ELSE None]
  /\ within' = [within EXCEPT ![c] = IF gone THEN None ELSE p]
  /\ lead' = [lead EXCEPT ![c] = IF gone THEN None ELSE r]
  /\ at' = [at EXCEPT ![c] = IF gone THEN "done" ELSE "await"]

\* Mutant: a slot holder waits for a flight that is still queued.
JoinableAlways(k, reentrant) == flights[k] # None

\* An existing flight is joined, by a slot holder only once it has started.
Joinable(k, reentrant) == flights[k] # None /\ (Started(flights[k]) \/ ~reentrant)

Join(c, k, p, gone) ==
  /\ Joinable(k, p # None)
  /\ Await(c, k, flights[k], p, gone)
  /\ gate' = IF Started(flights[k]) THEN gate
             ELSE addWaiter(gate, flights[k], c, gone)
  /\ UNCHANGED <<run, flights>>

\* A run of one's own: inside a held slot it goes straight on, otherwise it
\* waits for a ticket.
OwnRun(c, k, p, gone) ==
  /\ Await(c, k, c, p, gone)
  /\ run' = [run EXCEPT ![c] = IF p = None THEN "queued" ELSE "busy"]
  /\ gate' = IF p = None THEN addWaiter(openTicket(gate, c), c, c, gone) ELSE gate

FlightCount == Cardinality({k \in Key : flights[k] # None})

Lead(c, k, p, gone) ==
  /\ flights[k] = None /\ FlightCount < MAX_FLIGHTS
  /\ OwnRun(c, k, p, gone)
  /\ flights' = [flights EXCEPT ![k] = c]

\* Past the bound, or beside a flight it must not wait for, a call runs alone.
Alone(c, k, p, gone) ==
  /\ ~Joinable(k, p # None) /\ (flights[k] # None \/ FlightCount >= MAX_FLIGHTS)
  /\ OwnRun(c, k, p, gone)
  /\ UNCHANGED flights

\* sharedGatedRead()
SharedCall(c) ==
  \E k \in Key, p \in Call \cup {None}, gone \in BOOLEAN :
    Place(c, k, p) /\ (Join(c, k, p, gone) \/ Lead(c, k, p, gone) \/ Alone(c, k, p, gone))

\* withReadGate() outside a held slot; inside one it is part of the body.
GatedCall(c) == \E gone \in BOOLEAN : OwnRun(c, None, None, gone) /\ UNCHANGED flights

\* The calls of S wait no longer.
Answer(S) ==
  /\ at' = [c \in Call |-> IF c \in S THEN "done" ELSE at[c]]
  /\ within' = [c \in Call |-> IF c \in S THEN None ELSE within[c]]
  /\ lead' = [c \in Call |-> IF c \in S THEN None ELSE lead[c]]

\* The client goes away while its call waits.  A call of sharedGatedRead waits no
\* longer; one of withReadGate, which awaits its own body, only if it is queued.
ClientGone(c) ==
  /\ c \in Signalled /\ at[c] = "await"
  /\ lead[c] # c \/ key[c] # None \/ gate.stands[c] # None
  /\ Answer({c})
  /\ gate' = IF gate.stands[c] # None THEN onAbort(gate, c) ELSE gate
  /\ UNCHANGED <<key, run, flights>>

-----------------------------------------------------------------------------
(* A run.                                                                  *)

\* The ticket has been granted: the body begins.
Begin(r) ==
  /\ run[r] = "queued" /\ gate.ticket[r] = "granted"
  /\ run' = [run EXCEPT ![r] = "busy"]
  /\ UNCHANGED <<gate, at, key, within, lead, flights>>

\* The promise of a run settles: its flight is forgotten and its callers hear.
Hear(r) ==
  /\ run' = [run EXCEPT ![r] = "over"]
  /\ flights' = [k \in Key |-> IF flights[k] = r THEN None ELSE flights[k]]
  /\ key' = [key EXCEPT ![r] = None]
  /\ Answer({c \in Call : lead[c] = r})
  /\ UNCHANGED gate

\* The ticket was dropped.
Refuse(r) == run[r] = "queued" /\ gate.ticket[r] = "dropped" /\ Hear(r)

\* The body returns or throws; it has awaited the reads it made.
End(r) ==
  /\ run[r] = "busy"
  /\ \A c \in Call : within[c] # r
  /\ run' = [run EXCEPT ![r] = "freed"]
  /\ gate' = IF gate.slot[r] = None THEN gate ELSE release(gate, r)
  /\ UNCHANGED <<at, key, within, lead, flights>>

Settle(r) == run[r] = "freed" /\ Hear(r)

\* HEAVY_READ_MAX_WAIT_MS: the run goes on without a slot.
TimeUp(c) ==
  /\ gate.stands[c] # None
  /\ gate' = grant(gate, c, TRUE)
  /\ UNCHANGED <<at, key, within, lead, run, flights>>

Progress(r) == Begin(r) \/ Refuse(r) \/ End(r) \/ Settle(r)

Next ==
  \E c \in Call :
    SharedCall(c) \/ GatedCall(c) \/ ClientGone(c) \/ TimeUp(c) \/ Progress(c)

Spec == Init /\ [][Next]_vars

\* Promises settle and bodies end.  Nothing is asked of the wait limit: that it
\* is ever reached is not needed for anybody to be answered.
FairSpec == Spec /\ \A r \in Call : WF_vars(Progress(r))

-----------------------------------------------------------------------------
(* Properties.                                                             *)

HoldingSlots == {r \in Call : gate.slot[r] \in User}

\* The counters are the runs they count: no slot is lost or given twice when
\* calls of one ticket are granted, time out or leave, and bodies throw.  (A
\* slot lost for good would close the gate until the process restarts.)
SlotsAddUp ==
  /\ gate.active = Cardinality(HoldingSlots) /\ gate.active <= Limit
  /\ \A u \in User : gate.byUser[u] = Cardinality({r \in Call : gate.slot[r] = u})
  /\ gate.overflowRunning = Cardinality({r \in Call : gate.slot[r] = Extra})
  /\ \A r \in Call : gate.slot[r] # None => run[r] \in {"queued", "busy"}

\* "A lone user on an idle gate may use every slot" (read-gate.ts:20-22): the
\* shares of users never leave a slot unused while anybody is queued.
SlotsAreUsed == queue(gate) # {} => gate.active = Limit

\* "a held slot never waits on another" (read-gate.ts:330-332): a call made in
\* the body of a slot holder never awaits a run that is still queued, so holders
\* cannot wait for one another.
NestedNeverWaits == \A c \in Call : within[c] # None => run[lead[c]] # "queued"

\* A ticket is dropped only by the last of its callers: whoever leaves the queue,
\* or finds its client gone on joining it, refuses nobody else.
RefusesNobodyElse ==
  [][\A t \in Call : gate.ticket[t] # "dropped" /\ gate'.ticket[t] = "dropped"
                     => \A c \in Call : lead'[c] # t]_vars

\* A later call is granted before an earlier one only if the earlier one's user
\* has their share: "passed over, not reordered" (read-gate.ts:219-220).
OvertakeAtShareOnly ==
  [][\A c \in queue(gate) \cap queue(gate'), t \in Call :
       /\ gate.ticket[t] = "open" /\ gate'.slot[t] \in User
       /\ \A d \in Standing(gate, t) :
            Who[d] = gate'.slot[t] => gate.place[c] < gate.place[d]
       => ~UnderShare(gate, Who[c])]_vars

\* Whatever the calls share and wait for, they end: from some point on none of
\* the (finitely many) calls awaits anything.
CallsEnd == <>[](\A c \in Call : at[c] # "await")

\* The gate is a pool of slots that never stands idle while somebody waits.
Pool == INSTANCE SlotPool WITH
  Reader  <- Call,
  waiting <- {t \in Call : gate.ticket[t] = "open"},
  holding <- HoldingSlots,
  extra   <- {t \in Call : gate.slot[t] = Extra}

PoolSpec == Pool!Spec

=============================================================================
