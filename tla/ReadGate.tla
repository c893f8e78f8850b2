------------------------------ MODULE ReadGate -------------------------------
(***************************************************************************)
(* The heavy-read gate of one process and one tenant                       *)
(* (src/api/src/services/read-gate.ts): a semaphore with a queue, a share  *)
(* for each user and a wait limit.  What is asked for is a ticket; several *)
(* calls may stand in the queue for one ticket, and the first that is      *)
(* granted takes the slot for all of them.                                 *)
(*                                                                         *)
(* The gate is one record and every operation of the code an operator from *)
(* gate to gate: JavaScript runs each of them without interruption.        *)
(* SharedRead says who calls them.  A ticket has the name of the call that *)
(* opened it.                                                              *)
(***************************************************************************)
EXTENDS Integers, FiniteSets

CONSTANTS
  Call,     \* calls of sharedGatedRead and withReadGate
  User,
  Who,      \* Who[c]: the user call c is counted under
  Limit,    \* limitOf(): HEAVY_READ_CONCURRENCY
  PerUser,  \* HEAVY_READ_PER_USER
  None,
  Extra     \* the "slot" of a run that went on after the wait limit

ASSUME GateAssumption ==
  /\ Limit \in Nat \ {0} /\ PerUser \in Nat \ {0}
  /\ IsFiniteSet(Call) /\ Who \in [Call -> User]
  /\ None \notin Call \cup User /\ Extra \notin User \cup {None}

GateType == [
  active : Nat, byUser : [User -> Nat], overflowRunning : Nat,
  ticket : [Call -> {"none", "open", "granted", "dropped"}],
  slot   : [Call -> User \cup {None, Extra}],  \* what the run of the ticket holds
  stands : [Call -> Call \cup {None}],         \* the ticket the call is queued for
  place  : [Call -> Nat]]                      \* its place in the queue, from 1

EmptyGate == [
  active |-> 0, byUser |-> [u \in User |-> 0], overflowRunning |-> 0,
  ticket |-> [c \in Call |-> "none"], slot |-> [c \in Call |-> None],
  stands |-> [c \in Call |-> None], place |-> [c \in Call |-> 0]]

queue(g) == {c \in Call : g.stands[c] # None}
Standing(g, t) == {c \in Call : g.stands[c] = t}

UnderShare(g, u) == g.byUser[u] < PerUser

\* Another person is waiting who is still under their share.
underShareUserWaiting(g, c) ==
  \E x \in queue(g) : /\ g.stands[x] # g.stands[c] /\ Who[x] # Who[c]
                      /\ UnderShare(g, Who[x])

\* Mutant: a user over their share waits whoever else does.
eligibleUnderShare(g, c) == g.active < Limit /\ UnderShare(g, Who[c])

eligible(g, c) ==
  /\ g.active < Limit
  /\ UnderShare(g, Who[c]) \/ ~underShareUserWaiting(g, c)

\* The calls of S leave the queue; those behind them move up.
detach(g, S) ==
  LET left == queue(g) \ S IN
  [g EXCEPT !.stands = [x \in Call |-> IF x \in S THEN None ELSE g.stands[x]],
            !.place  = [x \in Call |-> IF x \in left
                          THEN Cardinality({y \in left : g.place[y] < g.place[x]}) + 1
                          ELSE 0]]

\* The ticket c stands for is granted: everyone who stands for it leaves the
\* queue, and the slot is charged to the user of c.
grant(g, c, overflow) ==
  LET t == g.stands[c] IN
  [detach(g, Standing(g, t)) EXCEPT
     !.ticket[t] = "granted",
     !.slot[t] = IF overflow THEN Extra ELSE Who[c],
     !.overflowRunning = IF overflow THEN @ + 1 ELSE @,
     !.active = IF overflow THEN @ ELSE @ + 1,
     !.byUser[Who[c]] = IF overflow THEN @ ELSE @ + 1]

\* Mutant: the queue is a stack.
FirstLast(g) ==
  CHOOSE c \in queue(g) :
    /\ eligible(g, c)
    /\ \A d \in queue(g) : eligible(g, d) => g.place[c] >= g.place[d]

\* The eligible call that came first.
First(g) ==
  CHOOSE c \in queue(g) :
    /\ eligible(g, c)
    /\ \A d \in queue(g) : eligible(g, d) => g.place[c] <= g.place[d]

\* A round of the loop.  A second one never finds anybody: at most one slot is
\* free when pump() is called with a queue (SlotsAreUsed).
pump(g) ==
  IF \E c \in queue(g) : eligible(g, c) THEN grant(g, First(g), FALSE) ELSE g

openTicket(g, t) == [g EXCEPT !.ticket[t] = "open"]

Abandon(g, t) == [g EXCEPT !.ticket[t] = "dropped"]

Push(g, t, c) ==
  [g EXCEPT !.stands[c] = t, !.place[c] = Cardinality(queue(g)) + 1]

\* Mutant: a caller that has gone abandons the ticket of the others.
addWaiterAbandons(g, t, c, aborted) ==
  IF g.ticket[t] # "open" THEN g
  ELSE IF aborted THEN Abandon(g, t)
  ELSE pump(Push(g, t, c))

\* c joins the queue for an open ticket.  aborted: its client has gone already.
addWaiter(g, t, c, aborted) ==
  IF g.ticket[t] # "open" THEN g
  ELSE IF aborted THEN (IF Standing(g, t) = {} THEN Abandon(g, t) ELSE g)
  ELSE pump(Push(g, t, c))

\* The signal of a queued call aborts; the last one takes the ticket with it.
onAbort(g, c) ==
  LET t == g.stands[c]
      h == detach(g, {c})
  IN  pump(IF Standing(h, t) = {} THEN Abandon(h, t) ELSE h)

\* Math.max(0, n - 1)
Less(n) == IF n > 0 THEN n - 1 ELSE 0

\* Mutant: the user's count is not given back.
PutBackForgets(g, t) ==
  IF g.slot[t] = Extra THEN [g EXCEPT !.slot[t] = None, !.overflowRunning = Less(@)]
  ELSE [g EXCEPT !.slot[t] = None, !.active = Less(@)]

PutBack(g, t) ==
  IF g.slot[t] = Extra THEN [g EXCEPT !.slot[t] = None, !.overflowRunning = Less(@)]
  ELSE [g EXCEPT !.slot[t] = None, !.active = Less(@), !.byUser[g.slot[t]] = Less(@)]

\* Mutant: nobody is woken.
releaseQuietly(g, t) == PutBack(g, t)

\* The slot of ticket t is given back and handed on.
release(g, t) == pump(PutBack(g, t))

=============================================================================
