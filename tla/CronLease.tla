------------------------------ MODULE CronLease ------------------------------
(***************************************************************************)
(* The scheduler leader lease of src/api/src/plugins/cron.ts (CronLeader). *)
(* Every API replica whose ticks are on competes for one Redis key.  The   *)
(* key carries the instance id of its holder and a time to live; a replica *)
(* believes it leads until a moment it computes from the time BEFORE it    *)
(* sent its command, less a margin.                                        *)
(*                                                                         *)
(* Time is a countdown, so a behaviour may run for ever in finitely many   *)
(* states: `held[p]` is heldUntil - now, `left` in a command is            *)
(* began + LEASE - MARGIN - now, `key.ttl` is the time to live.  All of    *)
(* them shrink together in Tick.                                           *)
(*                                                                         *)
(* An instance id is drawn anew at every process start, so a replica that  *)
(* restarts is another member of Proc and nobody comes back from "dead".   *)
(***************************************************************************)
EXTENDS Integers, Sequences, FiniteSets

CONSTANTS
  Proc,        \* instance ids
  None,        \* the key does not exist
  LEASE,       \* LEASE_MS, in ticks
  MARGIN,      \* LEASE_MARGIN_MS
  RENEW,       \* RENEW_MS
  DRILL,       \* longest lease drill window, in ticks; 0 = no drills
  MaxPipe,     \* bound: commands of one process in flight
  Healthy      \* TRUE: Redis answers within the tick and timers are on time

ASSUME LeaseAssumption ==
  /\ None \notin Proc
  /\ LEASE \in Nat /\ MARGIN \in Nat /\ RENEW \in Nat /\ DRILL \in Nat
  /\ MARGIN < LEASE
  /\ MaxPipe \in Nat \ {0}
  /\ Healthy \in BOOLEAN

VARIABLES
  key,    \* the Redis key: [holder, ttl]
  proc,   \* life of a process: new, up, closing (in stop()), closed, dead
  held,   \* what is left of heldUntil; it believes it leads while > 0
  due,    \* what is left until the renew timer may fire
  pipe,   \* commands in flight on the process's Redis connection, in order
  drill,  \* the lease drill aimed at this process: [mode, left]
  gap     \* a drill made it release the key and it has believed on since: belief
          \* and key may differ (history)

vars == <<key, proc, held, due, pipe, drill, gap>>

Belief == LEASE - MARGIN
NoKey == [holder |-> None, ttl |-> 0]
NoDrill == [mode |-> "none", left |-> 0]
Running(p) == proc[p] \in {"up", "closing", "closed"}

\* isLeader(): the clock has not reached heldUntil.
isLeader(p) == held[p] > 0

\* mayTick(): the cron timers of a process run until stopAll().
MayTick(p) == proc[p] \in {"up", "closing"} /\ isLeader(p)

Command == [cmd : {"renew", "set", "drop", "release"}, left : 0..Belief,
            st : {"sent", "yes", "no"}]

Sent(c, l) == [cmd |-> c, left |-> l, st |-> "sent"]

TypeOK ==
  /\ key \in [holder : Proc \cup {None}, ttl : 0..LEASE]
  /\ proc \in [Proc -> {"new", "up", "closing", "closed", "dead"}]
  /\ held \in [Proc -> 0..(Belief + DRILL)]
  /\ due \in [Proc -> 0..RENEW]
  /\ pipe \in [Proc -> Seq(Command)]
  /\ drill \in [Proc -> [mode : {"none", "expire", "drop", "split"}, left : 0..DRILL]]
  /\ gap \in [Proc -> BOOLEAN]

Init ==
  /\ key = NoKey
  /\ proc = [p \in Proc |-> "new"]
  /\ held = [p \in Proc |-> 0]
  /\ due = [p \in Proc |-> 0]
  /\ pipe = [p \in Proc |-> <<>>]
  /\ drill = [p \in Proc |-> NoDrill]
  /\ gap = [p \in Proc |-> FALSE]

-----------------------------------------------------------------------------
(* What Redis does with each command: the key after it, and its answer.    *)

\* Mutant: SET without NX.
SetPlain(p) == [k |-> [holder |-> p, ttl |-> LEASE], ok |-> "yes"]

SetNX(p) ==
  IF key.holder = None THEN [k |-> [holder |-> p, ttl |-> LEASE], ok |-> "yes"]
                       ELSE [k |-> key, ok |-> "no"]

RENEW_LUA(p) ==
  IF key.holder = p THEN [k |-> [holder |-> p, ttl |-> LEASE], ok |-> "yes"]
                    ELSE [k |-> key, ok |-> "no"]

RELEASE_LUA(p) ==
  IF key.holder = p THEN [k |-> NoKey, ok |-> "yes"] ELSE [k |-> key, ok |-> "no"]

Answer(p, c) ==
  IF c = "set" THEN SetNX(p) ELSE IF c = "renew" THEN RENEW_LUA(p) ELSE RELEASE_LUA(p)

-----------------------------------------------------------------------------
(* One renew-or-acquire round, up to its first await.                      *)

\* Mutant: only the first round competes, later ones only renew.
CompeteOnce(p) ==
  /\ drill[p].left = 0 /\ Len(pipe[p]) < MaxPipe
  /\ pipe' = [pipe EXCEPT ![p] =
       IF isLeader(p) THEN Append(@, Sent("renew", Belief)) ELSE @]
  /\ UNCHANGED <<held, gap>>

\* renew() outside a drill: a leader extends its lease, anybody else competes.
Compete(p) ==
  /\ drill[p].left = 0
  /\ Len(pipe[p]) < MaxPipe
  /\ pipe' = [pipe EXCEPT ![p] =
       Append(@, Sent(IF isLeader(p) THEN "renew" ELSE "set", Belief))]
  /\ gap' = [gap EXCEPT ![p] = @ /\ ~(held[p] = 0 /\ pipe[p] = <<>>)]
  /\ UNCHANGED held

\* chaosLapse(): the round of a process a lease drill is aimed at.
ChaosLapse(p) ==
  /\ drill[p].left > 0
  /\ IF drill[p].mode = "expire"
     THEN UNCHANGED <<held, pipe, gap>>
     ELSE /\ held' = [held EXCEPT ![p] =
               IF drill[p].mode = "split" /\ @ > 0
               THEN IF @ > drill[p].left THEN @ ELSE drill[p].left
               ELSE 0]
          /\ IF isLeader(p)
             THEN /\ Len(pipe[p]) < MaxPipe
                  /\ pipe' = [pipe EXCEPT ![p] = Append(@, Sent("drop", 0))]
                  /\ gap' = [gap EXCEPT ![p] = TRUE]
             ELSE UNCHANGED <<pipe, gap>>

\* start(): the first round runs at once, then one every RENEW_MS.
Start(p) ==
  /\ proc[p] = "new"
  /\ proc' = [proc EXCEPT ![p] = "up"]
  /\ pipe' = [pipe EXCEPT ![p] = <<Sent("set", Belief)>>]
  /\ due' = [due EXCEPT ![p] = RENEW]
  /\ UNCHANGED <<key, held, drill, gap>>

\* Mutant: the next round only when the lease is over.
RenewLate(p) ==
  /\ proc[p] = "up" /\ due[p] = 0
  /\ due' = [due EXCEPT ![p] = LEASE]
  /\ Compete(p) \/ ChaosLapse(p)
  /\ UNCHANGED <<key, proc, drill>>

\* The interval fires whether or not the previous round has been answered.
Renew(p) ==
  /\ proc[p] = "up" /\ due[p] = 0
  /\ due' = [due EXCEPT ![p] = RENEW]
  /\ Compete(p) \/ ChaosLapse(p)
  /\ UNCHANGED <<key, proc, drill>>

-----------------------------------------------------------------------------
(* Redis and the connection.                                               *)

\* Redis runs the oldest command of p it has not run yet.
Execute(p) ==
  \E i \in 1..Len(pipe[p]) :
    /\ pipe[p][i].st = "sent"
    /\ \A j \in 1..(i - 1) : pipe[p][j].st # "sent"
    /\ LET c == pipe[p][i]
           a == Answer(p, c.cmd)
           d == [cmd |-> c.cmd, left |-> c.left, st |-> a.ok]
       IN /\ key' = a.k
          /\ pipe' = [pipe EXCEPT ![p] = [pipe[p] EXCEPT ![i] = d]]
    /\ UNCHANGED <<proc, held, due, drill, gap>>

\* The connection drops with answers unread; the client reconnects and sends
\* every unanswered command again, so a command may run twice.
Resend(p) ==
  /\ ~Healthy /\ Running(p)
  /\ \E i \in 1..Len(pipe[p]) : pipe[p][i].st # "sent"
  /\ pipe' = [pipe EXCEPT ![p] = [i \in 1..Len(pipe[p]) |-> Sent(pipe[p][i].cmd, pipe[p][i].left)]]
  /\ UNCHANGED <<key, proc, held, due, drill, gap>>

\* Retries are used up: every command in flight is rejected.  The catch keeps
\* what is left of the lease; a stop() in progress ends.
Unreachable(p) ==
  /\ ~Healthy /\ Running(p)
  /\ pipe[p] # <<>>
  /\ pipe' = [pipe EXCEPT ![p] = <<>>]
  /\ proc' = [proc EXCEPT ![p] = IF @ = "closing" THEN "closed" ELSE @]
  /\ UNCHANGED <<key, held, due, drill, gap>>

-----------------------------------------------------------------------------
(* The answer arrives: what the awaiting code does next.                   *)

\* After RENEW_LUA: extend or give up the belief; a process that is not the
\* leader afterwards (refused, or answered too late) competes in the same round.
AfterRenew(p, c) ==
  LET h == IF c.st = "yes" THEN c.left ELSE 0
  IN /\ held' = [held EXCEPT ![p] = h]
     /\ pipe' = [pipe EXCEPT ![p] =
          IF h > 0 THEN Tail(@) ELSE Append(Tail(@), Sent("set", c.left))]
     /\ gap' = [gap EXCEPT ![p] = @ /\ ~(h = 0 /\ Tail(pipe[p]) = <<>>)]
     /\ UNCHANGED proc

\* Mutant: the belief counted from the answer, not from before the command.
AfterSetFromNow(p, c) ==
  /\ held' = [held EXCEPT ![p] = IF c.st = "yes" THEN Belief ELSE @]
  /\ pipe' = [pipe EXCEPT ![p] = Tail(@)]
  /\ UNCHANGED <<proc, gap>>

AfterSet(p, c) ==
  /\ held' = [held EXCEPT ![p] = IF c.st = "yes" THEN c.left ELSE @]
  /\ pipe' = [pipe EXCEPT ![p] = Tail(@)]
  /\ UNCHANGED <<proc, gap>>

\* The release of stop() ends it, and the hook then stops every cron timer;
\* the release of a drill is waited for by nobody.
AfterRelease(p, c) ==
  /\ pipe' = [pipe EXCEPT ![p] = Tail(@)]
  /\ proc' = [proc EXCEPT ![p] =
       IF @ = "closing" /\ c.cmd = "release" THEN "closed" ELSE @]
  /\ UNCHANGED <<held, gap>>

Reply(p) ==
  /\ Running(p)
  /\ pipe[p] # <<>>
  /\ LET c == Head(pipe[p])
     IN /\ c.st # "sent"
        /\ \/ c.cmd = "renew" /\ AfterRenew(p, c)
           \/ c.cmd = "set" /\ AfterSet(p, c)
           \/ c.cmd \in {"drop", "release"} /\ AfterRelease(p, c)
  /\ UNCHANGED <<key, due, drill>>

-----------------------------------------------------------------------------
(* Shutdown, death, drills, time.                                          *)

\* The onClose hook: stop() clears the timer, steps down and, if it led,
\* releases; stopAll() follows when the release has been answered.
Stop(p) ==
  /\ proc[p] = "up"
  /\ held' = [held EXCEPT ![p] = 0]
  /\ IF isLeader(p)
     THEN /\ proc' = [proc EXCEPT ![p] = "closing"]
          /\ pipe' = [pipe EXCEPT ![p] = Append(@, Sent("release", 0))]
     ELSE /\ proc' = [proc EXCEPT ![p] = "closed"]
          /\ UNCHANGED pipe
  /\ UNCHANGED <<key, due, drill, gap>>

\* The process ends (a crash, or its exit after closing).  Commands already on
\* the wire may still reach Redis.
Die(p) ==
  /\ Running(p)
  /\ proc' = [proc EXCEPT ![p] = "dead"]
  /\ held' = [held EXCEPT ![p] = 0]
  /\ drill' = [drill EXCEPT ![p] = NoDrill]
  /\ \E n \in 0..Len(pipe[p]) : pipe' = [pipe EXCEPT ![p] = SubSeq(@, 1, n)]
  /\ UNCHANGED <<key, due, gap>>

BeginDrill(p) ==
  /\ proc[p] = "up" /\ drill[p].left = 0
  /\ \E m \in {"expire", "drop", "split"}, n \in 1..DRILL :
       drill' = [drill EXCEPT ![p] = [mode |-> m, left |-> n]]
  /\ UNCHANGED <<key, proc, held, due, pipe, gap>>

Less(n) == IF n > 0 THEN n - 1 ELSE 0

\* PX: the key is gone when its time to live is used up.
Elapsed(k) == IF k.ttl <= 1 THEN NoKey ELSE [holder |-> k.holder, ttl |-> k.ttl - 1]

OnTime ==
  \A p \in Proc : /\ Running(p) => pipe[p] = <<>>
                  /\ proc[p] = "up" => due[p] > 0

Tick ==
  /\ Healthy => OnTime
  /\ key' = Elapsed(key)
  /\ held' = [p \in Proc |-> Less(held[p])]
  /\ due' = [p \in Proc |-> Less(due[p])]
  /\ pipe' = [p \in Proc |-> [i \in 1..Len(pipe[p]) |->
       [cmd |-> pipe[p][i].cmd, left |-> Less(pipe[p][i].left), st |-> pipe[p][i].st]]]
  /\ drill' = [p \in Proc |-> IF drill[p].left <= 1 THEN NoDrill
                              ELSE [mode |-> drill[p].mode, left |-> drill[p].left - 1]]
  /\ UNCHANGED <<proc, gap>>

Next ==
  \/ \E p \in Proc :
       \/ Start(p) \/ Renew(p) \/ Execute(p) \/ Resend(p) \/ Unreachable(p)
       \/ Reply(p) \/ Stop(p) \/ Die(p) \/ BeginDrill(p)
  \/ Tick

Spec == Init /\ [][Next]_vars

\* What the runtime gives: time passes, a timer that is due fires, Redis runs
\* what it is sent and its answers are read.
Fairness ==
  /\ WF_vars(Tick)
  /\ \A p \in Proc : /\ WF_vars(Start(p)) /\ WF_vars(Renew(p))
                     /\ WF_vars(Execute(p)) /\ WF_vars(Reply(p))

FairSpec == Spec /\ Fairness

-----------------------------------------------------------------------------
(* Properties.                                                             *)

\* No drill made p release a key it goes on believing in, and it is not shutting down.
Undisturbed(p) == proc[p] = "up" /\ ~gap[p]

\* "this process stops believing it leads a couple of seconds before the key
\* could expire": while a replica believes, the key is its own and will outlive
\* the belief by the margin - whatever answers were late, lost or repeated.
BeliefEndsBeforeKey ==
  \A p \in Proc : Undisturbed(p) /\ isLeader(p) =>
    key.holder = p /\ key.ttl >= held[p] + MARGIN

\* "Only the process holding the lease fires on the clock": no two replicas
\* believe they lead at once (a drill or a shutdown apart).
AtMostOneLeader ==
  \A p, q \in Proc :
    Undisturbed(p) /\ Undisturbed(q) /\ isLeader(p) /\ isLeader(q) => p = q

\* "a process can only ever renew or release its OWN lease": a command of p,
\* however old, leaves the key of another process exactly as it was.
OnlyOwnLease ==
  [][\A p \in Proc : Execute(p) /\ key.holder \notin {p, None} => key' = key]_vars

\* The next round of a leader comes before its belief ends, or is under way.
InStep(p) ==
  /\ Undisturbed(p) /\ isLeader(p)
  /\ held[p] > due[p] \/ pipe[p] # <<>>

\* While Redis answers and timers run, an election puts a replica in step, and round
\* after round it stays in step and so leads for as long as no drill is aimed at it:
\* the renew period fits into the belief an answer gives, and nobody can take the
\* key between two rounds.
LeaderKeepsLeading ==
  [][\A p \in Proc :
       /\ ~isLeader(p) /\ isLeader(p)' /\ Undisturbed(p)' => InStep(p)'
       /\ InStep(p) /\ drill[p].left = 0 /\ proc'[p] = "up" => InStep(p)']_vars

\* While Redis answers, a fleet that keeps a replica up ends up with a leader
\* for good once no more drills are run.
SomeoneLeads ==
  /\ <>[](\A p \in Proc : drill[p].left = 0)
  /\ \E p \in Proc : <>[](proc[p] = "up")
  => <>[](\E p \in Proc : proc[p] = "up" /\ isLeader(p))

\* The comment of the close hook: "Release it on close so the next replica takes
\* over at once instead of waiting out the expiry" (cron.ts:1235-1237).  It does
\* not hold: a close that overlaps the round that takes the lease keeps the key.
CloseFreesLease ==
  \A p \in Proc : proc[p] = "closed" /\ pipe[p] = <<>> => key.holder # p

=============================================================================
