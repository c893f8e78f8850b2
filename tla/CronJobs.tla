------------------------------ MODULE CronJobs -------------------------------
(***************************************************************************)
(* How one scheduled job comes to run, in src/api/src/plugins/cron.ts      *)
(* (CronManager and ClusterHold): the tick callback, run-now, boot catch-up*)
(* and chained runs on several processes, and the Redis keys between them. *)
(*                                                                         *)
(*   nvr:cron:run:<id>:<fire time>  claimed by the tick that runs the fire *)
(*   nvr:cron:active:<id>           held while an unsafe job runs          *)
(*   nvr:cron:heavy                 held while a heavy job runs            *)
(*                                                                         *)
(* A task is one call of the tick callback, of runNow or of the loop of    *)
(* triggerChained.  Its pc names the await it stands at.  What a task      *)
(* reads from elsewhere - the lease (CronLease shows how far two processes *)
(* may both believe), the pause list, maintenance mode, the job run table  *)
(* of a catch-up - is a choice: any answer is possible at any time.        *)
(***************************************************************************)
EXTENDS Integers, Sequences, FiniteSets

CONSTANTS
  Proc,      \* processes
  Job,       \* registered jobs
  Unsafe,    \* jobs labelled idempotent:'unsafe'
  Heavy,     \* jobs labelled heavy
  Kids,      \* Kids[j]: the jobs chained after j, in registration order
  None,      \* a key that does not exist
  MaxTask,   \* bound: tasks ever started
  MaxSlot,   \* bound: scheduled fires of each job
  Cuts,      \* TRUE: Redis may be out of reach of a process
  Stalls,    \* TRUE: the maintenance lookup may take longer than a minute
  LongWait   \* TRUE: a heavy run may wait HEAVY_MAX_WAIT_MS

ASSUME JobsAssumption ==
  /\ Unsafe \subseteq Job /\ Heavy \subseteq Job
  /\ Kids \in [Job -> Seq(Job)]
  /\ MaxTask \in Nat /\ MaxSlot \in Nat
  /\ {Cuts, Stalls, LongWait} \subseteq BOOLEAN
  /\ None \notin Nat

VARIABLES
  alive,    \* processes that have not died
  cut,      \* processes that cannot reach Redis
  slot,     \* the newest scheduled fire, the same for every job
  fresh,    \* less than a minute has passed since it
  task,     \* task[t]: the t-th task
  runKey,   \* claimed fires: pairs of a job and a fire time
  busyKey,  \* busyKey[j]: the task whose value nvr:cron:active:<j> carries
  heavyKey, \* the task whose value nvr:cron:heavy carries
  chainQ    \* heavyChain of each process: its scheduled heavy runs, in order

vars == <<alive, cut, slot, fresh, task, runKey, busyKey, heavyKey, chainQ>>

Task == 1..MaxTask
Over == {"absent", "done", "dead"}

\* Fire times: a slot, or the rounded clock of a tick that computes it late.
Late == {-1, -2}
FireTime == (1..MaxSlot) \cup Late

Absent == [pc |-> "absent"]
TaskType ==
  [pc : {"maint", "recent", "claim", "busy", "turn", "run", "freeHeavy", "freeBusy", "done", "dead"},
   proc : Proc, job : Job, kind : {"tick", "now", "catch", "chain"},
   fire : 0..MaxSlot, claim : FireTime \cup {0}, rest : Seq(Job),
   busyHold : BOOLEAN, heavyHold : BOOLEAN]

Live(t) == task[t].pc \notin Over
Running(t) == task[t].pc = "run"
OnCut(t) == task[t].proc \in cut

TypeOK ==
  /\ alive \subseteq Proc /\ cut \subseteq Proc
  /\ slot \in 0..MaxSlot /\ fresh \in BOOLEAN
  /\ task \in [Task -> TaskType \cup {Absent}]
  /\ runKey \subseteq Job \X FireTime
  /\ busyKey \in [Job -> Task \cup {None}]
  /\ heavyKey \in Task \cup {None}
  /\ chainQ \in [Proc -> Seq(Task)]

Init ==
  /\ alive = Proc /\ cut = {}
  /\ slot = 0 /\ fresh = FALSE
  /\ task = [t \in Task |-> Absent]
  /\ runKey = {}
  /\ busyKey = [j \in Job |-> None] /\ heavyKey = None
  /\ chainQ = [p \in Proc |-> <<>>]

-----------------------------------------------------------------------------
(* Tasks begin.                                                            *)

\* The next task slot, so that tasks are numbered in the order they begin.
NextTask(t) == task[t] = Absent /\ \A u \in 1..(t - 1) : task[u] # Absent

NewTask(p, j, k, at, rest) ==
  [pc |-> at, proc |-> p, job |-> j, kind |-> k, fire |-> IF k = "tick" THEN slot ELSE 0,
   claim |-> 0, rest |-> rest, busyHold |-> FALSE, heavyHold |-> FALSE]

\* The clock of p calls the tick of j.  Croner's protect skips it while the
\* previous tick of j on p runs; a paused or chained job, a process with ticks
\* off or without the lease returns at once, which is the same as no call.
Fire(p, j, t) ==
  /\ p \in alive /\ slot > 0 /\ fresh
  /\ \A i \in Job : j \notin {Kids[i][n] : n \in 1..Len(Kids[i])}
  /\ \A u \in Task : Live(u) /\ task[u].proc = p /\ task[u].job = j => task[u].kind # "tick"
  /\ \A u \in Task : task[u] # Absent /\ task[u].proc = p /\ task[u].job = j /\ task[u].kind = "tick"
       => task[u].fire # slot
  /\ NextTask(t)
  /\ task' = [task EXCEPT ![t] = NewTask(p, j, "tick", "maint", <<>>)]
  /\ UNCHANGED <<alive, cut, slot, fresh, runKey, busyKey, heavyKey, chainQ>>

\* An admin asks for a run now.
RunNow(p, j, t) ==
  /\ p \in alive /\ NextTask(t)
  /\ task' = [task EXCEPT ![t] = NewTask(p, j, "now", "busy", <<>>)]
  /\ UNCHANGED <<alive, cut, slot, fresh, runKey, busyKey, heavyKey, chainQ>>

\* The boot of p looks for overdue jobs.
CatchUp(p, j, t) ==
  /\ p \in alive /\ NextTask(t)
  /\ task' = [task EXCEPT ![t] = NewTask(p, j, "catch", "recent", <<>>)]
  /\ UNCHANGED <<alive, cut, slot, fresh, runKey, busyKey, heavyKey, chainQ>>

-----------------------------------------------------------------------------
(* Up to the start of the run.                                             *)

At(t, at) == task[t].pc = at

\* Where a task goes when its run is over or was refused: the loop of
\* triggerChained goes on with the next job.
AfterRun(r) ==
  IF r.kind = "chain" /\ r.rest # <<>>
  THEN [r EXCEPT !.pc = "busy", !.job = Head(r.rest), !.rest = Tail(r.rest)]
  ELSE [r EXCEPT !.pc = "done"]

\* scheduledFireTime(): the newest fire less than a minute ago, else the clock.
FireTimes == IF fresh THEN {slot} ELSE Late

\* heldByMaintenance() answers: held (the slot is noted), or go on with the
\* fire time as it is now.
MaintenanceAnswer(t) ==
  /\ At(t, "maint")
  /\ \/ task' = [task EXCEPT ![t].pc = "done"]
     \/ \E f \in FireTimes : task' = [task EXCEPT ![t].pc = "claim", ![t].claim = f]
  /\ UNCHANGED <<alive, cut, slot, fresh, runKey, busyKey, heavyKey, chainQ>>

\* A catch-up finds maintenance on or a recent completed run, or starts one.
RecentAnswer(t) ==
  /\ At(t, "recent")
  /\ \E at \in {"done", "busy"} : task' = [task EXCEPT ![t].pc = at]
  /\ UNCHANGED <<alive, cut, slot, fresh, runKey, busyKey, heavyKey, chainQ>>

\* Mutant: SET without NX.
ClaimRunPlain(t) ==
  /\ At(t, "claim") /\ ~OnCut(t)
  /\ runKey' = runKey \cup {<<task[t].job, task[t].claim>>}
  /\ task' = [task EXCEPT ![t].pc = "busy"]
  /\ UNCHANGED <<alive, cut, slot, fresh, busyKey, heavyKey, chainQ>>

\* claimRun(): SET NX of the fire.
ClaimRun(t) ==
  LET k == <<task[t].job, task[t].claim>>
  IN /\ At(t, "claim") /\ ~OnCut(t)
     /\ runKey' = runKey \cup {k}
     /\ task' = IF k \in runKey THEN [task EXCEPT ![t].pc = "done", ![t].claim = 0]
                ELSE [task EXCEPT ![t].pc = "busy"]
     /\ UNCHANGED <<alive, cut, slot, fresh, busyKey, heavyKey, chainQ>>

\* claimRun() fails closed; the SET may have been done all the same.
ClaimRunFails(t) ==
  /\ At(t, "claim") /\ OnCut(t)
  /\ task' = [task EXCEPT ![t].pc = "done", ![t].claim = 0]
  /\ runKey' \in {runKey, runKey \cup {<<task[t].job, task[t].claim>>}}
  /\ UNCHANGED <<alive, cut, slot, fresh, busyKey, heavyKey, chainQ>>

\* Having passed claimUnsafeRun, a task goes to its turn; a scheduled heavy
\* run joins the chain of its process.
TakeTurn(t, hold) ==
  /\ task' = [task EXCEPT ![t].pc = "turn", ![t].busyHold = hold]
  /\ chainQ' = IF task[t].kind = "tick" /\ task[t].job \in Heavy
               THEN [chainQ EXCEPT ![task[t].proc] = Append(@, t)] ELSE chainQ

ClaimUnsafe(t) ==
  LET j == task[t].job
  IN /\ At(t, "busy")
     /\ \/ j \notin Unsafe /\ TakeTurn(t, FALSE) /\ UNCHANGED busyKey
        \/ /\ j \in Unsafe /\ ~OnCut(t)
           /\ busyKey[j] = None
           /\ busyKey' = [busyKey EXCEPT ![j] = t]
           /\ TakeTurn(t, TRUE)
        \/ /\ j \in Unsafe /\ (OnCut(t) \/ busyKey[j] # None)
           /\ task' = [task EXCEPT ![t] = AfterRun(@)]   \* JobBusyError
           /\ busyKey' \in {busyKey, IF OnCut(t) /\ busyKey[j] = None
                                     THEN [busyKey EXCEPT ![j] = t] ELSE busyKey}
           /\ UNCHANGED chainQ
     /\ UNCHANGED <<alive, cut, slot, fresh, runKey, heavyKey>>

-----------------------------------------------------------------------------
(* The run.                                                                *)

\* The local chain lets its first task go on.
MyTurn(t) ==
  task[t].kind = "tick" /\ task[t].job \in Heavy => Head(chainQ[task[t].proc]) = t

Go(t, hold) == task' = [task EXCEPT ![t].pc = "run", ![t].heavyHold = hold]

\* Mutant: out of reach of Redis the run goes on waiting.
BeginClosed(t) ==
  /\ At(t, "turn") /\ MyTurn(t)
  /\ \/ task[t].job \notin Heavy /\ Go(t, FALSE) /\ UNCHANGED heavyKey
     \/ /\ task[t].job \in Heavy /\ ~OnCut(t) /\ heavyKey = None
        /\ heavyKey' = t
        /\ Go(t, TRUE)
  /\ UNCHANGED <<alive, cut, slot, fresh, runKey, busyKey, chainQ>>

\* withHeavySlot(): SET NX, polled; out of reach of Redis it runs at once, and
\* after two hours of waiting it runs all the same.
Begin(t) ==
  /\ At(t, "turn") /\ MyTurn(t)
  /\ \/ task[t].job \notin Heavy /\ Go(t, FALSE) /\ UNCHANGED heavyKey
     \/ /\ task[t].job \in Heavy /\ ~OnCut(t) /\ heavyKey = None
        /\ heavyKey' = t
        /\ Go(t, TRUE)
     \/ task[t].job \in Heavy /\ OnCut(t) /\ Go(t, FALSE) /\ UNCHANGED heavyKey
     \/ /\ task[t].job \in Heavy /\ LongWait /\ heavyKey # None
        /\ Go(t, FALSE)
        /\ UNCHANGED heavyKey
  /\ UNCHANGED <<alive, cut, slot, fresh, runKey, busyKey, chainQ>>

\* The handler returns: the run is recorded and, in passing, the jobs chained
\* after it are set off; their loop is awaited by nobody.
Complete(t) ==
  LET r == task[t] kids == Kids[r.job]
  IN /\ At(t, "run")
     /\ IF kids = <<>> THEN task' = [task EXCEPT ![t].pc = "freeHeavy"]
        ELSE \E u \in Task :
          /\ NextTask(u)
          /\ task' = [task EXCEPT ![t].pc = "freeHeavy",
                ![u] = NewTask(r.proc, Head(kids), "chain", "busy", Tail(kids))]
     /\ UNCHANGED <<alive, cut, slot, fresh, runKey, busyKey, heavyKey, chainQ>>

\* The handler throws.
Fail(t) ==
  /\ At(t, "run")
  /\ task' = [task EXCEPT ![t].pc = "freeHeavy"]
  /\ UNCHANGED <<alive, cut, slot, fresh, runKey, busyKey, heavyKey, chainQ>>

\* Mutant: a plain DEL.
ReleasedAlways(k, t) == None

\* RELEASE_LUA: a key is deleted by the hold whose value it carries.
Released(k, t) == IF k = t THEN None ELSE k

FreeHeavy(t) ==
  /\ At(t, "freeHeavy")
  /\ heavyKey' = IF task[t].heavyHold /\ ~OnCut(t) THEN Released(heavyKey, t) ELSE heavyKey
  /\ task' = [task EXCEPT ![t].pc = "freeBusy", ![t].heavyHold = FALSE]
  /\ chainQ' = IF task[t].kind = "tick" /\ task[t].job \in Heavy
               THEN [chainQ EXCEPT ![task[t].proc] = Tail(@)] ELSE chainQ
  /\ UNCHANGED <<alive, cut, slot, fresh, runKey, busyKey>>

FreeBusy(t) ==
  LET j == task[t].job
  IN /\ At(t, "freeBusy")
     /\ busyKey' = IF task[t].busyHold /\ ~OnCut(t)
                   THEN [busyKey EXCEPT ![j] = Released(@, t)] ELSE busyKey
     /\ task' = [task EXCEPT ![t] = AfterRun([@ EXCEPT !.busyHold = FALSE])]
     /\ UNCHANGED <<alive, cut, slot, fresh, runKey, heavyKey, chainQ>>

-----------------------------------------------------------------------------
(* Expiry, time, failures.                                                 *)

\* Mutant: the hold is not renewed while the work runs.
RenewedNever(t, hold) == FALSE

\* ClusterHold renews its key every minute until it is released, while its
\* process lives and reaches Redis; a refused renewal is not noticed.
Renewed(t, hold) == Live(t) /\ hold /\ ~OnCut(t)

ExpireBusy(j) ==
  /\ busyKey[j] # None
  /\ LET t == busyKey[j] IN ~Renewed(t, task[t].busyHold)
  /\ busyKey' = [busyKey EXCEPT ![j] = None]
  /\ UNCHANGED <<alive, cut, slot, fresh, task, runKey, heavyKey, chainQ>>

ExpireHeavy ==
  /\ heavyKey # None
  /\ ~Renewed(heavyKey, task[heavyKey].heavyHold)
  /\ heavyKey' = None
  /\ UNCHANGED <<alive, cut, slot, fresh, task, runKey, busyKey, chainQ>>

\* RUN_LOCK_MS after the claim: longer than a fire time stays the newest and
\* than an answer of Redis takes.
ExpireRun(k) ==
  /\ k \in runKey
  /\ k[2] # slot \/ ~fresh
  /\ \A t \in Task : At(t, "claim") => task[t].claim # k[2]
  /\ runKey' = runKey \ {k}
  /\ UNCHANGED <<alive, cut, slot, fresh, task, busyKey, heavyKey, chainQ>>

\* The next scheduled fire, the same instant for every process.
NextSlot ==
  /\ slot < MaxSlot
  /\ slot' = slot + 1 /\ fresh' = TRUE
  /\ Stalls \/ \A t \in Task : ~At(t, "maint")
  /\ UNCHANGED <<alive, cut, task, runKey, busyKey, heavyKey, chainQ>>

MinutePasses ==
  /\ fresh
  /\ fresh' = FALSE
  /\ Stalls \/ \A t \in Task : ~At(t, "maint")
  /\ UNCHANGED <<alive, cut, slot, task, runKey, busyKey, heavyKey, chainQ>>

Die(p) ==
  /\ p \in alive
  /\ alive' = alive \ {p}
  /\ task' = [t \in Task |-> IF Live(t) /\ task[t].proc = p
                             THEN [task[t] EXCEPT !.pc = "dead", !.claim = IF At(t, "claim") THEN 0 ELSE @] ELSE task[t]]
  /\ UNCHANGED <<cut, slot, fresh, runKey, busyKey, heavyKey, chainQ>>

CutOff(p) ==
  /\ Cuts /\ p \notin cut
  /\ cut' = cut \cup {p}
  /\ UNCHANGED <<alive, slot, fresh, task, runKey, busyKey, heavyKey, chainQ>>

Reconnect(p) ==
  /\ p \in cut
  /\ cut' = cut \ {p}
  /\ UNCHANGED <<alive, slot, fresh, task, runKey, busyKey, heavyKey, chainQ>>

Start == \E p \in Proc, j \in Job, t \in Task : Fire(p, j, t) \/ RunNow(p, j, t) \/ CatchUp(p, j, t)

Progress(t) ==
  \/ MaintenanceAnswer(t) \/ RecentAnswer(t) \/ ClaimRun(t) \/ ClaimRunFails(t)
  \/ ClaimUnsafe(t) \/ Begin(t) \/ Complete(t) \/ Fail(t) \/ FreeHeavy(t) \/ FreeBusy(t)

Expiry == ExpireHeavy \/ (\E j \in Job : ExpireBusy(j)) \/ (\E k \in runKey : ExpireRun(k))

Next ==
  \/ Start \/ Expiry \/ NextSlot \/ MinutePasses
  \/ \E t \in Task : Progress(t)
  \/ \E p \in Proc : Die(p) \/ CutOff(p) \/ Reconnect(p)

Spec == Init /\ [][Next]_vars

\* A live process goes on with its tasks, handlers end, keys expire.
FairSpec ==
  /\ Spec
  /\ \A t \in Task : WF_vars(Progress(t))
  /\ WF_vars(ExpireHeavy) /\ \A j \in Job : WF_vars(ExpireBusy(j))

-----------------------------------------------------------------------------
(* Properties.                                                             *)

\* "a given scheduled fire runs once even when two processes overlap"
\* (cron.ts:889): no two ticks of one fire of a job both get past claimRun.
Claimed(t) == task[t] # Absent /\ task[t].claim # 0 /\ ~At(t, "claim")

FireRunsOnce ==
  \A t, u \in Task : Claimed(t) /\ Claimed(u) /\ task[t].job = task[u].job
                     /\ task[t].fire = task[u].fire => t = u

\* "A second start of it (run-now, a chained run, a catch-up, the clock) is
\* refused" (cron.ts:403-406): an unsafe job never runs twice at once.
UnsafeRunsAlone ==
  \A t, u \in Task : Running(t) /\ Running(u) /\ task[t].job = task[u].job
                     /\ task[t].job \in Unsafe => t = u

\* "heavy jobs on other processes are never running at the same time"
\* (cron.ts:701): one heavy job in the cluster.
HeavyRunsAlone ==
  \A t, u \in Task : Running(t) /\ Running(u) /\ {task[t].job, task[u].job} \subseteq Heavy => t = u

\* A hold that lapsed and was taken by another task survives the first one's
\* release: otherwise a third start would find the marker free.
ReleaseSparesOthers ==
  [][\A t \in Task : /\ FreeBusy(t) => \A j \in Job : busyKey[j] \in {t, None} \/ busyKey'[j] = busyKey[j]
                     /\ FreeHeavy(t) => heavyKey \in {t, None} \/ heavyKey' = heavyKey]_vars

\* Nothing waits for ever: a task whose turn depends on another process's
\* heavy slot, or on the chain of its own process, ends or dies with its process.
TasksEnd == \A t \in Task : Live(t) ~> ~Live(t)

=============================================================================
