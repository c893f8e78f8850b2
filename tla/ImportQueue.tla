----------------------------- MODULE ImportQueue -----------------------------
(***************************************************************************)
(* The staged-import queue: src/api/src/services/staged-import-worker.ts   *)
(* and the queue routes of src/api/src/routes/staged-imports.ts.           *)
(* Several processes drain one table.  Rows of one lock group share a      *)
(* staging table, which a run truncates and refills.  A row is the number  *)
(* of its place in the (sort, id) order, and rows come in that order.      *)
(***************************************************************************)
EXTENDS Naturals, FiniteSets

CONSTANTS
  Worker,       \* processes whose cron ticks 'staged-imports'
  Row,          \* rows of nivaro_import_queue, by their place in the order
  Groups,       \* lockGroupOf: the group of each row
  Readers,      \* for each row the workers whose host holds its file
  MaxParallel,  \* MAX_PARALLEL of each worker's environment
  Outcome,      \* how the run of each row ends: "completed", "error"
  Limit,        \* rows a drain reads
  Requests,     \* what administrators ask for: "requeue", "cancel"
  MaxRequests,  \* how often they ask
  MaxCrashes,   \* process deaths
  None

ASSUME ImportQueueAssumption ==
  /\ Row \subseteq Nat /\ IsFiniteSet(Row)
  /\ DOMAIN Groups = Row
  /\ Readers \in [Row -> SUBSET Worker]
  /\ Outcome \in [Row -> {"completed", "error"}]
  /\ MaxParallel \in [Worker -> Nat \ {0}] /\ Limit \in Nat \ {0} /\ {MaxRequests, MaxCrashes} \subseteq Nat
  /\ Requests \subseteq {"requeue", "cancel"}
  /\ None \notin [op : Requests, row : Row]

Group == {Groups[r] : r \in Row}

VARIABLES
  status,   \* the status column
  old,      \* rows queued for longer than UNREADABLE_GRACE_MS
  again,    \* rows queued a second time: the bound on requeues
  live,     \* runs under way: [by, row, n], n = 2 after a requeue
  driving,  \* per worker, the ids it drives
  pc,       \* per worker, the await its drain stands at; "idle": not ticking
  busy,     \* per worker, groups its drain takes for running
  blocked,  \* per worker, groups whose first row it could not read
  todo,     \* per worker, the queued rows its drain has still to look at
  request,  \* an administrator's request that has read its row, or None
  asked,    \* requests made
  spoiled,  \* groups in which a status was written over while its row ran
  crashes

table == <<status, old, again>>
drains == <<pc, busy, blocked, todo>>
vars == <<status, old, again, live, driving, pc, busy, blocked, todo, request, asked, spoiled, crashes>>

TypeOK ==
  /\ status \in [Row -> {"absent", "queued", "running", "completed", "error", "canceled"}]
  /\ old \subseteq Row /\ again \subseteq Row
  /\ live \subseteq [by : Worker, row : Row, n : {1, 2}]
  /\ driving \in [Worker -> SUBSET Row]
  /\ pc \in [Worker -> {"idle", "queue", "scan", "claim", "giveup"}]
  /\ busy \in [Worker -> SUBSET Group] /\ blocked \in [Worker -> SUBSET Group]
  /\ todo \in [Worker -> SUBSET Row]
  /\ request \in [op : Requests, row : Row] \cup {None}
  /\ spoiled \subseteq Group
  /\ asked \in 0..MaxRequests /\ crashes \in 0..MaxCrashes

Init ==
  /\ status = [r \in Row |-> "absent"]
  /\ old = {} /\ again = {} /\ live = {} /\ spoiled = {}
  /\ driving = [w \in Worker |-> {}]
  /\ pc = [w \in Worker |-> "idle"]
  /\ busy = [w \in Worker |-> {}] /\ blocked = [w \in Worker |-> {}]
  /\ todo = [w \in Worker |-> {}]
  /\ request = None
  /\ asked = 0 /\ crashes = 0

With(s) == {r \in Row : status[r] = s}
Runs(r) == {x \in live : x.row = r}
Goto(w, at) == pc' = [pc EXCEPT ![w] = at]

\* UPDATE by id alone: the row may be running by now.
Overwrite(r, s) ==
  /\ status' = [status EXCEPT ![r] = s]
  /\ spoiled' = IF Runs(r) = {} THEN spoiled ELSE spoiled \cup {Groups[r]}

-----------------------------------------------------------------------------
(* drainOnce(), one action per await.                                      *)

\* Mutant: rows whose run is over count as running.
TickStarted(w) ==
  /\ pc[w] = "idle"
  /\ Cardinality(driving[w]) < MaxParallel[w]
  /\ busy' = [busy EXCEPT ![w] = {Groups[r] : r \in With("running") \cup With("completed")}]
  /\ Goto(w, "queue")
  /\ UNCHANGED <<table, live, driving, blocked, todo, request, asked, spoiled, crashes>>

\* A tick that finds room reads the running rows.
Tick(w) ==
  /\ pc[w] = "idle"
  /\ Cardinality(driving[w]) < MaxParallel[w]
  /\ busy' = [busy EXCEPT ![w] = {Groups[r] : r \in With("running")}]
  /\ Goto(w, "queue")
  /\ UNCHANGED <<table, live, driving, blocked, todo, request, asked, spoiled, crashes>>

\* Then the queued rows, in order, up to the limit.
FirstQueued == {r \in With("queued") : Cardinality({q \in With("queued") : q <= r}) <= Limit}

ReadQueue(w) ==
  /\ pc[w] = "queue"
  /\ todo' = [todo EXCEPT ![w] = FirstQueued]
  /\ Goto(w, "scan")
  /\ UNCHANGED <<table, live, driving, busy, blocked, request, asked, spoiled, crashes>>

\* Mutant: the loop does not look at what this process drives already.
FullNever(w) == FALSE

Full(w) == Cardinality(driving[w]) >= MaxParallel[w]

\* Mutant: only the running rows count, so a row may pass an earlier one that
\* waits for its file.
TakenRunning(w) == busy[w]

\* The groups of which this drain starts no row any more.
Taken(w) == busy[w] \cup blocked[w]

\* The loop's next row: it passes over the rows of those groups.
Rest(w) == {r \in todo[w] : Groups[r] \notin Taken(w)}
First(w) == CHOOSE r \in Rest(w) : \A q \in Rest(w) : r <= q
Dropped(w) == todo' = [todo EXCEPT ![w] = {r \in Rest(w) : r # First(w)}]

Stop(w) ==
  /\ pc[w] = "scan"
  /\ Rest(w) = {} \/ Full(w)
  /\ Goto(w, "idle")
  /\ todo' = [todo EXCEPT ![w] = {}]
  /\ busy' = [busy EXCEPT ![w] = {}]
  /\ blocked' = [blocked EXCEPT ![w] = {}]
  /\ UNCHANGED <<table, live, driving, request, asked, spoiled, crashes>>

\* No host has read the file for UNREADABLE_GRACE_MS.
GivenUp(r) == r \in old

\* The file is read on this host, or not: then the row waits for a host that can
\* and its group with it, or is given up.
Open(w) ==
  /\ pc[w] = "scan" /\ Rest(w) # {} /\ ~Full(w)
  /\ LET r == First(w) IN
       \/ w \in Readers[r] /\ Goto(w, "claim") /\ UNCHANGED <<blocked, todo>>
       \/ w \notin Readers[r] /\ GivenUp(r) /\ Goto(w, "giveup") /\ UNCHANGED <<blocked, todo>>
       \/ /\ w \notin Readers[r] /\ ~GivenUp(r)
          /\ blocked' = [blocked EXCEPT ![w] = @ \cup {Groups[r]}]
          /\ Dropped(w) /\ UNCHANGED pc
  /\ UNCHANGED <<table, live, driving, busy, request, asked, spoiled, crashes>>

GiveUp(w) ==
  /\ pc[w] = "giveup"
  /\ Overwrite(First(w), "error")
  /\ Dropped(w)
  /\ Goto(w, "scan")
  /\ UNCHANGED <<old, again, live, driving, busy, blocked, request, asked, crashes>>

Run(w, r) == [by |-> w, row |-> r, n |-> IF r \in again THEN 2 ELSE 1]

\* Mutants: the claim does not look at the status; the group is not noted.
ClaimAny(w) ==
  LET r == First(w) IN
  /\ pc[w] = "claim"
  /\ status' = [status EXCEPT ![r] = "running"]
  /\ busy' = [busy EXCEPT ![w] = @ \cup {Groups[r]}]
  /\ live' = live \cup {Run(w, r)}
  /\ driving' = [driving EXCEPT ![w] = @ \cup {r}]
  /\ Dropped(w) /\ Goto(w, "scan")
  /\ UNCHANGED <<old, again, blocked, request, asked, spoiled, crashes>>

NowBusyNot(w, r) == busy[w]

\* The group of a row that starts is busy for the rest of the drain.
NowBusy(w, r) == busy[w] \cup {Groups[r]}

\* UPDATE ... WHERE status = 'queued': the run starts if the row was still there;
\* if another process has it, the drain goes on to the next row.
Claim(w) ==
  LET r == First(w) IN
  /\ pc[w] = "claim"
  /\ \/ /\ status[r] = "queued"
        /\ status' = [status EXCEPT ![r] = "running"]
        /\ busy' = [busy EXCEPT ![w] = NowBusy(w, r)]
        /\ live' = live \cup {Run(w, r)}
        /\ driving' = [driving EXCEPT ![w] = @ \cup {r}]
     \/ status[r] # "queued" /\ UNCHANGED <<status, busy, live, driving>>
  /\ Dropped(w) /\ Goto(w, "scan")
  /\ UNCHANGED <<old, again, blocked, request, asked, spoiled, crashes>>

-----------------------------------------------------------------------------
(* runOne(), the queue routes, time and process death.                     *)

\* The run ends well or not; the outcome is written by id.  The code tells the
\* creator before it drops the row from those it drives.
Finish(x) ==
  /\ x \in live
  /\ status' = [status EXCEPT ![x.row] = Outcome[x.row]]
  /\ live' = live \ {x}
  /\ driving' = [driving EXCEPT ![x.by] = @ \ {x.row}]
  /\ UNCHANGED <<old, again, drains, request, asked, spoiled, crashes>>

Upload(r) ==
  /\ status[r] = "absent"
  /\ \A q \in Row : q < r => status[q] # "absent"
  /\ status' = [status EXCEPT ![r] = "queued"]
  /\ UNCHANGED <<old, again, live, driving, drains, request, asked, spoiled, crashes>>

\* POST /:id/requeue and /:id/cancel read the row and refuse what is running, or
\* completed.
Ask(op, r) ==
  /\ request = None /\ asked < MaxRequests
  /\ status[r] # "absent"
  /\ \/ op = "requeue" /\ status[r] # "running" /\ r \notin again
     \/ op = "cancel" /\ status[r] # "completed"
  /\ request' = [op |-> op, row |-> r]
  /\ asked' = asked + 1
  /\ UNCHANGED <<table, live, driving, drains, spoiled, crashes>>

\* Then they write it, whatever it has become.
Apply ==
  /\ request # None
  /\ Overwrite(request.row, IF request.op = "requeue" THEN "queued" ELSE "canceled")
  /\ again' = IF request.op = "requeue" THEN again \cup {request.row} ELSE again
  /\ request' = None
  /\ UNCHANGED <<old, live, driving, drains, asked, crashes>>

\* An hour passes; only who cannot read the file of a queued row looks at the age.
Age(r) ==
  /\ status[r] = "queued" /\ r \notin old /\ Readers[r] # Worker
  /\ old' = old \cup {r}
  /\ UNCHANGED <<status, again, live, driving, drains, request, asked, spoiled, crashes>>

\* A process dies with its runs and starts again; their rows stay "running".
Crash(w) ==
  /\ crashes < MaxCrashes
  /\ crashes' = crashes + 1
  /\ live' = {x \in live : x.by # w}
  /\ driving' = [driving EXCEPT ![w] = {}]
  /\ pc' = [pc EXCEPT ![w] = "idle"]
  /\ todo' = [todo EXCEPT ![w] = {}]
  /\ busy' = [busy EXCEPT ![w] = {}]
  /\ blocked' = [blocked EXCEPT ![w] = {}]
  /\ UNCHANGED <<table, request, asked, spoiled>>

Drain(w) == Tick(w) \/ ReadQueue(w) \/ Stop(w) \/ Open(w) \/ GiveUp(w) \/ Claim(w)

Next ==
  \/ \E w \in Worker : Drain(w) \/ Crash(w)
  \/ \E x \in live : Finish(x)
  \/ \E r \in Row : Upload(r) \/ Age(r) \/ \E op \in Requests : Ask(op, r)
  \/ Apply

Spec == Init /\ [][Next]_vars

\* Ticks keep coming, runs end, and time passes.
FairSpec ==
  /\ Spec
  /\ \A w \in Worker : WF_vars(Drain(w))
  /\ WF_vars(\E x \in live : Finish(x))
  /\ WF_vars(\E r \in Row : Age(r))

-----------------------------------------------------------------------------
(* Properties.                                                             *)

\* "procedures truncate a shared staging table, so two runs of one table must not
\* overlap" (staged-import-worker.ts:189-191), whichever process drives them.  It
\* does not hold: two drains at once may run two rows of a group.
OneRunPerGroup == \A x, y \in live : Groups[x.row] = Groups[y.row] => x = y

\* Within one process the busy set keeps the runs of a group apart, through
\* crashes of others, lost claims and rows given up, as long as nobody writes
\* over the status of a row that runs.
LocalRunsApart ==
  \A x, y \in live :
    /\ x.by = y.by /\ Groups[x.row] = Groups[y.row]
    /\ Groups[x.row] \notin spoiled
    => x = y

\* A row never runs twice at once, on one process or two, unless its status was
\* written over: the claim is the only way from "queued" to a run.
RowRunsOnce ==
  \A x, y \in live : x.row = y.row /\ Groups[x.row] \notin spoiled => x = y

\* "How many runs one process drives at once": with the file read between the
\* look and the claim, no process exceeds it.
ParallelBounded ==
  \A w \in Worker : spoiled = {} => Cardinality({x \in live : x.by = w}) <= MaxParallel[w]

\* "a later run of the same table must never overtake an earlier one that is
\* waiting on its file" (209-210), unless that one was queued again since.
Starts(r) == \E x \in live' \ live : x.row = r
NoOvertake ==
  [][\A r \in Row : Starts(r) =>
       \A q \in Row \ again : q < r /\ Groups[q] = Groups[r] => status[q] # "queued"]_vars

\* A row of the group that a dead process left "running".
Wedged(g) == \E q \in With("running") : Groups[q] = g /\ Runs(q) = {}

\* A queued row leaves the queue, whatever other groups do and whichever host has
\* its file; only a row that a dead process left behind holds its group.
RowsLeaveQueue ==
  \A r \in Row : status[r] = "queued" ~> (status[r] # "queued" \/ Wedged(Groups[r]))

=============================================================================
