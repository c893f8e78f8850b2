--------------------------- MODULE CronJobsProofs ---------------------------
(***************************************************************************)
(* Theorems about the runs of the scheduler's jobs, for any number of      *)
(* processes, jobs, fires and tasks.  The first half says what each action *)
(* does to the record of its task; Shape is the invariant all theorems     *)
(* share.  Three more stand on it, one for each way jobs are kept apart:   *)
(* Fires for the key of a fire, BusyHeld for that of an unsafe job and     *)
(* HeavyHeld for the slot of the heavy ones.                               *)
(***************************************************************************)
EXTENDS CronJobs, TLAPS

Pcs == {"maint", "recent", "claim", "busy", "turn", "run", "freeHeavy", "freeBusy", "done", "dead"}

\* What a step makes of a task, apart from the job it is about.
With(r, at, c, b, h) == [r EXCEPT !.pc = at, !.claim = c, !.busyHold = b, !.heavyHold = h]
Becomes(t, at, c, b, h) == task' = [task EXCEPT ![t] = With(task[t], at, c, b, h)]

\* The loop of triggerChained goes on to its next job.
Nexts(t, b, j, q) ==
  task' = [task EXCEPT ![t] = [With(task[t], "busy", task[t].claim, b, task[t].heavyHold)
                               EXCEPT !.job = j, !.rest = q]]

\* A task of process p begins.
Begins(t, r) == NextTask(t) /\ r \in TaskType /\ task' = [task EXCEPT ![t] = r]

\* A scheduled heavy run that has not given its turn back stands in the chain of
\* its process, in front once it runs.
Queues(t) ==
  /\ task[t].pc \in {"turn", "run", "freeHeavy"}
  /\ task[t].kind = "tick" /\ task[t].job \in Heavy

Waits(q, t) == \E i \in 1..Len(q) : q[i] = t

InTurn ==
  \A t \in Task : Queues(t) =>
    /\ Waits(chainQ[task[t].proc], t)
    /\ task[t].pc # "turn" => Head(chainQ[task[t].proc]) = t

\* The fire a tick claims is one.
Claims == \A t \in Task : task[t].pc = "claim" => task[t].claim # 0

Shape == TypeOK /\ InTurn /\ Claims /\ (fresh => slot > 0)

-----------------------------------------------------------------------------
(* Records.                                                                *)

LEMMA AbsentApart == Absent \notin TaskType /\ Absent.pc = "absent"
BY DEF Absent, TaskType

LEMMA Present ==
  ASSUME TypeOK, NEW t \in Task, task[t].pc # "absent"
  PROVE  task[t] \in TaskType
BY DEF TypeOK, Absent

LEMMA WithIs ==
  ASSUME NEW r \in TaskType, NEW at \in Pcs, NEW c \in FireTime \cup {0},
         NEW b \in BOOLEAN, NEW h \in BOOLEAN, NEW s, s = With(r, at, c, b, h)
  PROVE  /\ s \in TaskType
         /\ s.pc = at /\ s.claim = c /\ s.busyHold = b /\ s.heavyHold = h
         /\ s.proc = r.proc /\ s.job = r.job /\ s.kind = r.kind /\ s.fire = r.fire /\ s.rest = r.rest
BY DEF With, TaskType, Pcs

LEMMA WithPc ==
  ASSUME NEW r \in TaskType, NEW at \in Pcs
  PROVE  [r EXCEPT !.pc = at] = With(r, at, r.claim, r.busyHold, r.heavyHold)
BY DEF With, TaskType

LEMMA WithClaim ==
  ASSUME NEW r \in TaskType, NEW at \in Pcs, NEW c \in FireTime \cup {0}
  PROVE  [r EXCEPT !.pc = at, !.claim = c] = With(r, at, c, r.busyHold, r.heavyHold)
BY DEF With, TaskType

LEMMA WithBusy ==
  ASSUME NEW r \in TaskType, NEW at \in Pcs, NEW b \in BOOLEAN
  PROVE  [r EXCEPT !.pc = at, !.busyHold = b] = With(r, at, r.claim, b, r.heavyHold)
BY DEF With, TaskType

LEMMA WithHeavy ==
  ASSUME NEW r \in TaskType, NEW at \in Pcs, NEW h \in BOOLEAN
  PROVE  [r EXCEPT !.pc = at, !.heavyHold = h] = With(r, at, r.claim, r.busyHold, h)
BY DEF With, TaskType

LEMMA FieldTypes ==
  ASSUME NEW r \in TaskType
  PROVE  /\ r.pc \in Pcs /\ r.claim \in FireTime \cup {0}
         /\ r.busyHold \in BOOLEAN /\ r.heavyHold \in BOOLEAN
         /\ r.proc \in Proc /\ r.job \in Job /\ r.rest \in Seq(Job)
         /\ r.kind \in {"tick", "now", "catch", "chain"} /\ r.fire \in 0..MaxSlot
BY DEF TaskType, Pcs

LEMMA NewTaskIs ==
  ASSUME TypeOK, NEW p \in Proc, NEW j \in Job, NEW k \in {"tick", "now", "catch", "chain"},
         NEW at \in {"maint", "recent", "busy"}, NEW q \in Seq(Job),
         NEW r, r = NewTask(p, j, k, at, q)
  PROVE  /\ r \in TaskType
         /\ r.pc = at /\ r.proc = p /\ r.job = j /\ r.kind = k /\ r.rest = q
         /\ r.fire = (IF k = "tick" THEN slot ELSE 0) /\ r.claim = 0
         /\ ~r.busyHold /\ ~r.heavyHold
BY JobsAssumption DEF NewTask, TaskType, TypeOK

\* The loop of triggerChained ends, or goes on.
LEMMA AfterRunIs ==
  ASSUME NEW r \in TaskType, NEW b \in BOOLEAN
  PROVE  \/ AfterRun([r EXCEPT !.busyHold = b]) = With(r, "done", r.claim, b, r.heavyHold)
         \/ /\ r.kind = "chain"
            /\ \E j \in Job, q \in Seq(Job) :
                 AfterRun([r EXCEPT !.busyHold = b])
                   = [With(r, "busy", r.claim, b, r.heavyHold) EXCEPT !.job = j, !.rest = q]
<1> DEFINE s == [r EXCEPT !.busyHold = b]
<1>1. s \in TaskType /\ s.kind = r.kind /\ s.rest = r.rest /\ r.rest \in Seq(Job)
  BY DEF TaskType
<1>2. CASE r.kind = "chain" /\ r.rest # <<>>
  <2>1. Head(r.rest) \in Job /\ Tail(r.rest) \in Seq(Job)
    BY <1>1, <1>2
  <2>2. PICK j \in Job, q \in Seq(Job) : j = Head(r.rest) /\ q = Tail(r.rest)
    BY <2>1
  <2>3. AfterRun(s) = [s EXCEPT !.pc = "busy", !.job = j, !.rest = q]
    BY <1>1, <1>2, <2>2 DEF AfterRun
  <2>4. AfterRun(s) = [With(r, "busy", r.claim, b, r.heavyHold) EXCEPT !.job = j, !.rest = q]
    BY <2>3 DEF With, TaskType
  <2> QED
    BY <1>2, <2>4
<1>3. CASE ~(r.kind = "chain" /\ r.rest # <<>>)
  <2>1. AfterRun(s) = [s EXCEPT !.pc = "done"]
    BY <1>1, <1>3 DEF AfterRun
  <2>2. AfterRun(s) = With(r, "done", r.claim, b, r.heavyHold)
    BY <2>1 DEF With, TaskType
  <2> QED
    BY <2>2
<1> QED
  BY <1>2, <1>3

\* The same without a change of the hold.
LEMMA AfterRunPlain ==
  ASSUME NEW r \in TaskType
  PROVE  AfterRun(r) = AfterRun([r EXCEPT !.busyHold = r.busyHold])
BY Zenon DEF TaskType

-----------------------------------------------------------------------------
(* What a step does to the tasks.                                          *)

Others(t) == \A u \in Task : u # t => task'[u] = task[u]

LEMMA BecomesIs ==
  ASSUME TypeOK, NEW t \in Task, task[t] \in TaskType, NEW at \in Pcs, NEW c \in FireTime \cup {0},
         NEW b \in BOOLEAN, NEW h \in BOOLEAN, Becomes(t, at, c, b, h)
  PROVE  /\ task' \in [Task -> TaskType \cup {Absent}] /\ task'[t] \in TaskType /\ Others(t)
         /\ task'[t].pc = at /\ task'[t].claim = c
         /\ task'[t].busyHold = b /\ task'[t].heavyHold = h
         /\ task'[t].proc = task[t].proc /\ task'[t].job = task[t].job
         /\ task'[t].kind = task[t].kind /\ task'[t].fire = task[t].fire
<1>0. PICK s : s = With(task[t], at, c, b, h)
  OBVIOUS
<1>1. /\ s \in TaskType
      /\ s.pc = at /\ s.claim = c /\ s.busyHold = b /\ s.heavyHold = h
      /\ s.proc = task[t].proc /\ s.job = task[t].job
      /\ s.kind = task[t].kind /\ s.fire = task[t].fire
  BY <1>0, WithIs
<1>2. task' = [task EXCEPT ![t] = s]
  BY <1>0 DEF Becomes
<1> QED
  BY <1>1, <1>2 DEF TypeOK, Others

\* A task goes on: what changes is its place, its claim and its holds.
Went(t, at, c, b, h) ==
  /\ task' \in [Task -> TaskType \cup {Absent}] /\ Others(t)
  /\ task[t] \in TaskType /\ task'[t] \in TaskType
  /\ task'[t].pc = at /\ task'[t].claim = c
  /\ task'[t].busyHold = b /\ task'[t].heavyHold = h
  /\ task'[t].proc = task[t].proc /\ task'[t].job = task[t].job
  /\ task'[t].kind = task[t].kind /\ task'[t].fire = task[t].fire

LEMMA WentIs ==
  ASSUME TypeOK, NEW t \in Task, task[t] \in TaskType, NEW at \in Pcs
  PROVE  LET r == task[t] IN
         /\ \A c \in FireTime \cup {0} :
              Becomes(t, at, c, r.busyHold, r.heavyHold) => Went(t, at, c, r.busyHold, r.heavyHold)
         /\ \A b \in BOOLEAN :
              Becomes(t, at, r.claim, b, r.heavyHold) => Went(t, at, r.claim, b, r.heavyHold)
         /\ \A h \in BOOLEAN :
              Becomes(t, at, r.claim, r.busyHold, h) => Went(t, at, r.claim, r.busyHold, h)
         /\ Becomes(t, at, r.claim, r.busyHold, r.heavyHold) =>
              Went(t, at, r.claim, r.busyHold, r.heavyHold)
<1>1. PICK c0 \in FireTime \cup {0}, b0 \in BOOLEAN, h0 \in BOOLEAN :
        c0 = task[t].claim /\ b0 = task[t].busyHold /\ h0 = task[t].heavyHold
  BY FieldTypes
<1>2. ASSUME NEW c \in FireTime \cup {0}, NEW b \in BOOLEAN, NEW h \in BOOLEAN, Becomes(t, at, c, b, h)
      PROVE  Went(t, at, c, b, h)
  BY <1>2, BecomesIs DEF Went
<1>3. \A c \in FireTime \cup {0} : Becomes(t, at, c, b0, h0) => Went(t, at, c, b0, h0)
  BY <1>2
<1>4. \A b \in BOOLEAN : Becomes(t, at, c0, b, h0) => Went(t, at, c0, b, h0)
  BY <1>2
<1>5. \A h \in BOOLEAN : Becomes(t, at, c0, b0, h) => Went(t, at, c0, b0, h)
  BY <1>2
<1>6. Becomes(t, at, c0, b0, h0) => Went(t, at, c0, b0, h0)
  BY <1>2
<1> QED
  BY <1>1, <1>3, <1>4, <1>5, <1>6, Zenon

LEMMA NextsIs ==
  ASSUME TypeOK, NEW t \in Task, task[t] \in TaskType, NEW j \in Job, NEW q \in Seq(Job), NEW b \in BOOLEAN,
         Nexts(t, b, j, q)
  PROVE  /\ task' \in [Task -> TaskType \cup {Absent}] /\ task'[t] \in TaskType /\ Others(t)
         /\ task'[t].pc = "busy" /\ task'[t].claim = task[t].claim
         /\ task'[t].kind = task[t].kind /\ task'[t].fire = task[t].fire
<1>0. PICK r : r = With(task[t], "busy", task[t].claim, b, task[t].heavyHold)
  OBVIOUS
<1> DEFINE s == [r EXCEPT !.job = j, !.rest = q]
<1>1. /\ r \in TaskType /\ r.pc = "busy" /\ r.claim = task[t].claim
      /\ r.kind = task[t].kind /\ r.fire = task[t].fire
  <2>1. PICK c \in FireTime \cup {0}, h \in BOOLEAN : c = task[t].claim /\ h = task[t].heavyHold
    BY FieldTypes
  <2>2. PICK at \in Pcs : at = "busy"
    BY DEF Pcs
  <2>3. r = With(task[t], at, c, b, h)
    BY <1>0, <2>1, <2>2, Zenon
  <2>4. /\ r \in TaskType /\ r.pc = at /\ r.claim = c
        /\ r.kind = task[t].kind /\ r.fire = task[t].fire
    BY <2>3 DEF With, TaskType, Pcs
  <2> QED
    BY <2>1, <2>2, <2>4
<1>2. /\ s \in TaskType /\ s.pc = "busy" /\ s.claim = task[t].claim
      /\ s.kind = task[t].kind /\ s.fire = task[t].fire
  BY <1>1 DEF TaskType
<1>3. task' = [task EXCEPT ![t] = s]
  BY <1>0 DEF Nexts
<1> HIDE DEF s
<1> QED
  BY <1>2, <1>3 DEF TypeOK, Others

LEMMA BeginsIs ==
  ASSUME TypeOK, NEW t \in Task, NEW r, Begins(t, r)
  PROVE  /\ task' \in [Task -> TaskType \cup {Absent}] /\ Others(t)
         /\ task'[t] = r /\ r \in TaskType /\ task[t] = Absent
BY DEF Begins, NextTask, TypeOK, Others

\* Where the clock, an admin or a boot starts a task.
LEMMA StartIs ==
  ASSUME TypeOK, NEW p \in Proc, NEW j \in Job, NEW t \in Task,
         Fire(p, j, t) \/ RunNow(p, j, t) \/ CatchUp(p, j, t)
  PROVE  \E r : /\ Begins(t, r)
                /\ r.claim = 0 /\ r.pc \in {"maint", "recent", "busy"}
                /\ r.fire \in {0, slot}
                /\ r.pc = "maint" => Fire(p, j, t) /\ r.kind = "tick" /\ r.fire = slot
<1>0. PICK none \in Seq(Job) : none = <<>>
  <2>1. <<>> \in Seq(Job)
    OBVIOUS
  <2> QED
    BY <2>1
<1>1. CASE Fire(p, j, t)
  <2>1. PICK k \in {"tick", "now", "catch", "chain"}, at \in {"maint", "recent", "busy"} :
          k = "tick" /\ at = "maint"
    OBVIOUS
  <2>2. PICK r : r = NewTask(p, j, k, at, none)
    OBVIOUS
  <2>3. r \in TaskType /\ r.pc = at /\ r.kind = k /\ r.fire = slot /\ r.claim = 0
    BY <2>1, <2>2, NewTaskIs
  <2>4. NextTask(t) /\ task' = [task EXCEPT ![t] = r]
    BY <1>0, <1>1, <2>1, <2>2 DEF Fire
  <2> QED
    BY <1>1, <2>1, <2>3, <2>4 DEF Begins
<1>2. CASE RunNow(p, j, t)
  <2>1. PICK k \in {"tick", "now", "catch", "chain"}, at \in {"maint", "recent", "busy"} :
          k = "now" /\ at = "busy"
    OBVIOUS
  <2>2. PICK r : r = NewTask(p, j, k, at, none)
    OBVIOUS
  <2>3. r \in TaskType /\ r.pc = at /\ r.fire = 0 /\ r.claim = 0
    BY <2>1, <2>2, NewTaskIs
  <2>4. NextTask(t) /\ task' = [task EXCEPT ![t] = r]
    BY <1>0, <1>2, <2>1, <2>2 DEF RunNow
  <2> QED
    BY <2>1, <2>3, <2>4 DEF Begins
<1>3. CASE CatchUp(p, j, t)
  <2>1. PICK k \in {"tick", "now", "catch", "chain"}, at \in {"maint", "recent", "busy"} :
          k = "catch" /\ at = "recent"
    OBVIOUS
  <2>2. PICK r : r = NewTask(p, j, k, at, none)
    OBVIOUS
  <2>3. r \in TaskType /\ r.pc = at /\ r.fire = 0 /\ r.claim = 0
    BY <2>1, <2>2, NewTaskIs
  <2>4. NextTask(t) /\ task' = [task EXCEPT ![t] = r]
    BY <1>0, <1>3, <2>1, <2>2 DEF CatchUp
  <2> QED
    BY <2>1, <2>3, <2>4 DEF Begins
<1> QED
  BY <1>1, <1>2, <1>3

LEMMA PcStep ==
  ASSUME TypeOK, NEW t \in Task, task[t] \in TaskType, NEW at \in Pcs,
         task' = [task EXCEPT ![t].pc = at]
  PROVE  Becomes(t, at, task[t].claim, task[t].busyHold, task[t].heavyHold)
<1>1. task' = [task EXCEPT ![t] = [task[t] EXCEPT !.pc = at]]
  OBVIOUS
<1> QED
  BY <1>1, WithPc DEF Becomes

\* What a task does on its own, one case for each action.
LEMMA MaintenanceAnswerIs ==
  ASSUME Shape, NEW t \in Task, MaintenanceAnswer(t)
  PROVE  /\ task[t] \in TaskType /\ task[t].pc = "maint"
         /\ \E at \in {"done", "claim"}, c \in FireTime \cup {0} :
              /\ Went(t, at, c, task[t].busyHold, task[t].heavyHold)
              /\ at = "done" => c = task[t].claim
              /\ at = "claim" => c \in FireTimes
<1>1. task[t] \in TaskType /\ task[t].pc = "maint" /\ task[t].claim \in FireTime \cup {0}
  BY Present, FieldTypes DEF MaintenanceAnswer, At, Shape
<1>2. FireTimes \subseteq FireTime
  BY DEF FireTimes, FireTime, Late, TypeOK, Shape
<1>3. CASE task' = [task EXCEPT ![t].pc = "done"]
  <2>2. PICK at \in Pcs : at = "done"
    BY DEF Pcs
  <2>3. Went(t, at, task[t].claim, task[t].busyHold, task[t].heavyHold)
    <3>1. Becomes(t, at, task[t].claim, task[t].busyHold, task[t].heavyHold)
      BY <1>1, <1>3, <2>2, PcStep DEF Shape
    <3> QED
      BY <1>1, <3>1, WentIs DEF Shape
  <2> QED
    BY <1>1, <2>2, <2>3
<1>4. ASSUME NEW f \in FireTimes, task' = [task EXCEPT ![t].pc = "claim", ![t].claim = f]
      PROVE  Went(t, "claim", f, task[t].busyHold, task[t].heavyHold)
  <2>1. task' = [task EXCEPT ![t] = [task[t] EXCEPT !.pc = "claim", !.claim = f]]
    BY <1>1, <1>4 DEF Shape, TypeOK, TaskType
  <2>2. PICK at \in Pcs : at = "claim"
    BY DEF Pcs
  <2> QED
    <3>1. Becomes(t, at, f, task[t].busyHold, task[t].heavyHold)
      BY <1>1, <1>2, <2>1, <2>2, WithClaim DEF Becomes
    <3>2. Went(t, at, f, task[t].busyHold, task[t].heavyHold)
      BY <1>1, <1>2, <3>1, WentIs DEF Shape
    <3> QED
      BY <2>2, <3>2
<1> QED
  BY <1>1, <1>2, <1>3, <1>4 DEF MaintenanceAnswer

LEMMA RecentAnswerIs ==
  ASSUME Shape, NEW t \in Task, RecentAnswer(t)
  PROVE  /\ task[t] \in TaskType /\ task[t].pc = "recent"
         /\ \E at \in {"done", "busy"} :
              Went(t, at, task[t].claim, task[t].busyHold, task[t].heavyHold)
<1>1. task[t] \in TaskType /\ task[t].pc = "recent"
  BY Present DEF RecentAnswer, At, Shape
<1>2. PICK at \in {"done", "busy"} : task' = [task EXCEPT ![t].pc = at]
  BY DEF RecentAnswer
<1>3. at \in Pcs
  BY DEF Pcs
<1>4. Becomes(t, at, task[t].claim, task[t].busyHold, task[t].heavyHold)
  BY <1>1, <1>2, <1>3, PcStep DEF Shape
<1>5. Went(t, at, task[t].claim, task[t].busyHold, task[t].heavyHold)
  BY <1>1, <1>3, <1>4, WentIs DEF Shape
<1> QED
  BY <1>1, <1>5

LEMMA ClaimRunIs ==
  ASSUME Shape, NEW t \in Task, ClaimRun(t) \/ ClaimRunFails(t)
  PROVE  /\ task[t] \in TaskType /\ task[t].pc = "claim"
         /\ \E at \in {"done", "busy"}, c \in FireTime \cup {0} :
              /\ Went(t, at, c, task[t].busyHold, task[t].heavyHold)
              /\ at = "done" => c = 0
              /\ at = "busy" => /\ c = task[t].claim
                                /\ <<task[t].job, c>> \notin runKey /\ <<task[t].job, c>> \in runKey'
<1>1. task[t] \in TaskType /\ task[t].pc = "claim" /\ task[t].claim \in FireTime \cup {0}
  BY Present, FieldTypes DEF ClaimRun, ClaimRunFails, At, Shape
<1>2. CASE task' = [task EXCEPT ![t].pc = "done", ![t].claim = 0]
  <2>1. task' = [task EXCEPT ![t] = [task[t] EXCEPT !.pc = "done", !.claim = 0]]
    BY <1>1, <1>2 DEF Shape, TypeOK, TaskType
  <2>2. PICK at \in Pcs, c \in FireTime \cup {0} : at = "done" /\ c = 0
    BY DEF Pcs
  <2>3. Went(t, at, c, task[t].busyHold, task[t].heavyHold)
    <3>1. Becomes(t, at, c, task[t].busyHold, task[t].heavyHold)
      BY <1>1, <2>1, <2>2, WithClaim DEF Becomes
    <3> QED
      BY <1>1, <3>1, WentIs DEF Shape
  <2> QED
    BY <1>1, <2>2, <2>3
<1>3. CASE /\ task' = [task EXCEPT ![t].pc = "busy"]
           /\ <<task[t].job, task[t].claim>> \notin runKey /\ <<task[t].job, task[t].claim>> \in runKey'
  <2>1. PICK at \in Pcs : at = "busy"
    BY DEF Pcs
  <2>2. Went(t, at, task[t].claim, task[t].busyHold, task[t].heavyHold)
    <3>1. Becomes(t, at, task[t].claim, task[t].busyHold, task[t].heavyHold)
      BY <1>1, <1>3, <2>1, PcStep DEF Shape
    <3> QED
      BY <1>1, <3>1, WentIs DEF Shape
  <2> QED
    BY <1>1, <1>3, <2>1, <2>2
<1> QED
  BY <1>2, <1>3 DEF ClaimRun, ClaimRunFails

LEMMA BusyStep ==
  ASSUME TypeOK, NEW t \in Task, task[t] \in TaskType, NEW at \in Pcs, NEW b \in BOOLEAN,
         task' = [task EXCEPT ![t].pc = at, ![t].busyHold = b]
  PROVE  Becomes(t, at, task[t].claim, b, task[t].heavyHold)
<1>1. task' = [task EXCEPT ![t] = [task[t] EXCEPT !.pc = at, !.busyHold = b]]
  BY DEF TypeOK, TaskType
<1>2. [task[t] EXCEPT !.pc = at, !.busyHold = b] = With(task[t], at, task[t].claim, b, task[t].heavyHold)
  BY WithBusy
<1> QED
  BY <1>1, <1>2, Zenon DEF Becomes

LEMMA HeavyStep ==
  ASSUME TypeOK, NEW t \in Task, task[t] \in TaskType, NEW at \in Pcs, NEW h \in BOOLEAN,
         task' = [task EXCEPT ![t].pc = at, ![t].heavyHold = h]
  PROVE  Becomes(t, at, task[t].claim, task[t].busyHold, h)
<1>1. task' = [task EXCEPT ![t] = [task[t] EXCEPT !.pc = at, !.heavyHold = h]]
  BY DEF TypeOK, TaskType
<1>2. [task[t] EXCEPT !.pc = at, !.heavyHold = h] = With(task[t], at, task[t].claim, task[t].busyHold, h)
  BY WithHeavy
<1> QED
  BY <1>1, <1>2, Zenon DEF Becomes

\* A run that is over or was refused.
Leaves(t, b) ==
  \/ Becomes(t, "done", task[t].claim, b, task[t].heavyHold)
  \/ task[t].kind = "chain" /\ \E j \in Job, q \in Seq(Job) : Nexts(t, b, j, q)

LEMMA LeavesIs ==
  ASSUME TypeOK, NEW t \in Task, task[t] \in TaskType, NEW b \in BOOLEAN,
         task' = [task EXCEPT ![t] = AfterRun([task[t] EXCEPT !.busyHold = b])]
  PROVE  Leaves(t, b)
<1>1. CASE AfterRun([task[t] EXCEPT !.busyHold = b])
             = With(task[t], "done", task[t].claim, b, task[t].heavyHold)
  BY <1>1, Zenon DEF Leaves, Becomes
<1>2. CASE /\ task[t].kind = "chain"
           /\ \E j \in Job, q \in Seq(Job) :
                 AfterRun([task[t] EXCEPT !.busyHold = b])
                   = [With(task[t], "busy", task[t].claim, b, task[t].heavyHold) EXCEPT !.job = j, !.rest = q]
  BY <1>2, Zenon DEF Leaves, Nexts
<1> QED
  BY <1>1, <1>2, AfterRunIs, Zenon

LEMMA LeftIs ==
  ASSUME TypeOK, NEW t \in Task, task[t] \in TaskType, NEW b \in BOOLEAN, Leaves(t, b)
  PROVE  /\ Others(t) /\ task' \in [Task -> TaskType \cup {Absent}]
         /\ task'[t] \in TaskType /\ task'[t].pc \in {"busy", "done"}
         /\ task'[t].claim = task[t].claim /\ task'[t].kind = task[t].kind
         /\ task'[t].fire = task[t].fire
         /\ task'[t].kind = "chain" \/ task'[t].job = task[t].job
<1>1. CASE Becomes(t, "done", task[t].claim, b, task[t].heavyHold)
  <2>1. PICK at \in Pcs : at = "done"
    BY DEF Pcs
  <2>2. Becomes(t, at, task[t].claim, b, task[t].heavyHold)
    BY <1>1, <2>1
  <2>3. Went(t, at, task[t].claim, b, task[t].heavyHold)
    BY <2>2, WentIs
  <2> QED
    BY <2>1, <2>3 DEF Went
<1>2. CASE task[t].kind = "chain" /\ \E j \in Job, q \in Seq(Job) : Nexts(t, b, j, q)
  BY <1>2, NextsIs
<1> QED
  BY <1>1, <1>2 DEF Leaves

\* An unsafe job is let through with its key in hand.
LEMMA ClaimUnsafeIs ==
  ASSUME Shape, NEW t \in Task, ClaimUnsafe(t)
  PROVE  /\ task[t] \in TaskType /\ task[t].pc = "busy"
         /\ \/ /\ \E b \in BOOLEAN :
                    /\ Went(t, "turn", task[t].claim, b, task[t].heavyHold)
                    /\ task[t].job \in Unsafe => b /\ busyKey[task[t].job] = None /\ busyKey'[task[t].job] = t
               /\ chainQ' = IF task[t].kind = "tick" /\ task[t].job \in Heavy
                            THEN [chainQ EXCEPT ![task[t].proc] = Append(@, t)] ELSE chainQ
               /\ busyKey' \in {busyKey, [busyKey EXCEPT ![task[t].job] = t]}
               /\ \A j \in Job : busyKey[j] # None => busyKey'[j] = busyKey[j]
            \/ /\ Leaves(t, task[t].busyHold) /\ UNCHANGED chainQ
               /\ busyKey' \in {busyKey, [busyKey EXCEPT ![task[t].job] = t]}
               /\ \A j \in Job : busyKey[j] # None => busyKey'[j] = busyKey[j]
<1>1. task[t] \in TaskType /\ task[t].pc = "busy" /\ task[t].busyHold \in BOOLEAN
      /\ task[t].job \in Job
  BY Present, FieldTypes DEF ClaimUnsafe, At, Shape
<1>2. ASSUME NEW b \in BOOLEAN, TakeTurn(t, b)
      PROVE  /\ Went(t, "turn", task[t].claim, b, task[t].heavyHold)
             /\ chainQ' = IF task[t].kind = "tick" /\ task[t].job \in Heavy
                          THEN [chainQ EXCEPT ![task[t].proc] = Append(@, t)] ELSE chainQ
  <2>1. PICK at \in Pcs : at = "turn"
    BY DEF Pcs
  <2>2. task' = [task EXCEPT ![t].pc = at, ![t].busyHold = b]
    BY <1>2, <2>1 DEF TakeTurn
  <2>3. Went(t, at, task[t].claim, b, task[t].heavyHold)
    <3>1. Becomes(t, at, task[t].claim, b, task[t].heavyHold)
      BY <1>1, <2>2, BusyStep DEF Shape
    <3> QED
      BY <1>1, <3>1, WentIs DEF Shape
  <2> QED
    BY <1>2, <2>1, <2>3 DEF TakeTurn
<1>3. PICK yes \in BOOLEAN, no \in BOOLEAN : yes = TRUE /\ no = FALSE
  OBVIOUS
<1>4. CASE task[t].job \notin Unsafe /\ TakeTurn(t, FALSE) /\ UNCHANGED busyKey
  <2>1. TakeTurn(t, no)
    BY <1>3, <1>4, Zenon
  <2> QED
    BY <1>1, <1>2, <1>4, <2>1
<1>5. CASE /\ task[t].job \in Unsafe /\ busyKey[task[t].job] = None
           /\ busyKey' = [busyKey EXCEPT ![task[t].job] = t]
           /\ TakeTurn(t, TRUE)
  <2>1. TakeTurn(t, yes)
    BY <1>3, <1>5, Zenon
  <2>2. /\ Went(t, "turn", task[t].claim, yes, task[t].heavyHold)
        /\ chainQ' = IF task[t].kind = "tick" /\ task[t].job \in Heavy
                     THEN [chainQ EXCEPT ![task[t].proc] = Append(@, t)] ELSE chainQ
    BY <1>2, <2>1
  <2>3. busyKey'[task[t].job] = t /\ \A j \in Job : busyKey[j] # None => busyKey'[j] = busyKey[j]
    BY <1>1, <1>5 DEF Shape, TypeOK
  <2>4. yes
    BY <1>3
  <2> QED
    BY <1>1, <1>5, <2>2, <2>3, <2>4, Zenon
<1>6. CASE /\ task' = [task EXCEPT ![t] = AfterRun(@)]
           /\ busyKey' \in {busyKey, IF OnCut(t) /\ busyKey[task[t].job] = None
                                     THEN [busyKey EXCEPT ![task[t].job] = t] ELSE busyKey}
           /\ UNCHANGED chainQ
  <2>1. AfterRun(task[t]) = AfterRun([task[t] EXCEPT !.busyHold = task[t].busyHold])
    BY <1>1, AfterRunPlain
  <2>2. task' = [task EXCEPT ![t] = AfterRun([task[t] EXCEPT !.busyHold = task[t].busyHold])]
    BY <1>6, <2>1, Zenon
  <2>3. Leaves(t, task[t].busyHold)
    BY <1>1, <2>2, LeavesIs, Zenon DEF Shape
  <2>4. /\ busyKey' \in {busyKey, [busyKey EXCEPT ![task[t].job] = t]}
        /\ \A j \in Job : busyKey[j] # None => busyKey'[j] = busyKey[j]
    BY <1>1, <1>6 DEF Shape, TypeOK
  <2> QED
    BY <1>1, <1>6, <2>3, <2>4
<1> QED
  BY <1>4, <1>5, <1>6 DEF ClaimUnsafe

\* A heavy run has the slot in hand, unless Redis is out of reach or it has
\* waited for long enough.
LEMMA BeginIs ==
  ASSUME Shape, NEW t \in Task, Begin(t)
  PROVE  /\ task[t] \in TaskType /\ task[t].pc = "turn" /\ MyTurn(t)
         /\ \E h \in BOOLEAN :
              /\ Went(t, "run", task[t].claim, task[t].busyHold, h)
              /\ task[t].job \in Heavy =>
                   \/ h /\ heavyKey = None /\ heavyKey' = t
                   \/ OnCut(t) /\ UNCHANGED heavyKey
                   \/ LongWait /\ UNCHANGED heavyKey
              /\ task[t].job \notin Heavy => UNCHANGED heavyKey
<1>1. task[t] \in TaskType /\ task[t].pc = "turn" /\ MyTurn(t)
  BY Present DEF Begin, At, Shape
<1>2. ASSUME NEW h \in BOOLEAN, Go(t, h)
      PROVE  Went(t, "run", task[t].claim, task[t].busyHold, h)
  <2>1. PICK at \in Pcs : at = "run"
    BY DEF Pcs
  <2>2. task' = [task EXCEPT ![t].pc = at, ![t].heavyHold = h]
    BY <1>2, <2>1 DEF Go
  <2>3. Went(t, at, task[t].claim, task[t].busyHold, h)
    <3>1. Becomes(t, at, task[t].claim, task[t].busyHold, h)
      BY <1>1, <2>2, HeavyStep DEF Shape
    <3> QED
      BY <1>1, <3>1, WentIs DEF Shape
  <2> QED
    BY <2>1, <2>3
<1>3. PICK yes \in BOOLEAN, no \in BOOLEAN : yes = TRUE /\ no = FALSE
  OBVIOUS
<1>4. CASE task[t].job \in Heavy /\ heavyKey = None /\ heavyKey' = t /\ Go(t, TRUE)
  <2>1. yes /\ Go(t, yes)
    BY <1>3, <1>4, Zenon
  <2> QED
    BY <1>1, <1>2, <1>4, <2>1, Zenon
<1>5. CASE Go(t, FALSE) /\ UNCHANGED heavyKey /\ (task[t].job \in Heavy => OnCut(t) \/ LongWait)
  <2>1. Go(t, no)
    BY <1>3, <1>5, Zenon
  <2> QED
    BY <1>1, <1>2, <1>5, <2>1, Zenon
<1> QED
  BY <1>4, <1>5 DEF Begin

\* The end of a run; the jobs chained after it begin as a task of their own.
LEMMA EndIs ==
  ASSUME Shape, NEW t \in Task, Complete(t) \/ Fail(t)
  PROVE  /\ task[t] \in TaskType /\ task[t].pc = "run"
         /\ \/ Went(t, "freeHeavy", task[t].claim, task[t].busyHold, task[t].heavyHold)
            \/ \E u \in Task, r \in TaskType :
                 /\ u # t /\ task[u] = Absent /\ r.pc = "busy" /\ r.claim = 0 /\ r.fire = 0
                 /\ task' = [task EXCEPT ![t].pc = "freeHeavy", ![u] = r]
<1>1. task[t] \in TaskType /\ task[t].pc = "run" /\ task[t].job \in Job /\ task[t].proc \in Proc
  BY Present, FieldTypes DEF Complete, Fail, At, Shape
<1>2. CASE task' = [task EXCEPT ![t].pc = "freeHeavy"]
  <2>1. PICK at \in Pcs : at = "freeHeavy"
    BY DEF Pcs
  <2>2. Went(t, at, task[t].claim, task[t].busyHold, task[t].heavyHold)
    <3>1. Becomes(t, at, task[t].claim, task[t].busyHold, task[t].heavyHold)
      BY <1>1, <1>2, <2>1, PcStep DEF Shape
    <3> QED
      BY <1>1, <3>1, WentIs DEF Shape
  <2> QED
    BY <1>1, <2>1, <2>2
<1>3. CASE /\ Kids[task[t].job] # <<>>
           /\ \E u \in Task :
                /\ NextTask(u)
                /\ task' = [task EXCEPT ![t].pc = "freeHeavy",
                      ![u] = NewTask(task[t].proc, Head(Kids[task[t].job]), "chain", "busy",
                                     Tail(Kids[task[t].job]))]
  <2>1. PICK u \in Task :
          /\ NextTask(u)
          /\ task' = [task EXCEPT ![t].pc = "freeHeavy",
                ![u] = NewTask(task[t].proc, Head(Kids[task[t].job]), "chain", "busy",
                               Tail(Kids[task[t].job]))]
    BY <1>3
  <2>2. PICK q \in Seq(Job) : q = Kids[task[t].job] /\ q # <<>>
    BY <1>1, <1>3, JobsAssumption
  <2>3. PICK j \in Job, rest \in Seq(Job) : j = Head(q) /\ rest = Tail(q)
    <3>1. Head(q) \in Job /\ Tail(q) \in Seq(Job)
      BY <2>2
    <3> QED
      BY <3>1
  <2>4. PICK k \in {"tick", "now", "catch", "chain"}, at \in {"maint", "recent", "busy"} :
          k = "chain" /\ at = "busy"
    OBVIOUS
  <2>5. PICK r : r = NewTask(task[t].proc, j, k, at, rest)
    OBVIOUS
  <2>6. r \in TaskType /\ r.pc = "busy" /\ r.claim = 0 /\ r.fire = 0
    BY <1>1, <2>4, <2>5, NewTaskIs DEF Shape
  <2>7. task' = [task EXCEPT ![t].pc = "freeHeavy", ![u] = r]
    BY <2>1, <2>2, <2>3, <2>4, <2>5
  <2>8. u # t /\ task[u] = Absent
    BY <1>1, <2>1, AbsentApart DEF NextTask
  <2> QED
    BY <1>1, <2>6, <2>7, <2>8
<1> QED
  BY <1>2, <1>3 DEF Complete, Fail

\* Two tasks at once.
LEMMA ForkIs ==
  ASSUME TypeOK, NEW t \in Task, NEW u \in Task, NEW r \in TaskType, task[t] \in TaskType, u # t,
         task' = [task EXCEPT ![t].pc = "freeHeavy", ![u] = r]
  PROVE  /\ task' \in [Task -> TaskType \cup {Absent}] /\ task'[u] = r /\ task'[t] \in TaskType
         /\ \A v \in Task : v # t /\ v # u => task'[v] = task[v]
         /\ task'[t].pc = "freeHeavy" /\ task'[t].claim = task[t].claim
         /\ task'[t].busyHold = task[t].busyHold /\ task'[t].heavyHold = task[t].heavyHold
         /\ task'[t].proc = task[t].proc /\ task'[t].job = task[t].job
         /\ task'[t].kind = task[t].kind /\ task'[t].fire = task[t].fire
<1>1. PICK at \in Pcs : at = "freeHeavy"
  BY DEF Pcs
<1>2. PICK s : s = [task[t] EXCEPT !.pc = at]
  OBVIOUS
<1>3. /\ s \in TaskType /\ s.pc = at /\ s.claim = task[t].claim
      /\ s.busyHold = task[t].busyHold /\ s.heavyHold = task[t].heavyHold
      /\ s.proc = task[t].proc /\ s.job = task[t].job
      /\ s.kind = task[t].kind /\ s.fire = task[t].fire
  BY <1>2 DEF TaskType, Pcs
<1>4. task' = [task EXCEPT ![t] = s, ![u] = r]
  BY <1>1, <1>2
<1> QED
  BY <1>1, <1>3, <1>4 DEF TypeOK

LEMMA FreeHeavyIs ==
  ASSUME Shape, NEW t \in Task, FreeHeavy(t)
  PROVE  /\ task[t] \in TaskType /\ task[t].pc = "freeHeavy"
         /\ \E h \in BOOLEAN : Went(t, "freeBusy", task[t].claim, task[t].busyHold, h)
         /\ heavyKey' = heavyKey \/ (heavyKey = t /\ heavyKey' = None)
<1>1. task[t] \in TaskType /\ task[t].pc = "freeHeavy"
  BY Present DEF FreeHeavy, At, Shape
<1>2. PICK no \in BOOLEAN : no = FALSE
  OBVIOUS
<1>3. PICK at \in Pcs : at = "freeBusy"
  BY DEF Pcs
<1>4. task' = [task EXCEPT ![t].pc = at, ![t].heavyHold = no]
  BY <1>2, <1>3, Zenon DEF FreeHeavy
<1>5. Went(t, at, task[t].claim, task[t].busyHold, no)
  <2>1. Becomes(t, at, task[t].claim, task[t].busyHold, no)
    BY <1>1, <1>4, HeavyStep DEF Shape
  <2> QED
    BY <1>1, <2>1, WentIs DEF Shape
<1>6. heavyKey' = heavyKey \/ (heavyKey = t /\ heavyKey' = None)
  BY DEF FreeHeavy, Released
<1> QED
  BY <1>1, <1>3, <1>5, <1>6

LEMMA FreeBusyIs ==
  ASSUME Shape, NEW t \in Task, FreeBusy(t)
  PROVE  /\ task[t] \in TaskType /\ task[t].pc = "freeBusy"
         /\ \E b \in BOOLEAN : Leaves(t, b)
         /\ busyKey' \in [Job -> Task \cup {None}]
         /\ \A j \in Job : busyKey'[j] = busyKey[j] \/ (busyKey[j] = t /\ busyKey'[j] = None)
<1>1. task[t] \in TaskType /\ task[t].pc = "freeBusy" /\ task[t].job \in Job
  BY Present, FieldTypes DEF FreeBusy, At, Shape
<1>2. PICK no \in BOOLEAN : no = FALSE
  OBVIOUS
<1>3. task' = [task EXCEPT ![t] = AfterRun([task[t] EXCEPT !.busyHold = no])]
  BY <1>2, Zenon DEF FreeBusy
<1>4. Leaves(t, no)
  BY <1>1, <1>3, LeavesIs DEF Shape
<1>5. /\ busyKey' \in [Job -> Task \cup {None}]
      /\ \A j \in Job : busyKey'[j] = busyKey[j] \/ (busyKey[j] = t /\ busyKey'[j] = None)
  BY <1>1 DEF FreeBusy, Released, Shape, TypeOK
<1> QED
  BY <1>1, <1>4, <1>5

LEMMA DieIs ==
  ASSUME Shape, NEW p \in Proc, Die(p)
  PROVE  /\ task' \in [Task -> TaskType \cup {Absent}]
         /\ \A t \in Task :
              \/ task'[t] = task[t]
              \/ /\ task[t] \in TaskType /\ task'[t] \in TaskType /\ task'[t].pc = "dead"
                 /\ task'[t].claim = (IF task[t].pc = "claim" THEN 0 ELSE task[t].claim)
                 /\ task'[t].job = task[t].job
                 /\ task'[t].kind = task[t].kind /\ task'[t].fire = task[t].fire
<1>1. ASSUME NEW t \in Task, Live(t) /\ task[t].proc = p
      PROVE  /\ task[t] \in TaskType /\ task'[t] \in TaskType /\ task'[t].pc = "dead"
             /\ task'[t].claim = (IF task[t].pc = "claim" THEN 0 ELSE task[t].claim)
             /\ task'[t].job = task[t].job
             /\ task'[t].kind = task[t].kind /\ task'[t].fire = task[t].fire
  <2>1. task[t] \in TaskType
    BY <1>1, Present DEF Live, Over, Shape
  <2>2. task'[t] = [task[t] EXCEPT !.pc = "dead",
                                  !.claim = IF task[t].pc = "claim" THEN 0 ELSE @]
    BY <1>1 DEF Die, At
  <2> QED
    BY <2>1, <2>2 DEF TaskType
<1>2. ASSUME NEW t \in Task, ~(Live(t) /\ task[t].proc = p)
      PROVE  task'[t] = task[t]
  BY <1>2 DEF Die
<1>3. DOMAIN task' = Task /\ task' = [t \in Task |-> task'[t]]
  BY DEF Die
<1>4. \A t \in Task : task'[t] \in TaskType \cup {Absent}
  BY <1>1, <1>2 DEF Shape, TypeOK
<1> QED
  BY <1>1, <1>2, <1>3, <1>4

-----------------------------------------------------------------------------
(* The chain of heavy runs.                                                *)

LEMMA AppendIs ==
  ASSUME NEW q \in Seq(Task), NEW t \in Task
  PROVE  /\ Append(q, t) \in Seq(Task) /\ Waits(Append(q, t), t)
         /\ \A u \in Task : Waits(q, u) => Waits(Append(q, t), u) /\ Head(Append(q, t)) = Head(q)
<1>1. /\ Append(q, t) \in Seq(Task) /\ Len(q) \in Nat /\ Len(Append(q, t)) = Len(q) + 1
      /\ Append(q, t)[Len(q) + 1] = t
      /\ \A i \in 1..Len(q) : Append(q, t)[i] = q[i]
  OBVIOUS
<1>2. Waits(Append(q, t), t)
  <2>1. Len(q) + 1 \in 1..Len(Append(q, t))
    BY <1>1
  <2> QED
    BY <1>1, <2>1 DEF Waits
<1>3. ASSUME NEW u \in Task, Waits(q, u)
      PROVE  Waits(Append(q, t), u) /\ Head(Append(q, t)) = Head(q)
  <2>1. PICK i \in 1..Len(q) : q[i] = u
    BY <1>3 DEF Waits
  <2>2. i \in 1..Len(Append(q, t)) /\ Append(q, t)[i] = u
    BY <1>1, <2>1
  <2>3. Len(q) >= 1 /\ Append(q, t)[1] = q[1]
    BY <1>1, <2>1
  <2>4. Head(q) = q[1] /\ Head(Append(q, t)) = Append(q, t)[1]
    BY <1>1, <2>3
  <2> QED
    BY <2>2, <2>3, <2>4 DEF Waits
<1> QED
  BY <1>1, <1>2, <1>3

LEMMA TailIs ==
  ASSUME NEW q \in Seq(Task), NEW t \in Task, Waits(q, t), Head(q) = t
  PROVE  /\ Tail(q) \in Seq(Task)
         /\ \A u \in Task : Waits(q, u) /\ u # t => Waits(Tail(q), u)
<1>1. Len(q) \in Nat /\ Len(q) >= 1
  BY DEF Waits
<1>2. /\ Tail(q) \in Seq(Task) /\ Len(Tail(q)) = Len(q) - 1 /\ q[1] = t
      /\ \A i \in 1..(Len(q) - 1) : Tail(q)[i] = q[i + 1]
  BY <1>1
<1>3. ASSUME NEW u \in Task, Waits(q, u), u # t PROVE Waits(Tail(q), u)
  <2>1. PICK i \in 1..Len(q) : q[i] = u
    BY <1>3 DEF Waits
  <2>2. i # 1
    BY <1>2, <1>3, <2>1
  <2>3. i - 1 \in 1..(Len(q) - 1) /\ (i - 1) + 1 = i
    BY <1>1, <2>1, <2>2
  <2>4. Tail(q)[i - 1] = u
    BY <1>2, <2>1, <2>3
  <2> QED
    BY <1>2, <2>3, <2>4 DEF Waits
<1> QED
  BY <1>2, <1>3

\* Nobody joins or leaves a chain.
LEMMA SameChains ==
  ASSUME InTurn, UNCHANGED chainQ,
         \A u \in Task : Queues(u)' => /\ Queues(u) /\ task'[u].proc = task[u].proc
                                       /\ task'[u].pc # "turn" => task[u].pc # "turn"
  PROVE  InTurn'
BY DEF InTurn

LEMMA InTurnHolds ==
  ASSUME Shape, [Next]_vars
  PROVE  InTurn'
<1> USE DEF Shape
<1>0. UNCHANGED vars => InTurn'
  BY DEF vars, InTurn, Queues
<1>1. ASSUME NEW t \in Task, Others(t), UNCHANGED chainQ,
             task'[t].pc \in {"maint", "recent", "claim", "busy", "freeBusy", "done", "dead"}
      PROVE  InTurn'
  <2>1. \A u \in Task : Queues(u)' => Queues(u) /\ task'[u] = task[u]
    BY <1>1 DEF Queues, Others
  <2> QED
    BY <1>1, <2>1, SameChains
<1>2. ASSUME NEW p \in Proc, NEW j \in Job, NEW t \in Task,
             Fire(p, j, t) \/ RunNow(p, j, t) \/ CatchUp(p, j, t)
      PROVE  InTurn'
  <2>1. PICK r : Begins(t, r) /\ r.pc \in {"maint", "recent", "busy"}
    BY <1>2, StartIs
  <2>2. Others(t) /\ task'[t] = r
    BY <2>1, BeginsIs
  <2>3. UNCHANGED chainQ
    BY <1>2 DEF Fire, RunNow, CatchUp
  <2> QED
    BY <1>1, <2>1, <2>2, <2>3
<1>3. ASSUME NEW t \in Task, MaintenanceAnswer(t) PROVE InTurn'
  BY <1>1, <1>3, MaintenanceAnswerIs DEF MaintenanceAnswer, Went
<1>4. ASSUME NEW t \in Task, RecentAnswer(t) PROVE InTurn'
  BY <1>1, <1>4, RecentAnswerIs DEF RecentAnswer, Went
<1>5. ASSUME NEW t \in Task, ClaimRun(t) \/ ClaimRunFails(t) PROVE InTurn'
  BY <1>1, <1>5, ClaimRunIs DEF ClaimRun, ClaimRunFails, Went
<1>6. ASSUME NEW t \in Task, ClaimUnsafe(t) PROVE InTurn'
  <2>0. task[t] \in TaskType /\ task[t].busyHold \in BOOLEAN /\ task[t].proc \in Proc
    BY <1>6, ClaimUnsafeIs, FieldTypes
  <2>1. CASE Leaves(t, task[t].busyHold) /\ UNCHANGED chainQ
    <3>1. Others(t) /\ task'[t].pc \in {"busy", "done"}
      BY <2>0, <2>1, LeftIs
    <3> QED
      BY <1>1, <2>1, <3>1
  <2>2. ASSUME NEW b \in BOOLEAN, Went(t, "turn", task[t].claim, b, task[t].heavyHold),
               chainQ' = IF task[t].kind = "tick" /\ task[t].job \in Heavy
                         THEN [chainQ EXCEPT ![task[t].proc] = Append(@, t)] ELSE chainQ
        PROVE  InTurn'
    <3>0. task[t].pc = "busy"
      BY <1>6, ClaimUnsafeIs
    <3>1. \A u \in Task : Queues(u)' =>
            \/ u # t /\ Queues(u) /\ task'[u] = task[u]
            \/ u = t /\ task'[u].pc = "turn" /\ task'[u].proc = task[t].proc
                     /\ task[t].kind = "tick" /\ task[t].job \in Heavy
      BY <2>2 DEF Queues, Went, Others
    <3>2. CASE task[t].kind = "tick" /\ task[t].job \in Heavy
      <4> DEFINE p == task[t].proc
                 q == chainQ[p]
      <4>1. q \in Seq(Task)
        BY <2>0 DEF TypeOK
      <4>2. /\ Waits(Append(q, t), t)
            /\ \A u \in Task : Waits(q, u) => Waits(Append(q, t), u) /\ Head(Append(q, t)) = Head(q)
        BY <4>1, AppendIs
      <4>3. chainQ'[p] = Append(q, t) /\ \A o \in Proc : o # p => chainQ'[o] = chainQ[o]
        BY <2>0, <2>2, <3>2 DEF TypeOK
      <4> SUFFICES ASSUME NEW u \in Task, Queues(u)'
                   PROVE  /\ Waits(chainQ'[task'[u].proc], u)
                          /\ task'[u].pc # "turn" => Head(chainQ'[task'[u].proc]) = u
        BY DEF InTurn
      <4>4. CASE u = t
        BY <3>1, <4>2, <4>3, <4>4
      <4>5. CASE u # t
        <5>1. /\ Queues(u) /\ task'[u] = task[u] /\ Waits(chainQ[task[u].proc], u)
              /\ task[u].pc # "turn" => Head(chainQ[task[u].proc]) = u
          BY <3>1, <4>5 DEF InTurn
        <5>2. task[u].proc \in Proc
          <6>1. task[u] \in TaskType
            BY <5>1, Present DEF Queues
          <6> QED
            BY <6>1, FieldTypes
        <5>3. CASE task[u].proc = p
          BY <4>2, <4>3, <5>1, <5>3
        <5>4. CASE task[u].proc # p
          BY <4>3, <5>1, <5>2, <5>4
        <5> QED
          BY <5>3, <5>4
      <4> QED
        BY <4>4, <4>5
    <3>3. CASE ~(task[t].kind = "tick" /\ task[t].job \in Heavy)
      <4>1. \A u \in Task : Queues(u)' => Queues(u) /\ task'[u] = task[u]
        BY <3>1, <3>3
      <4> QED
        BY <2>2, <3>3, <4>1, SameChains
    <3> QED
      BY <3>2, <3>3
  <2> QED
    BY <1>6, <2>1, <2>2, ClaimUnsafeIs
<1>7. ASSUME NEW t \in Task, Begin(t) PROVE InTurn'
  <2>1. /\ task[t].pc = "turn" /\ MyTurn(t) /\ Others(t) /\ task'[t].pc = "run"
        /\ task'[t].proc = task[t].proc /\ task'[t].job = task[t].job
        /\ task'[t].kind = task[t].kind
    BY <1>7, BeginIs DEF Went
  <2>2. UNCHANGED chainQ
    BY <1>7 DEF Begin
  <2> SUFFICES ASSUME NEW u \in Task, Queues(u)'
               PROVE  /\ Waits(chainQ'[task'[u].proc], u)
                      /\ task'[u].pc # "turn" => Head(chainQ'[task'[u].proc]) = u
    BY DEF InTurn
  <2>3. CASE u = t
    <3>1. Queues(t)
      BY <2>1, <2>3 DEF Queues
    <3>2. Waits(chainQ[task[t].proc], t) /\ Head(chainQ[task[t].proc]) = t
      BY <2>1, <3>1 DEF InTurn, MyTurn, Queues
    <3> QED
      BY <2>1, <2>2, <2>3, <3>2
  <2>4. CASE u # t
    BY <2>1, <2>2, <2>4 DEF InTurn, Others, Queues
  <2> QED
    BY <2>3, <2>4
<1>8. ASSUME NEW t \in Task, Complete(t) \/ Fail(t) PROVE InTurn'
  <2>1. \A u \in Task : Queues(u)' => /\ Queues(u) /\ task'[u].proc = task[u].proc
                                      /\ task'[u].pc # "turn" => task[u].pc # "turn"
    <3>1. CASE Went(t, "freeHeavy", task[t].claim, task[t].busyHold, task[t].heavyHold)
      BY <1>8, <3>1, EndIs DEF Went, Others, Queues
    <3>2. ASSUME NEW u \in Task, NEW r \in TaskType, u # t, r.pc = "busy",
                 task' = [task EXCEPT ![t].pc = "freeHeavy", ![u] = r]
          PROVE  \A v \in Task : Queues(v)' => /\ Queues(v) /\ task'[v].proc = task[v].proc
                                               /\ task'[v].pc # "turn" => task[v].pc # "turn"
      <4>0. task[t] \in TaskType /\ task[t].pc = "run"
        BY <1>8, EndIs
      <4>1. /\ task'[u] = r /\ task'[t].pc = "freeHeavy"
            /\ \A v \in Task : v # t /\ v # u => task'[v] = task[v]
            /\ task'[t].proc = task[t].proc /\ task'[t].job = task[t].job
            /\ task'[t].kind = task[t].kind
        BY <3>2, <4>0, ForkIs
      <4> QED
        BY <3>2, <4>0, <4>1 DEF Queues
    <3> QED
      BY <1>8, <3>1, <3>2, EndIs
  <2>2. UNCHANGED chainQ
    BY <1>8 DEF Complete, Fail
  <2> QED
    BY <2>1, <2>2, SameChains
<1>9. ASSUME NEW t \in Task, FreeHeavy(t) PROVE InTurn'
  <2>1. task[t] \in TaskType /\ task[t].pc = "freeHeavy" /\ Others(t) /\ task'[t].pc = "freeBusy"
    BY <1>9, FreeHeavyIs DEF Went
  <2>2. \A u \in Task : Queues(u)' => u # t /\ Queues(u) /\ task'[u] = task[u]
    BY <2>1 DEF Queues, Others
  <2>3. CASE Queues(t)
    <3> DEFINE p == task[t].proc
               q == chainQ[p]
    <3>1. p \in Proc /\ q \in Seq(Task)
      BY <2>1, FieldTypes DEF TypeOK
    <3>2. Waits(q, t) /\ Head(q) = t
      BY <2>1, <2>3 DEF InTurn
    <3>3. \A u \in Task : Waits(q, u) /\ u # t => Waits(Tail(q), u)
      BY <3>1, <3>2, TailIs
    <3>4. chainQ'[p] = Tail(q) /\ \A o \in Proc : o # p => chainQ'[o] = chainQ[o]
      BY <1>9, <2>3, <3>1 DEF FreeHeavy, Queues, TypeOK
    <3> SUFFICES ASSUME NEW u \in Task, Queues(u)'
                 PROVE  /\ Waits(chainQ'[task'[u].proc], u)
                        /\ task'[u].pc # "turn" => Head(chainQ'[task'[u].proc]) = u
      BY DEF InTurn
    <3>5. /\ u # t /\ Queues(u) /\ task'[u] = task[u] /\ Waits(chainQ[task[u].proc], u)
          /\ task[u].pc # "turn" => Head(chainQ[task[u].proc]) = u
      BY <2>2 DEF InTurn
    <3>6. task[u].proc \in Proc
      <4>1. task[u] \in TaskType
        BY <3>5, Present DEF Queues
      <4> QED
        BY <4>1, FieldTypes
    <3>7. CASE task[u].proc = p
      BY <3>2, <3>3, <3>4, <3>5, <3>7
    <3>8. CASE task[u].proc # p
      BY <3>4, <3>5, <3>6, <3>8
    <3> QED
      BY <3>7, <3>8
  <2>4. CASE ~Queues(t)
    <3>1. UNCHANGED chainQ
      BY <1>9, <2>1, <2>4 DEF FreeHeavy, Queues
    <3> QED
      BY <2>2, <3>1, SameChains
  <2> QED
    BY <2>3, <2>4
<1>10. ASSUME NEW t \in Task, FreeBusy(t) PROVE InTurn'
  <2>1. PICK b \in BOOLEAN : Leaves(t, b)
    BY <1>10, FreeBusyIs
  <2>2. Others(t) /\ task'[t].pc \in {"busy", "done"}
    BY <1>10, <2>1, FreeBusyIs, LeftIs
  <2>3. UNCHANGED chainQ
    BY <1>10 DEF FreeBusy
  <2> QED
    BY <1>1, <2>2, <2>3
<1>11. ASSUME NEW p \in Proc, Die(p) PROVE InTurn'
  <2>1. \A u \in Task : Queues(u)' => Queues(u) /\ task'[u] = task[u]
    BY <1>11, DieIs DEF Queues
  <2> QED
    BY <1>11, <2>1, SameChains DEF Die
<1>12. ASSUME UNCHANGED <<task, chainQ>> PROVE InTurn'
  BY <1>12 DEF InTurn, Queues
<1>13. ASSUME NEW j \in Job, ExpireBusy(j) PROVE InTurn'
  BY <1>12, <1>13 DEF ExpireBusy
<1>14. CASE ExpireHeavy \/ NextSlot \/ MinutePasses
  BY <1>12, <1>14 DEF ExpireHeavy, NextSlot, MinutePasses
<1>15. ASSUME NEW k \in runKey, ExpireRun(k) PROVE InTurn'
  BY <1>12, <1>15 DEF ExpireRun
<1>16. ASSUME NEW p \in Proc, CutOff(p) \/ Reconnect(p) PROVE InTurn'
  BY <1>12, <1>16 DEF CutOff, Reconnect
<1> QED
  BY <1>0, <1>2, <1>3, <1>4, <1>5, <1>6, <1>7, <1>8, <1>9, <1>10, <1>11, <1>13, <1>14, <1>15, <1>16
     DEF Next, Start, Progress, Expiry

-----------------------------------------------------------------------------
(* Types.                                                                  *)

LEMMA TypeHolds ==
  ASSUME Shape, [Next]_vars
  PROVE  TypeOK' /\ (fresh' => slot' > 0)
<1> USE JobsAssumption DEF Shape
<1>0. UNCHANGED vars => TypeOK' /\ (fresh' => slot' > 0)
  BY DEF vars, TypeOK
<1>1. ASSUME NEW p \in Proc, NEW j \in Job, NEW t \in Task,
             Fire(p, j, t) \/ RunNow(p, j, t) \/ CatchUp(p, j, t)
      PROVE  TypeOK' /\ (fresh' => slot' > 0)
  <2>1. task' \in [Task -> TaskType \cup {Absent}]
    BY <1>1, StartIs, BeginsIs
  <2> QED
    BY <1>1, <2>1 DEF Fire, RunNow, CatchUp, TypeOK
<1>2. ASSUME NEW t \in Task, MaintenanceAnswer(t) PROVE TypeOK' /\ (fresh' => slot' > 0)
  BY <1>2, MaintenanceAnswerIs DEF MaintenanceAnswer, Went, TypeOK
<1>3. ASSUME NEW t \in Task, RecentAnswer(t) PROVE TypeOK' /\ (fresh' => slot' > 0)
  BY <1>3, RecentAnswerIs DEF RecentAnswer, Went, TypeOK
<1>4. ASSUME NEW t \in Task, ClaimRun(t) \/ ClaimRunFails(t) PROVE TypeOK' /\ (fresh' => slot' > 0)
  <2>1. task' \in [Task -> TaskType \cup {Absent}] /\ task[t] \in TaskType /\ task[t].pc = "claim"
    BY <1>4, ClaimRunIs DEF Went
  <2>2. runKey' \subseteq Job \X FireTime
    <3>1. runKey' \in {runKey, runKey \cup {<<task[t].job, task[t].claim>>}}
      BY <1>4 DEF ClaimRun, ClaimRunFails
    <3>2. task[t].job \in Job /\ task[t].claim \in FireTime
      BY <2>1, FieldTypes DEF Claims
    <3> QED
      BY <3>1, <3>2 DEF TypeOK
  <2> QED
    BY <1>4, <2>1, <2>2 DEF ClaimRun, ClaimRunFails, TypeOK
<1>5. ASSUME NEW t \in Task, ClaimUnsafe(t) PROVE TypeOK' /\ (fresh' => slot' > 0)
  <2>0. task[t] \in TaskType /\ task[t].busyHold \in BOOLEAN /\ task[t].proc \in Proc /\ task[t].job \in Job
    BY <1>5, ClaimUnsafeIs, FieldTypes
  <2>1. busyKey' \in [Job -> Task \cup {None}]
    <3>1. busyKey' \in {busyKey, [busyKey EXCEPT ![task[t].job] = t]}
      BY <1>5, ClaimUnsafeIs
    <3> QED
      BY <2>0, <3>1 DEF TypeOK
  <2>2. task' \in [Task -> TaskType \cup {Absent}]
    <3>1. CASE Leaves(t, task[t].busyHold)
      BY <2>0, <3>1, LeftIs
    <3>2. CASE \E b \in BOOLEAN : Went(t, "turn", task[t].claim, b, task[t].heavyHold)
      BY <3>2 DEF Went
    <3> QED
      BY <1>5, <3>1, <3>2, ClaimUnsafeIs
  <2>3. chainQ' \in [Proc -> Seq(Task)]
    <3>1. chainQ' \in {chainQ, [chainQ EXCEPT ![task[t].proc] = Append(@, t)]}
      BY <1>5, ClaimUnsafeIs
    <3>2. Append(chainQ[task[t].proc], t) \in Seq(Task)
      BY <2>0, AppendIs DEF TypeOK
    <3> QED
      BY <2>0, <3>1, <3>2 DEF TypeOK
  <2> QED
    BY <1>5, <2>1, <2>2, <2>3 DEF ClaimUnsafe, TypeOK
<1>6. ASSUME NEW t \in Task, Begin(t) PROVE TypeOK' /\ (fresh' => slot' > 0)
  BY <1>6, BeginIs DEF Begin, Went, TypeOK
<1>7. ASSUME NEW t \in Task, Complete(t) \/ Fail(t) PROVE TypeOK' /\ (fresh' => slot' > 0)
  <2>1. task' \in [Task -> TaskType \cup {Absent}]
    <3>1. CASE Went(t, "freeHeavy", task[t].claim, task[t].busyHold, task[t].heavyHold)
      BY <3>1 DEF Went
    <3>2. CASE \E u \in Task, r \in TaskType :
                 /\ u # t /\ task' = [task EXCEPT ![t].pc = "freeHeavy", ![u] = r]
      <4>1. PICK u \in Task, r \in TaskType :
              u # t /\ task' = [task EXCEPT ![t].pc = "freeHeavy", ![u] = r]
        BY <3>2
      <4>2. task[t] \in TaskType
        BY <1>7, EndIs
      <4> QED
        BY <4>1, <4>2, ForkIs
    <3> QED
      BY <1>7, <3>1, <3>2, EndIs
  <2> QED
    BY <1>7, <2>1 DEF Complete, Fail, TypeOK
<1>8. ASSUME NEW t \in Task, FreeHeavy(t) PROVE TypeOK' /\ (fresh' => slot' > 0)
  <2>1. task[t] \in TaskType /\ task[t].pc = "freeHeavy" /\ task' \in [Task -> TaskType \cup {Absent}]
    BY <1>8, FreeHeavyIs DEF Went
  <2>2. chainQ' \in [Proc -> Seq(Task)]
    <3>1. CASE Queues(t)
      <4>1. task[t].proc \in Proc /\ chainQ[task[t].proc] \in Seq(Task)
        BY <2>1, FieldTypes DEF TypeOK
      <4>2. Tail(chainQ[task[t].proc]) \in Seq(Task)
        BY <2>1, <3>1, <4>1, TailIs DEF InTurn
      <4>3. chainQ' = [chainQ EXCEPT ![task[t].proc] = Tail(@)]
        BY <1>8, <3>1 DEF FreeHeavy, Queues
      <4> QED
        BY <4>1, <4>2, <4>3 DEF TypeOK
    <3>2. CASE ~Queues(t)
      BY <1>8, <2>1, <3>2 DEF FreeHeavy, Queues, TypeOK
    <3> QED
      BY <3>1, <3>2
  <2>3. heavyKey' \in Task \cup {None}
    BY <1>8, FreeHeavyIs DEF TypeOK
  <2> QED
    BY <1>8, <2>1, <2>2, <2>3 DEF FreeHeavy, TypeOK
<1>9. ASSUME NEW t \in Task, FreeBusy(t) PROVE TypeOK' /\ (fresh' => slot' > 0)
  <2>1. task' \in [Task -> TaskType \cup {Absent}]
    BY <1>9, FreeBusyIs, LeftIs
  <2>2. busyKey' \in [Job -> Task \cup {None}]
    BY <1>9, FreeBusyIs
  <2> QED
    BY <1>9, <2>1, <2>2 DEF FreeBusy, TypeOK
<1>10. ASSUME NEW p \in Proc, Die(p) PROVE TypeOK' /\ (fresh' => slot' > 0)
  <2>1. task' \in [Task -> TaskType \cup {Absent}]
    BY <1>10, DieIs
  <2> QED
    BY <1>10, <2>1 DEF Die, TypeOK
<1>11. ASSUME NEW j \in Job, ExpireBusy(j) PROVE TypeOK' /\ (fresh' => slot' > 0)
  BY <1>11 DEF ExpireBusy, TypeOK
<1>12. CASE ExpireHeavy
  BY <1>12 DEF ExpireHeavy, TypeOK
<1>13. CASE NextSlot \/ MinutePasses
  <2>1. slot' \in 0..MaxSlot /\ fresh' \in BOOLEAN /\ (fresh' => slot' > 0)
    <3>1. MaxSlot \in Nat /\ slot \in 0..MaxSlot
      BY DEF TypeOK
    <3>2. CASE NextSlot
      BY <3>1, <3>2 DEF NextSlot
    <3>3. CASE MinutePasses
      BY <3>1, <3>3 DEF MinutePasses
    <3> QED
      BY <1>13, <3>2, <3>3
  <2> QED
    BY <1>13, <2>1 DEF NextSlot, MinutePasses, TypeOK
<1>14. ASSUME NEW k \in runKey, ExpireRun(k) PROVE TypeOK' /\ (fresh' => slot' > 0)
  BY <1>14 DEF ExpireRun, TypeOK
<1>15. ASSUME NEW p \in Proc, CutOff(p) \/ Reconnect(p) PROVE TypeOK' /\ (fresh' => slot' > 0)
  BY <1>15 DEF CutOff, Reconnect, TypeOK
<1> QED
  BY <1>0, <1>1, <1>2, <1>3, <1>4, <1>5, <1>6, <1>7, <1>8, <1>9, <1>10, <1>11, <1>12, <1>13, <1>14, <1>15
     DEF Next, Start, Progress, Expiry

LEMMA ClaimsHolds ==
  ASSUME Shape, [Next]_vars
  PROVE  Claims'
<1> USE DEF Shape
<1>0. ASSUME \A u \in Task : task'[u].pc = "claim" => task'[u] = task[u] PROVE Claims'
  BY <1>0 DEF Claims
<1>1. ASSUME NEW t \in Task, Others(t), task'[t].pc # "claim" PROVE Claims'
  BY <1>0, <1>1 DEF Others
<1>2. ASSUME NEW p \in Proc, NEW j \in Job, NEW t \in Task,
             Fire(p, j, t) \/ RunNow(p, j, t) \/ CatchUp(p, j, t)
      PROVE  Claims'
  BY <1>1, <1>2, StartIs, BeginsIs
<1>3. ASSUME NEW t \in Task, MaintenanceAnswer(t) PROVE Claims'
  <2>1. PICK at \in {"done", "claim"}, c \in FireTime \cup {0} :
          /\ Went(t, at, c, task[t].busyHold, task[t].heavyHold)
          /\ at = "claim" => c \in FireTimes
    BY <1>3, MaintenanceAnswerIs
  <2>2. 0 \notin FireTimes
    BY JobsAssumption DEF FireTimes, Late, TypeOK
  <2>3. CASE at = "done"
    BY <1>1, <2>1, <2>3 DEF Went
  <2>4. CASE at = "claim"
    BY <2>1, <2>2, <2>4 DEF Went, Others, Claims
  <2> QED
    BY <2>3, <2>4
<1>4. ASSUME NEW t \in Task, RecentAnswer(t) PROVE Claims'
  BY <1>1, <1>4, RecentAnswerIs DEF Went
<1>5. ASSUME NEW t \in Task, ClaimRun(t) \/ ClaimRunFails(t) PROVE Claims'
  BY <1>1, <1>5, ClaimRunIs DEF Went
<1>6. ASSUME NEW t \in Task, ClaimUnsafe(t) PROVE Claims'
  <2>0. task[t] \in TaskType /\ task[t].busyHold \in BOOLEAN
    BY <1>6, ClaimUnsafeIs, FieldTypes
  <2>1. CASE Leaves(t, task[t].busyHold)
    <3>1. Others(t) /\ task'[t].pc # "claim"
      BY <2>0, <2>1, LeftIs
    <3> QED
      BY <1>1, <3>1
  <2>2. CASE \E b \in BOOLEAN : Went(t, "turn", task[t].claim, b, task[t].heavyHold)
    BY <1>1, <2>2 DEF Went
  <2> QED
    BY <1>6, <2>1, <2>2, ClaimUnsafeIs
<1>7. ASSUME NEW t \in Task, Begin(t) PROVE Claims'
  BY <1>1, <1>7, BeginIs DEF Went
<1>8. ASSUME NEW t \in Task, Complete(t) \/ Fail(t) PROVE Claims'
  <2>1. CASE Went(t, "freeHeavy", task[t].claim, task[t].busyHold, task[t].heavyHold)
    BY <1>1, <2>1 DEF Went
  <2>2. ASSUME NEW u \in Task, NEW r \in TaskType, u # t, r.pc = "busy",
               task' = [task EXCEPT ![t].pc = "freeHeavy", ![u] = r]
        PROVE  Claims'
    BY <1>0, <1>8, <2>2, EndIs, ForkIs
  <2> QED
    BY <1>8, <2>1, <2>2, EndIs
<1>9. ASSUME NEW t \in Task, FreeHeavy(t) PROVE Claims'
  BY <1>1, <1>9, FreeHeavyIs DEF Went
<1>10. ASSUME NEW t \in Task, FreeBusy(t) PROVE Claims'
  BY <1>1, <1>10, FreeBusyIs, LeftIs
<1>11. ASSUME NEW p \in Proc, Die(p) PROVE Claims'
  BY <1>0, <1>11, DieIs
<1>12. ASSUME UNCHANGED task PROVE Claims'
  BY <1>12 DEF Claims
<1>13. ASSUME NEW j \in Job, ExpireBusy(j) PROVE Claims'
  BY <1>12, <1>13 DEF ExpireBusy
<1>14. CASE ExpireHeavy \/ NextSlot \/ MinutePasses
  BY <1>12, <1>14 DEF ExpireHeavy, NextSlot, MinutePasses
<1>15. ASSUME NEW k \in runKey, ExpireRun(k) PROVE Claims'
  BY <1>12, <1>15 DEF ExpireRun
<1>16. ASSUME NEW p \in Proc, CutOff(p) \/ Reconnect(p) PROVE Claims'
  BY <1>12, <1>16 DEF CutOff, Reconnect
<1>17. UNCHANGED vars => Claims'
  BY <1>12 DEF vars
<1> QED
  BY <1>2, <1>3, <1>4, <1>5, <1>6, <1>7, <1>8, <1>9, <1>10, <1>11, <1>13, <1>14, <1>15, <1>16, <1>17
     DEF Next, Start, Progress, Expiry

LEMMA ShapeHolds == ASSUME Shape, [Next]_vars PROVE Shape'
BY InTurnHolds, TypeHolds, ClaimsHolds DEF Shape

LEMMA ShapeStarts == Init => Shape
<1> SUFFICES ASSUME Init PROVE Shape
  OBVIOUS
<1>1. TypeOK
  <2>1. <<>> \in Seq(Task) /\ MaxSlot \in Nat
    BY JobsAssumption
  <2>2. chainQ \in [Proc -> Seq(Task)]
    BY <2>1 DEF Init
  <2>3. slot \in 0..MaxSlot
    BY <2>1 DEF Init
  <2>4. fresh \in BOOLEAN
    BY DEF Init
  <2>5. task \in [Task -> TaskType \cup {Absent}]
    BY DEF Init
  <2>6. alive \subseteq Proc /\ cut \subseteq Proc /\ runKey \subseteq Job \X FireTime
    BY DEF Init
  <2>7. busyKey \in [Job -> Task \cup {None}] /\ heavyKey \in Task \cup {None}
    BY DEF Init
  <2> QED
    BY <2>2, <2>3, <2>4, <2>5, <2>6, <2>7 DEF TypeOK
<1>2. \A t \in Task : task[t].pc = "absent"
  BY AbsentApart DEF Init
<1> QED
  BY <1>1, <1>2 DEF Shape, InTurn, Queues, Claims, Init

LEMMA AlwaysShape == Spec => []Shape
<1>1. Shape /\ [Next]_vars => Shape'
  BY ShapeHolds
<1> QED
  BY ShapeStarts, <1>1, PTL DEF Spec

\* Tasks, keys and chains keep their shape (cron.ts:403-1172): above all, the chain
\* of a process is never shifted empty, because whoever gives its turn back is in
\* front of it.
THEOREM TypesHold == Spec => []TypeOK
<1>1. Shape => TypeOK
  BY DEF Shape
<1> QED
  BY AlwaysShape, <1>1, PTL

-----------------------------------------------------------------------------
(* One run of each fire.                                                   *)

\* What a claimed fire leaves behind: its key, which no other tick can get past;
\* once the key may be gone, the fire is no longer the newest and no tick is on
\* its way to claim it.
Covered(t) ==
  \/ <<task[t].job, task[t].fire>> \in runKey
  \/ /\ task[t].fire # slot \/ ~fresh
     /\ \A u \in Task : task[u].pc = "claim" => task[u].claim # task[t].fire

Fires ==
  /\ \A t \in Task : task[t] \in TaskType => task[t].fire <= slot
  /\ \A t \in Task : task[t].pc = "maint" =>
       task[t].kind = "tick" /\ task[t].claim = 0 /\ task[t].fire = slot /\ fresh
  /\ \A t \in Task : task[t].pc = "claim" => task[t].kind = "tick" /\ task[t].claim = task[t].fire
  /\ \A t \in Task : Claimed(t) => task[t].kind = "tick" /\ task[t].claim = task[t].fire /\ Covered(t)

\* A step that claims nothing and starts no tick.
Tame(u) ==
  \/ task'[u] = task[u]
  \/ /\ task[u] \in TaskType /\ task'[u] \in TaskType
     /\ task'[u].pc \notin {"maint", "claim"}
     /\ task'[u].kind = task[u].kind /\ task'[u].fire = task[u].fire
     /\ task'[u].claim \in {0, task[u].claim}
     /\ task'[u].claim # 0 => task[u].pc # "claim"
     /\ task[u].kind = "chain" \/ task'[u].job = task[u].job
  \/ /\ task[u] = Absent /\ task'[u] \in TaskType
     /\ task'[u].pc \notin {"maint", "claim"}
     /\ task'[u].claim = 0 /\ task'[u].fire \in {0, slot}

LEMMA TameStep ==
  ASSUME Shape, Fires, FireRunsOnce, \A u \in Task : Tame(u), UNCHANGED <<slot, fresh, runKey>>
  PROVE  Fires' /\ FireRunsOnce'
<1>0. slot \in Nat
  BY DEF Shape, TypeOK
<1>1. ASSUME NEW t \in Task, Claimed(t)'
      PROVE  /\ Claimed(t) /\ task'[t].job = task[t].job /\ task'[t].fire = task[t].fire
             /\ task'[t].kind = task[t].kind /\ task'[t].claim = task[t].claim
  <2>1. Tame(t) /\ task'[t] # Absent /\ task'[t].claim # 0 /\ task'[t].pc # "claim"
    BY <1>1 DEF Claimed, At
  <2>2. CASE task'[t] = task[t]
    BY <2>1, <2>2 DEF Claimed, At
  <2>3. CASE task'[t] # task[t]
    <3>1. /\ task[t] \in TaskType /\ task'[t].claim = task[t].claim /\ task[t].pc # "claim"
          /\ task'[t].kind = task[t].kind /\ task'[t].fire = task[t].fire
          /\ task[t].kind = "chain" \/ task'[t].job = task[t].job
      BY <2>1, <2>3 DEF Tame
    <3>2. Claimed(t)
      BY <2>1, <3>1, AbsentApart DEF Claimed, At
    <3>3. task[t].kind = "tick"
      BY <3>2 DEF Fires
    <3> QED
      BY <3>1, <3>2, <3>3
  <2> QED
    BY <2>2, <2>3
<1>2. \A t \in Task : task'[t].pc \in {"maint", "claim"} => task'[t] = task[t]
  BY DEF Tame
<1>3. \A t \in Task : task'[t] \in TaskType => task'[t].fire <= slot
  <2> SUFFICES ASSUME NEW t \in Task, task'[t] \in TaskType PROVE task'[t].fire <= slot
    OBVIOUS
  <2>1. CASE task[t] \in TaskType
    BY <2>1, AbsentApart DEF Tame, Fires
  <2>2. CASE task[t] \notin TaskType
    BY <1>0, <2>2 DEF Tame
  <2> QED
    BY <2>1, <2>2
<1>4. ASSUME NEW t \in Task, Claimed(t)'
      PROVE  task'[t].kind = "tick" /\ task'[t].claim = task'[t].fire /\ Covered(t)'
  <2>1. Covered(t) /\ task[t].kind = "tick" /\ task[t].claim = task[t].fire
    BY <1>1, <1>4 DEF Fires
  <2> QED
    BY <1>1, <1>2, <1>4, <2>1 DEF Covered
<1>5. Fires'
  BY <1>2, <1>3, <1>4 DEF Fires
<1>6. FireRunsOnce'
  BY <1>1 DEF FireRunsOnce
<1> QED
  BY <1>5, <1>6

LEMMA FiresHold ==
  ASSUME ~Stalls, Shape, Fires, FireRunsOnce, [Next]_vars
  PROVE  Fires' /\ FireRunsOnce'
<1> USE DEF Shape
<1>a. slot \in 0..MaxSlot /\ MaxSlot \in Nat
  BY JobsAssumption DEF TypeOK
<1>0. ASSUME UNCHANGED <<task, slot, fresh, runKey>> PROVE Fires' /\ FireRunsOnce'
  BY <1>0, TameStep DEF Tame
<1>1. ASSUME NEW p \in Proc, NEW j \in Job, NEW t \in Task,
             Fire(p, j, t) \/ RunNow(p, j, t) \/ CatchUp(p, j, t)
      PROVE  Fires' /\ FireRunsOnce'
  <2>1. PICK r : /\ Begins(t, r)
                 /\ r.claim = 0 /\ r.pc \in {"maint", "recent", "busy"}
                 /\ r.fire \in {0, slot}
                 /\ r.pc = "maint" => Fire(p, j, t) /\ r.kind = "tick" /\ r.fire = slot
    BY <1>1, StartIs
  <2>2. Others(t) /\ task'[t] = r /\ r \in TaskType /\ task[t] = Absent
    BY <2>1, BeginsIs
  <2>3. UNCHANGED <<slot, fresh, runKey>>
    BY <1>1 DEF Fire, RunNow, CatchUp
  <2>4. CASE r.pc # "maint"
    BY <2>1, <2>2, <2>3, <2>4, TameStep DEF Tame, Others
  <2>5. CASE r.pc = "maint"
    <3>1. fresh /\ r.kind = "tick" /\ r.fire = slot /\ r.claim = 0
      BY <2>1, <2>5 DEF Fire
    <3>2. \A u \in Task : Claimed(u)' => u # t /\ Claimed(u) /\ task'[u] = task[u]
      BY <2>2, <3>1 DEF Claimed, At, Others
    <3>3. \A u \in Task : task'[u].pc = "claim" => task'[u] = task[u]
      BY <2>2, <2>5 DEF Others
    <3>4. \A u \in Task : Claimed(u)' => Covered(u)'
      BY <2>3, <3>2, <3>3 DEF Fires, Covered
    <3>5. Fires'
      BY <1>a, <2>2, <2>3, <2>5, <3>1, <3>2, <3>3, <3>4 DEF Fires, Others
    <3> QED
      BY <3>2, <3>5 DEF FireRunsOnce
  <2> QED
    BY <2>4, <2>5
<1>2. ASSUME NEW t \in Task, MaintenanceAnswer(t) PROVE Fires' /\ FireRunsOnce'
  <2>1. PICK at \in {"done", "claim"}, c \in FireTime \cup {0} :
          /\ Went(t, at, c, task[t].busyHold, task[t].heavyHold)
          /\ at = "done" => c = task[t].claim
          /\ at = "claim" => c \in FireTimes
    BY <1>2, MaintenanceAnswerIs
  <2>2. UNCHANGED <<slot, fresh, runKey>>
    BY <1>2 DEF MaintenanceAnswer
  <2>3. task[t].pc = "maint" /\ task[t].kind = "tick" /\ task[t].claim = 0 /\ task[t].fire = slot /\ fresh
    BY <1>2 DEF MaintenanceAnswer, At, Fires
  <2>4. CASE at = "done"
    BY <2>1, <2>2, <2>3, <2>4, TameStep DEF Tame, Went, Others
  <2>5. CASE at = "claim"
    <3>1. /\ Others(t) /\ task'[t].pc = "claim" /\ task'[t].claim = slot /\ task'[t].fire = slot
          /\ task'[t].kind = "tick"
      BY <2>1, <2>3, <2>5 DEF Went, FireTimes
    <3>2. \A u \in Task : Claimed(u)' => u # t /\ Claimed(u) /\ task'[u] = task[u]
      BY <3>1 DEF Claimed, At, Others
    <3>3. ASSUME NEW u \in Task, Claimed(u)' PROVE Covered(u)'
      <4>1. u # t /\ Covered(u) /\ task'[u] = task[u]
        BY <3>2, <3>3 DEF Fires
      <4>2. CASE <<task[u].job, task[u].fire>> \in runKey
        BY <2>2, <4>1, <4>2 DEF Covered
      <4>3. CASE /\ task[u].fire # slot
                 /\ \A v \in Task : task[v].pc = "claim" => task[v].claim # task[u].fire
        <5>1. \A v \in Task : task'[v].pc = "claim" => task'[v].claim # task'[u].fire
          BY <3>1, <4>1, <4>3 DEF Others
        <5> QED
          BY <2>2, <4>1, <4>3, <5>1 DEF Covered
      <4> QED
        BY <2>3, <4>1, <4>2, <4>3 DEF Covered
    <3>4. Fires'
      BY <1>a, <2>1, <2>2, <3>1, <3>2, <3>3 DEF Fires, Others, Went
    <3> QED
      BY <3>2, <3>4 DEF FireRunsOnce
  <2> QED
    BY <2>4, <2>5
<1>3. ASSUME NEW t \in Task, RecentAnswer(t) PROVE Fires' /\ FireRunsOnce'
  <2>1. \A u \in Task : Tame(u)
    BY <1>3, RecentAnswerIs DEF Tame, Went, Others
  <2> QED
    BY <1>3, <2>1, TameStep DEF RecentAnswer
<1>4. ASSUME NEW t \in Task, ClaimRun(t) \/ ClaimRunFails(t) PROVE Fires' /\ FireRunsOnce'
  <2>1. PICK at \in {"done", "busy"}, c \in FireTime \cup {0} :
          /\ Went(t, at, c, task[t].busyHold, task[t].heavyHold)
          /\ at = "done" => c = 0
          /\ at = "busy" => /\ c = task[t].claim
                            /\ <<task[t].job, c>> \notin runKey /\ <<task[t].job, c>> \in runKey'
    BY <1>4, ClaimRunIs
  <2>2. UNCHANGED <<slot, fresh>> /\ runKey \subseteq runKey'
    BY <1>4 DEF ClaimRun, ClaimRunFails
  <2>3. task[t].pc = "claim" /\ task[t].kind = "tick" /\ task[t].claim = task[t].fire
    BY <1>4 DEF ClaimRun, ClaimRunFails, At, Fires
  <2>4. /\ Others(t) /\ task'[t].pc = at /\ task'[t].claim = c /\ task'[t].kind = "tick"
        /\ task'[t].job = task[t].job /\ task'[t].fire = task[t].fire
        /\ task[t] \in TaskType /\ task'[t] \in TaskType
    BY <2>1, <2>3 DEF Went
  <2>5. \A u \in Task : u # t /\ Claimed(u)' => Claimed(u) /\ task'[u] = task[u]
    BY <2>4 DEF Claimed, At, Others
  <2>6. \A u \in Task : task'[u].pc \in {"maint", "claim"} => task'[u] = task[u]
    BY <2>4 DEF Others
  <2>7. Claimed(t)' => at = "busy" /\ task'[t].claim = task'[t].fire
    BY <2>1, <2>3, <2>4 DEF Claimed
  <2>8. ASSUME NEW u \in Task, Claimed(u)' PROVE Covered(u)'
    <3>1. CASE u = t
      BY <2>1, <2>3, <2>4, <2>7, <2>8, <3>1 DEF Covered
    <3>2. CASE u # t
      <4>1. Covered(u) /\ task'[u] = task[u]
        BY <2>5, <2>8, <3>2 DEF Fires
      <4> QED
        BY <2>2, <2>6, <4>1 DEF Covered
    <3> QED
      BY <3>1, <3>2
  <2>9. Fires'
    <3>1. \A u \in Task : Claimed(u)' =>
            task'[u].kind = "tick" /\ task'[u].claim = task'[u].fire /\ Covered(u)'
      BY <2>4, <2>5, <2>7, <2>8 DEF Fires
    <3>2. \A u \in Task : task'[u] \in TaskType => task'[u].fire <= slot
      BY <2>4 DEF Fires, Others
    <3> QED
      BY <2>2, <2>6, <3>1, <3>2 DEF Fires
  <2>10. ASSUME NEW u \in Task, u # t, Claimed(u)', Claimed(t)',
                task'[u].job = task'[t].job, task'[u].fire = task'[t].fire
         PROVE  FALSE
    <3>1. Covered(u) /\ task'[u] = task[u]
      BY <2>5, <2>10 DEF Fires
    <3>2. <<task[u].job, task[u].fire>> \notin runKey
      BY <2>1, <2>3, <2>4, <2>7, <2>10, <3>1
    <3>3. task[t].pc = "claim" /\ task[t].claim = task[u].fire
      BY <2>3, <2>4, <2>10, <3>1
    <3> QED
      BY <3>1, <3>2, <3>3 DEF Covered
  <2>11. FireRunsOnce'
    BY <2>5, <2>10 DEF FireRunsOnce
  <2> QED
    BY <2>9, <2>11
<1>5. ASSUME NEW t \in Task, NEW b \in BOOLEAN, task[t] \in TaskType,
             task[t].pc \in {"busy", "freeBusy"}, Leaves(t, b), UNCHANGED <<slot, fresh, runKey>>
      PROVE  Fires' /\ FireRunsOnce'
  <2>1. /\ Others(t) /\ task'[t] \in TaskType /\ task'[t].pc \in {"busy", "done"}
        /\ task'[t].claim = task[t].claim /\ task'[t].kind = task[t].kind
        /\ task'[t].fire = task[t].fire
        /\ task'[t].kind = "chain" \/ task'[t].job = task[t].job
    BY <1>5, LeftIs
  <2>2. \A u \in Task : Tame(u)
    BY <1>5, <2>1 DEF Tame, Others
  <2> QED
    BY <1>5, <2>2, TameStep
<1>6. ASSUME NEW t \in Task, ClaimUnsafe(t) PROVE Fires' /\ FireRunsOnce'
  <2>1. /\ task[t] \in TaskType /\ task[t].busyHold \in BOOLEAN /\ task[t].pc = "busy"
        /\ UNCHANGED <<slot, fresh, runKey>>
    BY <1>6, ClaimUnsafeIs, FieldTypes DEF ClaimUnsafe
  <2>2. CASE Leaves(t, task[t].busyHold)
    BY <1>5, <2>1, <2>2
  <2>3. ASSUME NEW b \in BOOLEAN, Went(t, "turn", task[t].claim, b, task[t].heavyHold)
        PROVE  Fires' /\ FireRunsOnce'
    <3>1. \A u \in Task : Tame(u)
      BY <2>1, <2>3 DEF Tame, Went, Others
    <3> QED
      BY <2>1, <3>1, TameStep
  <2> QED
    BY <1>6, <2>2, <2>3, ClaimUnsafeIs
<1>7. ASSUME NEW t \in Task, Begin(t) PROVE Fires' /\ FireRunsOnce'
  <2>1. \A u \in Task : Tame(u)
    BY <1>7, BeginIs DEF Tame, Went, Others
  <2> QED
    BY <1>7, <2>1, TameStep DEF Begin
<1>8. ASSUME NEW t \in Task, Complete(t) \/ Fail(t) PROVE Fires' /\ FireRunsOnce'
  <2>0. task[t] \in TaskType /\ task[t].pc = "run"
    BY <1>8, EndIs
  <2>1. CASE Went(t, "freeHeavy", task[t].claim, task[t].busyHold, task[t].heavyHold)
    <3>1. \A u \in Task : Tame(u)
      BY <2>0, <2>1 DEF Tame, Went, Others
    <3> QED
      BY <1>8, <3>1, TameStep DEF Complete, Fail
  <2>2. ASSUME NEW u \in Task, NEW r \in TaskType, u # t, task[u] = Absent, r.pc = "busy",
               r.claim = 0, r.fire = 0,
               task' = [task EXCEPT ![t].pc = "freeHeavy", ![u] = r]
        PROVE  Fires' /\ FireRunsOnce'
    <3>1. /\ task'[u] = r /\ task'[t] \in TaskType
          /\ \A v \in Task : v # t /\ v # u => task'[v] = task[v]
          /\ task'[t].pc = "freeHeavy" /\ task'[t].claim = task[t].claim
          /\ task'[t].job = task[t].job
          /\ task'[t].kind = task[t].kind /\ task'[t].fire = task[t].fire
      BY <2>0, <2>2, ForkIs
    <3>2. \A v \in Task : Tame(v)
      BY <2>0, <2>2, <3>1 DEF Tame
    <3> QED
      BY <1>8, <3>2, TameStep DEF Complete, Fail
  <2> QED
    BY <1>8, <2>1, <2>2, EndIs
<1>9. ASSUME NEW t \in Task, FreeHeavy(t) PROVE Fires' /\ FireRunsOnce'
  <2>1. \A u \in Task : Tame(u)
    BY <1>9, FreeHeavyIs DEF Tame, Went, Others
  <2> QED
    BY <1>9, <2>1, TameStep DEF FreeHeavy
<1>10. ASSUME NEW t \in Task, FreeBusy(t) PROVE Fires' /\ FireRunsOnce'
  BY <1>5, <1>10, FreeBusyIs DEF FreeBusy
<1>11. ASSUME NEW p \in Proc, Die(p) PROVE Fires' /\ FireRunsOnce'
  <2>1. \A u \in Task : Tame(u)
    BY <1>11, DieIs DEF Tame
  <2> QED
    BY <1>11, <2>1, TameStep DEF Die
<1>12. ASSUME NEW j \in Job, ExpireBusy(j) PROVE Fires' /\ FireRunsOnce'
  BY <1>0, <1>12 DEF ExpireBusy
<1>13. CASE ExpireHeavy
  BY <1>0, <1>13 DEF ExpireHeavy
<1>14. CASE NextSlot \/ MinutePasses
  <2>1. \A t \in Task : task[t].pc # "maint"
    BY <1>14 DEF NextSlot, MinutePasses, At
  <2>2. task' = task /\ runKey' = runKey /\ (slot' = slot + 1 \/ (slot' = slot /\ ~fresh'))
    BY <1>14 DEF NextSlot, MinutePasses
  <2>3. \A t \in Task : Claimed(t)' <=> Claimed(t)
    BY <2>2 DEF Claimed, At
  <2>4. \A t \in Task : Claimed(t) => task[t] \in TaskType
    BY DEF Claimed, TypeOK
  <2>5. \A t \in Task : task[t] \in TaskType => task[t].fire \in Nat /\ task[t].fire <= slot
    BY FieldTypes DEF Fires
  <2>6. ASSUME NEW t \in Task, Claimed(t) PROVE Covered(t)'
    <3>1. Covered(t) /\ task[t].fire \in Nat /\ task[t].fire <= slot
      BY <2>4, <2>5, <2>6 DEF Fires
    <3>2. \A u \in Task : task[u].pc = "claim" => task[u].claim = task[u].fire
      BY DEF Fires
    <3>3. task[t].fire # slot' \/ ~fresh'
      BY <1>a, <2>2, <3>1
    <3> QED
      BY <2>2, <3>1, <3>3 DEF Covered
  <2>7. \A t \in Task : task[t] \in TaskType => task[t].fire <= slot'
    BY <1>a, <2>2, <2>5
  <2>8. Fires'
    BY <2>1, <2>2, <2>3, <2>6, <2>7 DEF Fires
  <2> QED
    BY <2>2, <2>3, <2>8 DEF FireRunsOnce
<1>15. ASSUME NEW k \in runKey, ExpireRun(k) PROVE Fires' /\ FireRunsOnce'
  <2>1. /\ task' = task /\ slot' = slot /\ fresh' = fresh /\ runKey' = runKey \ {k}
        /\ k[2] # slot \/ ~fresh
        /\ \A u \in Task : task[u].pc = "claim" => task[u].claim # k[2]
    BY <1>15 DEF ExpireRun, At
  <2>2. \A t \in Task : Claimed(t)' <=> Claimed(t)
    BY <2>1 DEF Claimed, At
  <2>3. ASSUME NEW t \in Task, Claimed(t) PROVE Covered(t)'
    <3>1. Covered(t)
      BY <2>3 DEF Fires
    <3>2. CASE k = <<task[t].job, task[t].fire>>
      <4>1. k[2] = task[t].fire
        BY <3>2
      <4> QED
        BY <2>1, <4>1 DEF Covered
    <3>3. CASE k # <<task[t].job, task[t].fire>>
      BY <2>1, <3>1, <3>3 DEF Covered
    <3> QED
      BY <3>2, <3>3
  <2>4. Fires'
    BY <2>1, <2>2, <2>3 DEF Fires
  <2> QED
    BY <2>1, <2>2, <2>4 DEF FireRunsOnce
<1>16. ASSUME NEW p \in Proc, CutOff(p) \/ Reconnect(p) PROVE Fires' /\ FireRunsOnce'
  BY <1>0, <1>16 DEF CutOff, Reconnect
<1>17. UNCHANGED vars => Fires' /\ FireRunsOnce'
  BY <1>0 DEF vars
<1> QED
  BY <1>1, <1>2, <1>3, <1>4, <1>6, <1>7, <1>8, <1>9, <1>10, <1>11, <1>12, <1>13, <1>14, <1>15, <1>16, <1>17
     DEF Next, Start, Progress, Expiry

\* A scheduled fire is claimed by one tick, on any number of processes, while they
\* die and Redis comes and goes, as long as the maintenance lookup takes less than
\* the minute in which a tick knows its fire (cron.ts:889).
THEOREM FireRunsOnceHolds == ~Stalls /\ Spec => []FireRunsOnce
<1>1. Init => Fires /\ FireRunsOnce
  BY AbsentApart DEF Init, Fires, FireRunsOnce, Claimed
<1>2. ~Stalls /\ Shape /\ (Fires /\ FireRunsOnce) /\ [Next]_vars => (Fires /\ FireRunsOnce)'
  BY FiresHold
<1>3. CASE ~Stalls
  <2>1. Shape /\ (Fires /\ FireRunsOnce) /\ [Next]_vars => (Fires /\ FireRunsOnce)'
    BY <1>2, <1>3
  <2>2. Spec => []FireRunsOnce
    BY <1>1, <2>1, AlwaysShape, PTL DEF Spec
  <2> QED
    BY <2>2
<1> QED
  BY <1>3

-----------------------------------------------------------------------------
(* Unsafe and heavy jobs run alone.                                        *)

\* From its claim to its release an unsafe task holds the key of its job, and
\* goes on renewing it.
InBusy(t) ==
  task[t].pc \in {"turn", "run", "freeHeavy", "freeBusy"} /\ task[t].job \in Unsafe
BusyHeld ==
  /\ cut = {}
  /\ \A t \in Task : InBusy(t) => task[t].busyHold /\ busyKey[task[t].job] = t

\* A heavy one holds the slot while it runs.
InHeavy(t) == task[t].pc \in {"run", "freeHeavy"} /\ task[t].job \in Heavy
HeavyHeld ==
  /\ cut = {}
  /\ \A t \in Task : InHeavy(t) => task[t].heavyHold /\ heavyKey = t

LEMMA BusyKept ==
  ASSUME BusyHeld, UNCHANGED cut,
         \A t \in Task : InBusy(t)' =>
           /\ InBusy(t) /\ task'[t].job = task[t].job
           /\ task'[t].busyHold = task[t].busyHold
           /\ busyKey'[task[t].job] = busyKey[task[t].job]
  PROVE  BusyHeld'
BY DEF BusyHeld

LEMMA HeavyKept ==
  ASSUME HeavyHeld, UNCHANGED cut,
         \A t \in Task : InHeavy(t)' =>
           /\ InHeavy(t) /\ task'[t].job = task[t].job
           /\ task'[t].heavyHold = task[t].heavyHold
           /\ heavyKey' = heavyKey
  PROVE  HeavyHeld'
BY DEF HeavyHeld

LEMMA BusyHolds ==
  ASSUME ~Cuts, Shape, BusyHeld, [Next]_vars
  PROVE  BusyHeld'
<1> USE DEF Shape
<1>0. ASSUME UNCHANGED <<cut, busyKey>>,
             \A t \in Task : InBusy(t)' =>
               InBusy(t) /\ task'[t].job = task[t].job /\ task'[t].busyHold = task[t].busyHold
      PROVE  BusyHeld'
  BY <1>0, BusyKept
<1>1. ASSUME UNCHANGED <<cut, busyKey>>, NEW t \in Task, Others(t), ~InBusy(t)'
      PROVE  BusyHeld'
  BY <1>0, <1>1 DEF Others, InBusy
<1>2. ASSUME NEW p \in Proc, NEW j \in Job, NEW t \in Task,
             Fire(p, j, t) \/ RunNow(p, j, t) \/ CatchUp(p, j, t)
      PROVE  BusyHeld'
  <2>1. Others(t) /\ ~InBusy(t)'
    BY <1>2, StartIs, BeginsIs DEF InBusy
  <2> QED
    BY <1>1, <1>2, <2>1 DEF Fire, RunNow, CatchUp
<1>3. ASSUME NEW t \in Task, MaintenanceAnswer(t) PROVE BusyHeld'
  <2>1. Others(t) /\ ~InBusy(t)'
    BY <1>3, MaintenanceAnswerIs DEF Went, InBusy
  <2> QED
    BY <1>1, <1>3, <2>1 DEF MaintenanceAnswer
<1>4. ASSUME NEW t \in Task, RecentAnswer(t) PROVE BusyHeld'
  <2>1. Others(t) /\ ~InBusy(t)'
    BY <1>4, RecentAnswerIs DEF Went, InBusy
  <2> QED
    BY <1>1, <1>4, <2>1 DEF RecentAnswer
<1>5. ASSUME NEW t \in Task, ClaimRun(t) \/ ClaimRunFails(t) PROVE BusyHeld'
  <2>1. Others(t) /\ ~InBusy(t)'
    BY <1>5, ClaimRunIs DEF Went, InBusy
  <2> QED
    BY <1>1, <1>5, <2>1 DEF ClaimRun, ClaimRunFails
<1>6. ASSUME NEW t \in Task, ClaimUnsafe(t) PROVE BusyHeld'
  <2>0. /\ task[t] \in TaskType /\ task[t].busyHold \in BOOLEAN /\ UNCHANGED cut
        /\ \A j \in Job : busyKey[j] # None => busyKey'[j] = busyKey[j]
    BY <1>6, ClaimUnsafeIs, FieldTypes DEF ClaimUnsafe
  <2>1. ASSUME NEW u \in Task, InBusy(u)
        PROVE  busyKey[task[u].job] = u /\ busyKey'[task[u].job] = u /\ task[u].busyHold
    <3>1. task[u] \in TaskType
      BY <2>1, Present DEF InBusy
    <3>2. busyKey[task[u].job] = u /\ task[u].job \in Job /\ u # None /\ task[u].busyHold
      BY <2>1, <3>1, FieldTypes, JobsAssumption DEF BusyHeld, Task
    <3> QED
      BY <2>0, <3>2
  <2>2. CASE Leaves(t, task[t].busyHold)
    <3>1. Others(t) /\ ~InBusy(t)'
      BY <2>0, <2>2, LeftIs DEF InBusy
    <3>2. \A u \in Task : InBusy(u)' => InBusy(u) /\ task'[u] = task[u]
      BY <3>1 DEF Others, InBusy
    <3> QED
      BY <2>0, <2>1, <3>2 DEF BusyHeld
  <2>3. ASSUME NEW b \in BOOLEAN, Went(t, "turn", task[t].claim, b, task[t].heavyHold),
               task[t].job \in Unsafe => b /\ busyKey[task[t].job] = None /\ busyKey'[task[t].job] = t
        PROVE  BusyHeld'
    <3>1. \A u \in Task : InBusy(u)' /\ u # t => InBusy(u) /\ task'[u] = task[u]
      BY <2>3 DEF Went, Others, InBusy
    <3>2. InBusy(t)' => task'[t].busyHold /\ busyKey'[task'[t].job] = t
      BY <2>3 DEF Went, InBusy
    <3> QED
      BY <2>0, <2>1, <3>1, <3>2 DEF BusyHeld
  <2> QED
    BY <1>6, <2>2, <2>3, ClaimUnsafeIs
<1>7. ASSUME NEW t \in Task, Begin(t) PROVE BusyHeld'
  <2>1. UNCHANGED <<cut, busyKey>>
    BY <1>7 DEF Begin
  <2>2. \A u \in Task : InBusy(u)' =>
          InBusy(u) /\ task'[u].job = task[u].job /\ task'[u].busyHold = task[u].busyHold
    BY <1>7, BeginIs DEF Went, Others, InBusy
  <2> QED
    BY <1>0, <2>1, <2>2
<1>8. ASSUME NEW t \in Task, Complete(t) \/ Fail(t) PROVE BusyHeld'
  <2>0. task[t] \in TaskType /\ task[t].pc = "run" /\ UNCHANGED <<cut, busyKey>>
    BY <1>8, EndIs DEF Complete, Fail
  <2>1. CASE Went(t, "freeHeavy", task[t].claim, task[t].busyHold, task[t].heavyHold)
    <3>1. \A u \in Task : InBusy(u)' =>
            InBusy(u) /\ task'[u].job = task[u].job /\ task'[u].busyHold = task[u].busyHold
      BY <2>0, <2>1 DEF Went, Others, InBusy
    <3> QED
      BY <1>0, <2>0, <3>1
  <2>2. ASSUME NEW u \in Task, NEW r \in TaskType, u # t, r.pc = "busy",
               task' = [task EXCEPT ![t].pc = "freeHeavy", ![u] = r]
        PROVE  BusyHeld'
    <3>1. /\ task'[u] = r /\ \A v \in Task : v # t /\ v # u => task'[v] = task[v]
          /\ task'[t].job = task[t].job /\ task'[t].busyHold = task[t].busyHold
      BY <2>0, <2>2, ForkIs
    <3>2. \A v \in Task : InBusy(v)' =>
            InBusy(v) /\ task'[v].job = task[v].job /\ task'[v].busyHold = task[v].busyHold
      BY <2>0, <2>2, <3>1 DEF InBusy
    <3> QED
      BY <1>0, <2>0, <3>2
  <2> QED
    BY <1>8, <2>1, <2>2, EndIs
<1>9. ASSUME NEW t \in Task, FreeHeavy(t) PROVE BusyHeld'
  <2>1. UNCHANGED <<cut, busyKey>>
    BY <1>9 DEF FreeHeavy
  <2>2. \A u \in Task : InBusy(u)' =>
          InBusy(u) /\ task'[u].job = task[u].job /\ task'[u].busyHold = task[u].busyHold
    BY <1>9, FreeHeavyIs DEF Went, Others, InBusy
  <2> QED
    BY <1>0, <2>1, <2>2
<1>10. ASSUME NEW t \in Task, FreeBusy(t) PROVE BusyHeld'
  <2>1. Others(t) /\ ~InBusy(t)' /\ UNCHANGED cut
    <3>1. task[t] \in TaskType /\ \E b \in BOOLEAN : Leaves(t, b)
      BY <1>10, FreeBusyIs
    <3>2. Others(t) /\ task'[t].pc \in {"busy", "done"}
      BY <3>1, LeftIs
    <3> QED
      BY <1>10, <3>2 DEF InBusy, FreeBusy
  <2>2. \A j \in Job : busyKey'[j] = busyKey[j] \/ busyKey[j] = t
    BY <1>10, FreeBusyIs
  <2>3. ASSUME NEW u \in Task, InBusy(u)'
        PROVE  InBusy(u) /\ task'[u] = task[u] /\ busyKey'[task[u].job] = busyKey[task[u].job]
    <3>1. u # t /\ InBusy(u) /\ task'[u] = task[u]
      BY <2>1, <2>3 DEF Others, InBusy
    <3>2. task[u].job \in Job
      BY <3>1, Present, FieldTypes DEF InBusy
    <3>3. busyKey[task[u].job] = u
      BY <3>1 DEF BusyHeld
    <3> QED
      BY <2>2, <3>1, <3>2, <3>3
  <2> QED
    BY <2>1, <2>3, BusyKept
<1>11. ASSUME NEW p \in Proc, Die(p) PROVE BusyHeld'
  <2>1. \A u \in Task : InBusy(u)' => InBusy(u) /\ task'[u] = task[u]
    BY <1>11, DieIs DEF InBusy
  <2> QED
    BY <1>0, <1>11, <2>1 DEF Die
<1>12. ASSUME UNCHANGED <<cut, task, busyKey>> PROVE BusyHeld'
  BY <1>12 DEF BusyHeld, InBusy
<1>13. ASSUME NEW j \in Job, ExpireBusy(j) PROVE BusyHeld'
  <2>1. UNCHANGED <<cut, task>> /\ \A i \in Job : i # j => busyKey'[i] = busyKey[i]
    BY <1>13 DEF ExpireBusy, TypeOK
  <2>2. ASSUME NEW u \in Task, InBusy(u) PROVE task[u].job # j
    <3>1. task[u].busyHold /\ busyKey[task[u].job] = u /\ ~OnCut(u) /\ Live(u)
      BY <2>2 DEF BusyHeld, InBusy, OnCut, Live, Over
    <3> QED
      BY <1>13, <3>1 DEF ExpireBusy, Renewed
  <2>3. \A u \in Task : InBusy(u) => task[u].job \in Job
    BY Present, FieldTypes DEF InBusy
  <2> QED
    BY <2>1, <2>2, <2>3 DEF BusyHeld, InBusy
<1>14. CASE ExpireHeavy \/ NextSlot \/ MinutePasses
  BY <1>12, <1>14 DEF ExpireHeavy, NextSlot, MinutePasses
<1>15. ASSUME NEW k \in runKey, ExpireRun(k) PROVE BusyHeld'
  BY <1>12, <1>15 DEF ExpireRun
<1>16. ASSUME NEW p \in Proc, CutOff(p) \/ Reconnect(p) PROVE BusyHeld'
  BY <1>16 DEF CutOff, Reconnect, BusyHeld
<1>17. UNCHANGED vars => BusyHeld'
  BY <1>12 DEF vars
<1> QED
  BY <1>2, <1>3, <1>4, <1>5, <1>6, <1>7, <1>8, <1>9, <1>10, <1>11, <1>13, <1>14, <1>15, <1>16, <1>17
     DEF Next, Start, Progress, Expiry

LEMMA HeavyHolds ==
  ASSUME ~Cuts, ~LongWait, Shape, HeavyHeld, [Next]_vars
  PROVE  HeavyHeld'
<1> USE DEF Shape
<1>0. ASSUME UNCHANGED <<cut, heavyKey>>,
             \A t \in Task : InHeavy(t)' =>
               InHeavy(t) /\ task'[t].job = task[t].job /\ task'[t].heavyHold = task[t].heavyHold
      PROVE  HeavyHeld'
  BY <1>0, HeavyKept
<1>1. ASSUME UNCHANGED <<cut, heavyKey>>, NEW t \in Task, Others(t), ~InHeavy(t)'
      PROVE  HeavyHeld'
  BY <1>0, <1>1 DEF Others, InHeavy
<1>2. ASSUME NEW p \in Proc, NEW j \in Job, NEW t \in Task,
             Fire(p, j, t) \/ RunNow(p, j, t) \/ CatchUp(p, j, t)
      PROVE  HeavyHeld'
  <2>1. Others(t) /\ ~InHeavy(t)'
    BY <1>2, StartIs, BeginsIs DEF InHeavy
  <2> QED
    BY <1>1, <1>2, <2>1 DEF Fire, RunNow, CatchUp
<1>3. ASSUME NEW t \in Task, MaintenanceAnswer(t) PROVE HeavyHeld'
  <2>1. Others(t) /\ ~InHeavy(t)'
    BY <1>3, MaintenanceAnswerIs DEF Went, InHeavy
  <2> QED
    BY <1>1, <1>3, <2>1 DEF MaintenanceAnswer
<1>4. ASSUME NEW t \in Task, RecentAnswer(t) PROVE HeavyHeld'
  <2>1. Others(t) /\ ~InHeavy(t)'
    BY <1>4, RecentAnswerIs DEF Went, InHeavy
  <2> QED
    BY <1>1, <1>4, <2>1 DEF RecentAnswer
<1>5. ASSUME NEW t \in Task, ClaimRun(t) \/ ClaimRunFails(t) PROVE HeavyHeld'
  <2>1. Others(t) /\ ~InHeavy(t)'
    BY <1>5, ClaimRunIs DEF Went, InHeavy
  <2> QED
    BY <1>1, <1>5, <2>1 DEF ClaimRun, ClaimRunFails
<1>6. ASSUME NEW t \in Task, ClaimUnsafe(t) PROVE HeavyHeld'
  <2>0. task[t] \in TaskType /\ task[t].busyHold \in BOOLEAN
    BY <1>6, ClaimUnsafeIs, FieldTypes
  <2>1. Others(t) /\ ~InHeavy(t)'
    <3>1. CASE Leaves(t, task[t].busyHold)
      BY <2>0, <3>1, LeftIs DEF InHeavy
    <3>2. CASE \E b \in BOOLEAN : Went(t, "turn", task[t].claim, b, task[t].heavyHold)
      BY <3>2 DEF Went, InHeavy
    <3> QED
      BY <1>6, <3>1, <3>2, ClaimUnsafeIs
  <2> QED
    BY <1>1, <1>6, <2>1 DEF ClaimUnsafe
<1>7. ASSUME NEW t \in Task, Begin(t) PROVE HeavyHeld'
  <2>1. PICK h \in BOOLEAN :
          /\ Went(t, "run", task[t].claim, task[t].busyHold, h)
          /\ task[t].job \in Heavy =>
               \/ h /\ heavyKey = None /\ heavyKey' = t
               \/ OnCut(t) /\ UNCHANGED heavyKey
               \/ LongWait /\ UNCHANGED heavyKey
          /\ task[t].job \notin Heavy => UNCHANGED heavyKey
    BY <1>7, BeginIs
  <2>2. UNCHANGED cut /\ ~OnCut(t)
    BY <1>7 DEF Begin, HeavyHeld, OnCut
  <2>3. \A u \in Task : InHeavy(u)' /\ u # t => InHeavy(u) /\ task'[u] = task[u]
    BY <2>1 DEF Went, Others, InHeavy
  <2>4. CASE task[t].job \in Heavy
    <3>1. h /\ heavyKey = None /\ heavyKey' = t
      BY <2>1, <2>2, <2>4
    <3>2. \A u \in Task : ~InHeavy(u)
      BY <3>1, JobsAssumption DEF HeavyHeld, Task
    <3>3. task'[t].heavyHold
      BY <2>1, <3>1 DEF Went
    <3> QED
      BY <2>2, <2>3, <3>1, <3>2, <3>3 DEF HeavyHeld
  <2>5. CASE task[t].job \notin Heavy
    <3>1. ~InHeavy(t)'
      BY <2>1, <2>5 DEF Went, InHeavy
    <3> QED
      BY <1>1, <2>1, <2>2, <2>5, <3>1 DEF Went
  <2> QED
    BY <2>4, <2>5
<1>8. ASSUME NEW t \in Task, Complete(t) \/ Fail(t) PROVE HeavyHeld'
  <2>0. task[t] \in TaskType /\ task[t].pc = "run" /\ UNCHANGED <<cut, heavyKey>>
    BY <1>8, EndIs DEF Complete, Fail
  <2>1. CASE Went(t, "freeHeavy", task[t].claim, task[t].busyHold, task[t].heavyHold)
    <3>1. \A u \in Task : InHeavy(u)' =>
            InHeavy(u) /\ task'[u].job = task[u].job /\ task'[u].heavyHold = task[u].heavyHold
      BY <2>0, <2>1 DEF Went, Others, InHeavy
    <3> QED
      BY <1>0, <2>0, <3>1
  <2>2. ASSUME NEW u \in Task, NEW r \in TaskType, u # t, r.pc = "busy",
               task' = [task EXCEPT ![t].pc = "freeHeavy", ![u] = r]
        PROVE  HeavyHeld'
    <3>1. /\ task'[u] = r /\ \A v \in Task : v # t /\ v # u => task'[v] = task[v]
          /\ task'[t].job = task[t].job /\ task'[t].heavyHold = task[t].heavyHold
      BY <2>0, <2>2, ForkIs
    <3>2. \A v \in Task : InHeavy(v)' =>
            InHeavy(v) /\ task'[v].job = task[v].job /\ task'[v].heavyHold = task[v].heavyHold
      BY <2>0, <2>2, <3>1 DEF InHeavy
    <3> QED
      BY <1>0, <2>0, <3>2
  <2> QED
    BY <1>8, <2>1, <2>2, EndIs
<1>9. ASSUME NEW t \in Task, FreeHeavy(t) PROVE HeavyHeld'
  <2>1. Others(t) /\ ~InHeavy(t)' /\ UNCHANGED cut
    BY <1>9, FreeHeavyIs DEF Went, InHeavy, FreeHeavy
  <2>2. heavyKey' = heavyKey \/ heavyKey = t
    BY <1>9, FreeHeavyIs
  <2>3. \A u \in Task : InHeavy(u)' => InHeavy(u) /\ task'[u] = task[u] /\ heavyKey' = heavyKey
    BY <2>1, <2>2 DEF Others, InHeavy, HeavyHeld
  <2> QED
    BY <2>1, <2>3, HeavyKept
<1>10. ASSUME NEW t \in Task, FreeBusy(t) PROVE HeavyHeld'
  <2>1. Others(t) /\ ~InHeavy(t)'
    BY <1>10, FreeBusyIs, LeftIs DEF InHeavy
  <2> QED
    BY <1>1, <1>10, <2>1 DEF FreeBusy
<1>11. ASSUME NEW p \in Proc, Die(p) PROVE HeavyHeld'
  <2>1. \A u \in Task : InHeavy(u)' => InHeavy(u) /\ task'[u] = task[u]
    BY <1>11, DieIs DEF InHeavy
  <2> QED
    BY <1>0, <1>11, <2>1 DEF Die
<1>12. ASSUME UNCHANGED <<cut, task, heavyKey>> PROVE HeavyHeld'
  BY <1>12 DEF HeavyHeld, InHeavy
<1>13. CASE ExpireHeavy
  <2>1. ASSUME NEW u \in Task, InHeavy(u) PROVE FALSE
    <3>1. task[u].heavyHold /\ heavyKey = u /\ ~OnCut(u) /\ Live(u)
      BY <2>1 DEF HeavyHeld, InHeavy, OnCut, Live, Over
    <3> QED
      BY <1>13, <3>1 DEF ExpireHeavy, Renewed
  <2> QED
    BY <1>13, <2>1 DEF ExpireHeavy, HeavyHeld, InHeavy
<1>14. CASE NextSlot \/ MinutePasses
  BY <1>12, <1>14 DEF NextSlot, MinutePasses
<1>15. ASSUME NEW j \in Job, ExpireBusy(j) PROVE HeavyHeld'
  BY <1>12, <1>15 DEF ExpireBusy
<1>16. ASSUME NEW k \in runKey, ExpireRun(k) PROVE HeavyHeld'
  BY <1>12, <1>16 DEF ExpireRun
<1>17. ASSUME NEW p \in Proc, CutOff(p) \/ Reconnect(p) PROVE HeavyHeld'
  BY <1>17 DEF CutOff, Reconnect, HeavyHeld
<1>18. UNCHANGED vars => HeavyHeld'
  BY <1>12 DEF vars
<1> QED
  BY <1>2, <1>3, <1>4, <1>5, <1>6, <1>7, <1>8, <1>9, <1>10, <1>11, <1>13, <1>14, <1>15, <1>16, <1>17, <1>18
     DEF Next, Start, Progress, Expiry

\* An unsafe job never runs twice at once, whichever way its runs began, as long as
\* Redis answers: its key is renewed for as long as the run lasts (cron.ts:403-406).
THEOREM UnsafeRunsAloneHolds == ~Cuts /\ Spec => []UnsafeRunsAlone
<1>1. Init => BusyHeld
  BY AbsentApart DEF Init, BusyHeld, InBusy
<1>2. BusyHeld => UnsafeRunsAlone
  BY DEF BusyHeld, UnsafeRunsAlone, Running, InBusy
<1>3. CASE ~Cuts
  <2>1. Shape /\ BusyHeld /\ [Next]_vars => BusyHeld'
    BY <1>3, BusyHolds
  <2>2. Spec => []UnsafeRunsAlone
    BY <1>1, <1>2, <2>1, AlwaysShape, PTL DEF Spec
  <2> QED
    BY <2>2
<1> QED
  BY <1>3

\* Heavy jobs of all processes run one at a time, as long as Redis answers and
\* nobody has waited for HEAVY_MAX_WAIT_MS (cron.ts:701).
THEOREM HeavyRunsAloneHolds == ~Cuts /\ ~LongWait /\ Spec => []HeavyRunsAlone
<1>1. Init => HeavyHeld
  BY AbsentApart DEF Init, HeavyHeld, InHeavy
<1>2. HeavyHeld => HeavyRunsAlone
  BY DEF HeavyHeld, HeavyRunsAlone, Running, InHeavy
<1>3. CASE ~Cuts /\ ~LongWait
  <2>1. Shape /\ HeavyHeld /\ [Next]_vars => HeavyHeld'
    BY <1>3, HeavyHolds
  <2>2. Spec => []HeavyRunsAlone
    BY <1>1, <1>2, <2>1, AlwaysShape, PTL DEF Spec
  <2> QED
    BY <2>2
<1> QED
  BY <1>3

\* A task gives back the keys that carry its own value and no other
\* (cron.ts:223, 468), even when its hold lapsed and another start holds them.
THEOREM ReleaseSparesOthersHolds == Spec => ReleaseSparesOthers
<1>1. ASSUME Shape, NEW t \in Task
      PROVE  /\ FreeBusy(t) => \A j \in Job : busyKey[j] \in {t, None} \/ busyKey'[j] = busyKey[j]
             /\ FreeHeavy(t) => heavyKey \in {t, None} \/ heavyKey' = heavyKey
  BY <1>1, FreeBusyIs, FreeHeavyIs
<1>2. Shape /\ [Next]_vars =>
        [\A t \in Task : /\ FreeBusy(t) => \A j \in Job : busyKey[j] \in {t, None} \/ busyKey'[j] = busyKey[j]
                         /\ FreeHeavy(t) => heavyKey \in {t, None} \/ heavyKey' = heavyKey]_vars
  BY <1>1
<1> QED
  BY AlwaysShape, <1>2, PTL DEF Spec, ReleaseSparesOthers

=============================================================================
