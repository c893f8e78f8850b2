-------------------------- MODULE ImportQueueProofs --------------------------
(***************************************************************************)
(* The staged-import queue, for every number of hosts, rows, groups,       *)
(* requests and deaths.  That a row runs once is not inductive: the claim  *)
(* looks at the status alone, so the proof carries that a run whose status *)
(* nobody wrote over has it at "running" (Marked).  That one process keeps *)
(* its runs of a group apart rests on the busy set of its drain, read      *)
(* before the rows: it holds the group of every run of the process for as  *)
(* long as the drain lasts (Noted).  The bound on runs counts the ids a     *)
(* process drives, so it needs that every run is among them (Driven) and   *)
(* that nothing is added between the look and the claim (Room).            *)
(***************************************************************************)
EXTENDS ImportQueue, WellFoundedInduction, FiniteSetTheorems, TLAPS

\* The group of a run is not one in which a status was written over.
Sound(x) == Groups[x.row] \notin spoiled

\* A run has its row at "running".
Marked == \A x \in live : Sound(x) => status[x.row] = "running"

\* A drain has noted the group of every run of its process.
Noted == \A x \in live : Sound(x) /\ pc[x.by] # "idle" => Groups[x.row] \in busy[x.by]

\* The row a drain stands at is one it has not passed over.
AtRow == \A w \in Worker : pc[w] \in {"claim", "giveup"} => Rest(w) # {}

IInv == Marked /\ Noted /\ RowRunsOnce /\ LocalRunsApart

-----------------------------------------------------------------------------

\* The first of the remaining rows is one of them.
LEMMA FirstOfRest ==
  ASSUME NEW w \in Worker, TypeOK, Rest(w) # {}
  PROVE  /\ First(w) \in Row /\ First(w) \in todo[w]
         /\ Groups[First(w)] \notin busy[w] /\ Groups[First(w)] \in Group
         /\ First(w) \in Rest(w) /\ \A q \in Rest(w) : First(w) <= q
<1>1. Rest(w) \in SUBSET Nat /\ Rest(w) \subseteq Row
  BY ImportQueueAssumption DEF TypeOK, Rest
<1>2. \E r \in Rest(w) : \A q \in Rest(w) : r <= q
  <2>1. PICK r \in Rest(w) : \A q \in Rest(w) : <<q, r>> \notin OpToRel(<, Nat)
    BY <1>1, WFMin, NatLessThanWellFounded
  <2>2. OpToRel(<, Nat) = {p \in Nat \X Nat : p[1] < p[2]}
    BY Zenon DEF OpToRel
  <2>3. ASSUME NEW q \in Rest(w) PROVE r <= q
    <3>1. q \in Nat /\ r \in Nat /\ <<q, r>> \notin {p \in Nat \X Nat : p[1] < p[2]}
      BY <1>1, <2>1, <2>2
    <3>2. ~(q < r)
      BY <3>1
    <3> QED
      BY <3>1, <3>2
  <2> QED
    BY <2>3
<1>3. First(w) \in Rest(w) /\ \A q \in Rest(w) : First(w) <= q
  BY <1>2 DEF First
<1> QED
  BY <1>1, <1>3 DEF Rest, Taken, Group

\* The state is always one of the declared types, and a drain that is about to
\* claim a row or to give it up has one.
LEMMA TypeStep == TypeOK /\ AtRow /\ [Next]_vars => (TypeOK /\ AtRow)'
<1> SUFFICES ASSUME TypeOK, AtRow, [Next]_vars PROVE (TypeOK /\ AtRow)'
  OBVIOUS
<1> USE DEF TypeOK, AtRow, Rest, Taken, Goto, table, drains
<1>1. ASSUME NEW w \in Worker, Tick(w) PROVE (TypeOK /\ AtRow)'
  BY <1>1 DEF Tick, With, Group
<1>2. ASSUME NEW w \in Worker, ReadQueue(w) PROVE (TypeOK /\ AtRow)'
  BY <1>2 DEF ReadQueue, FirstQueued, With
<1>3. ASSUME NEW w \in Worker, Stop(w) PROVE (TypeOK /\ AtRow)'
  BY <1>3 DEF Stop
<1>4. ASSUME NEW w \in Worker, Open(w) PROVE (TypeOK /\ AtRow)'
  <2>1. First(w) \in Row /\ Groups[First(w)] \in Group
    BY <1>4, FirstOfRest DEF Open
  <2> QED
    BY <1>4, <2>1 DEF Open, Dropped
<1>5. ASSUME NEW w \in Worker, GiveUp(w) PROVE (TypeOK /\ AtRow)'
  <2>1. First(w) \in Row /\ Groups[First(w)] \in Group
    BY <1>5, FirstOfRest DEF GiveUp
  <2> QED
    BY <1>5, <2>1 DEF GiveUp, Overwrite, Dropped
<1>6. ASSUME NEW w \in Worker, Claim(w) PROVE (TypeOK /\ AtRow)'
  <2>1. First(w) \in Row /\ Groups[First(w)] \in Group
    BY <1>6, FirstOfRest DEF Claim
  <2>2. Run(w, First(w)) \in [by : Worker, row : Row, n : {1, 2}]
    BY <2>1 DEF Run
  <2> QED
    BY <1>6, <2>1, <2>2 DEF Claim, NowBusy, Dropped
<1>7. ASSUME NEW w \in Worker, Crash(w) PROVE (TypeOK /\ AtRow)'
  BY <1>7, ImportQueueAssumption DEF Crash
<1>8. ASSUME NEW x \in live, Finish(x) PROVE (TypeOK /\ AtRow)'
  <2>1. x.row \in Row /\ x.by \in Worker /\ Outcome[x.row] \in {"completed", "error"}
    BY <1>8, ImportQueueAssumption
  <2> QED
    BY <1>8, <2>1 DEF Finish
<1>9. ASSUME NEW r \in Row, Upload(r) \/ Age(r) PROVE (TypeOK /\ AtRow)'
  BY <1>9 DEF Upload, Age
<1>10. ASSUME NEW r \in Row, NEW op \in Requests, Ask(op, r) PROVE (TypeOK /\ AtRow)'
  BY <1>10, ImportQueueAssumption DEF Ask
<1>11. ASSUME Apply PROVE (TypeOK /\ AtRow)'
  BY <1>11 DEF Apply, Overwrite, Group
<1>12. ASSUME UNCHANGED vars PROVE (TypeOK /\ AtRow)'
  BY <1>12 DEF vars
<1> QED
  BY <1>1, <1>2, <1>3, <1>4, <1>5, <1>6, <1>7, <1>8, <1>9, <1>10, <1>11, <1>12 DEF Next, Drain

LEMMA Typed == Spec => [](TypeOK /\ AtRow)
<1>1. Init => TypeOK /\ AtRow
  BY ImportQueueAssumption DEF Init, TypeOK, AtRow
<1> QED
  BY <1>1, TypeStep, PTL DEF Spec

\* Every state of the queue is of the declared types.
THEOREM TypeCorrect == Spec => []TypeOK
BY Typed, PTL

-----------------------------------------------------------------------------

\* A step that starts no run, writes over the status of no run of a sound group
\* and lets no drain begin, or forget a group, keeps everything.
LEMMA NoNewRun ==
  ASSUME IInv, live' \subseteq live, spoiled \subseteq spoiled',
         \A x \in live' : Sound(x)' => status'[x.row] = status[x.row],
         \A x \in live' : pc'[x.by] # "idle" => pc[x.by] # "idle" /\ busy[x.by] \subseteq busy'[x.by]
  PROVE  IInv'
BY DEF IInv, Marked, Noted, RowRunsOnce, LocalRunsApart, Sound

\* A status written by id is that of no run, or the group counts as spoiled.
LEMMA OverwriteSpoils ==
  ASSUME TypeOK, NEW r \in Row, NEW s, Overwrite(r, s), live' = live
  PROVE  /\ spoiled \subseteq spoiled'
         /\ \A x \in live' : Sound(x)' => status'[x.row] = status[x.row]
BY DEF TypeOK, Overwrite, Sound, Runs

\* A claim that wins adds a run of a row that was queued, in a group of which its
\* process runs nothing.
LEMMA ClaimKeeps ==
  ASSUME TypeOK, AtRow, IInv, NEW w \in Worker, Claim(w)
  PROVE  IInv'
<1> DEFINE r == First(w)
<1>1. r \in Row /\ Groups[r] \notin busy[w]
  BY FirstOfRest DEF AtRow, Claim
<1>2. CASE status[r] # "queued"
  BY <1>2, NoNewRun DEF Claim, Sound, TypeOK, Goto
<1>3. CASE status[r] = "queued"
  <2> DEFINE z == Run(w, r)
  <2>1. /\ live' = live \cup {z} /\ spoiled' = spoiled
        /\ status' = [status EXCEPT ![r] = "running"]
        /\ busy' = [busy EXCEPT ![w] = @ \cup {Groups[r]}]
        /\ pc' = [pc EXCEPT ![w] = "scan"] /\ pc[w] = "claim"
    BY <1>3 DEF Claim, NowBusy, Goto
  <2>2. z.row = r /\ z.by = w
    BY DEF Run
  <2>3. \A x \in live : Sound(x) => x.row # r
    BY <1>3 DEF IInv, Marked
  <2>4. \A x \in live : Sound(x) /\ x.by = w => Groups[x.row] # Groups[r]
    BY <1>1, <2>1 DEF IInv, Noted
  <2>5. \A x \in live' : Sound(x)' <=> Sound(x)
    BY <2>1 DEF Sound
  <2>6. Marked'
    BY <1>1, <2>1, <2>2, <2>5 DEF IInv, Marked, TypeOK
  <2>7. Noted'
    BY <1>1, <2>1, <2>2, <2>5 DEF IInv, Noted, TypeOK
  <2>8. RowRunsOnce'
    BY <2>1, <2>2, <2>3, <2>5 DEF IInv, RowRunsOnce, Sound
  <2>9. LocalRunsApart'
    BY <2>1, <2>2, <2>4, <2>5 DEF IInv, LocalRunsApart, Sound
  <2> QED
    BY <2>6, <2>7, <2>8, <2>9 DEF IInv
<1> QED
  BY <1>2, <1>3

\* A drain begins by noting the groups of the rows that run.
LEMMA TickKeeps ==
  ASSUME TypeOK, IInv, NEW w \in Worker, Tick(w)
  PROVE  IInv'
<1>1. /\ live' = live /\ spoiled' = spoiled /\ status' = status
      /\ busy' = [busy EXCEPT ![w] = {Groups[r] : r \in With("running")}]
      /\ pc' = [pc EXCEPT ![w] = "queue"]
  BY DEF Tick, Goto, table
<1>2. Noted'
  <2> SUFFICES ASSUME NEW x \in live, Sound(x), pc'[x.by] # "idle" PROVE Groups[x.row] \in busy'[x.by]
    BY <1>1 DEF Noted, Sound
  <2>1. x.by \in Worker /\ x.row \in Row
    BY DEF TypeOK
  <2>2. CASE x.by = w
    <3>1. x.row \in With("running")
      BY <2>1 DEF IInv, Marked, With
    <3> QED
      BY <1>1, <2>2, <3>1 DEF TypeOK
  <2>3. CASE x.by # w
    BY <1>1, <2>1, <2>3 DEF IInv, Noted, TypeOK
  <2> QED
    BY <2>2, <2>3
<1> QED
  BY <1>1, <1>2 DEF IInv, Marked, RowRunsOnce, LocalRunsApart, Sound

LEMMA Step == TypeOK /\ AtRow /\ IInv /\ [Next]_vars => IInv'
<1> SUFFICES ASSUME TypeOK, AtRow, IInv, [Next]_vars PROVE IInv'
  OBVIOUS
<1>0. \A x \in live : x.by \in Worker /\ x.row \in Row
  BY DEF TypeOK
<1> USE <1>0 DEF Goto, table, drains, Sound
<1>1. ASSUME NEW w \in Worker, ReadQueue(w) \/ Stop(w) \/ Open(w) PROVE IInv'
  BY <1>1, NoNewRun DEF ReadQueue, Stop, Open, TypeOK
<1>2. ASSUME NEW w \in Worker, GiveUp(w) PROVE IInv'
  <2>1. First(w) \in Row
    BY <1>2, FirstOfRest DEF AtRow, GiveUp
  <2>2. live' = live /\ busy' = busy /\ Overwrite(First(w), "error")
        /\ pc[w] = "giveup" /\ pc' = [pc EXCEPT ![w] = "scan"]
    BY <1>2 DEF GiveUp
  <2> QED
    BY <2>1, <2>2, OverwriteSpoils, NoNewRun DEF TypeOK
<1>3. ASSUME NEW w \in Worker, Crash(w) PROVE IInv'
  BY <1>3, NoNewRun DEF Crash, TypeOK
<1>4. ASSUME NEW x \in live, Finish(x) PROVE IInv'
  <2>1. \A y \in live' : Sound(y)' => y.row # x.row
    BY <1>4 DEF IInv, RowRunsOnce, Finish
  <2> QED
    BY <1>4, <2>1, NoNewRun DEF Finish, TypeOK
<1>5. ASSUME NEW r \in Row, Upload(r) PROVE IInv'
  <2>1. \A y \in live : Sound(y) => y.row # r
    BY <1>5 DEF IInv, Marked, Upload
  <2> QED
    BY <1>5, <2>1, NoNewRun DEF Upload, TypeOK
<1>6. ASSUME NEW r \in Row, Age(r) \/ \E op \in Requests : Ask(op, r) PROVE IInv'
  BY <1>6, NoNewRun DEF Age, Ask
<1>7. ASSUME Apply PROVE IInv'
  <2>1. request.row \in Row
    BY <1>7 DEF Apply, TypeOK
  <2>2. live' = live /\ busy' = busy /\ pc' = pc
        /\ \E s \in {"queued", "canceled"} : Overwrite(request.row, s)
    BY <1>7 DEF Apply
  <2> QED
    BY <2>1, <2>2, OverwriteSpoils, NoNewRun
<1>8. ASSUME UNCHANGED vars PROVE IInv'
  BY <1>8, NoNewRun DEF vars
<1> QED
  BY <1>1, <1>2, <1>3, <1>4, <1>5, <1>6, <1>7, <1>8, ClaimKeeps, TickKeeps DEF Next, Drain

LEMMA Invariant == Spec => []IInv
<1>1. Init => IInv
  BY DEF Init, IInv, Marked, Noted, RowRunsOnce, LocalRunsApart
<1> QED
  BY <1>1, Step, Typed, PTL DEF Spec

\* A row whose status nobody wrote over never runs twice at once, on any number
\* of hosts: the claim (staged-import-worker.ts:251-254) lets one through.
THEOREM OneRunPerRow == Spec => []RowRunsOnce
BY Invariant, PTL DEF IInv

\* One process never runs two rows of a group at once, whatever other processes
\* claim, give up or leave behind.
THEOREM GroupsApartLocally == Spec => []LocalRunsApart
BY Invariant, PTL DEF IInv

-----------------------------------------------------------------------------

\* A run is among those its process drives.
Driven == \A x \in live : Sound(x) => x.row \in driving[x.by]

\* There is room for the run that is about to be claimed.
Room ==
  \A w \in Worker :
    /\ Cardinality(driving[w]) <= MaxParallel[w]
    /\ pc[w] = "claim" => Cardinality(driving[w]) < MaxParallel[w]

\* What a process drives is finite.
LEMMA Counted ==
  ASSUME TypeOK, NEW w \in Worker
  PROVE  /\ IsFiniteSet(driving[w]) /\ Cardinality(driving[w]) \in Nat
         /\ MaxParallel[w] \in Nat \ {0}
         /\ \A D \in SUBSET driving[w] : Cardinality(D) \in Nat /\ Cardinality(D) <= Cardinality(driving[w])
<1>1. driving[w] \in SUBSET Row
  BY DEF TypeOK
<1> QED
  BY <1>1, ImportQueueAssumption, FS_Subset, FS_CardinalityType

LEMMA RoomStep == TypeOK /\ Room /\ [Next]_vars => Room'
<1> SUFFICES ASSUME TypeOK, Room, [Next]_vars, NEW v \in Worker
             PROVE  /\ Cardinality(driving'[v]) <= MaxParallel[v]
                    /\ pc'[v] = "claim" => Cardinality(driving'[v]) < MaxParallel[v]
  BY DEF Room
<1>0. /\ IsFiniteSet(driving[v]) /\ Cardinality(driving[v]) \in Nat
      /\ MaxParallel[v] \in Nat \ {0}
      /\ \A D \in SUBSET driving[v] : Cardinality(D) \in Nat /\ Cardinality(D) <= Cardinality(driving[v])
  BY Counted
<1> USE <1>0 DEF Goto, table, drains
<1>1. ASSUME NEW w \in Worker, Tick(w) \/ ReadQueue(w) \/ Stop(w) \/ GiveUp(w) PROVE Room'
  BY <1>1 DEF Tick, ReadQueue, Stop, GiveUp, Room, TypeOK
<1>2. ASSUME NEW w \in Worker, Open(w) PROVE Room'
  <2>1. Cardinality(driving[w]) \in Nat /\ MaxParallel[w] \in Nat
    BY Counted
  <2> QED
    BY <1>2, <2>1 DEF Open, Full, Room, TypeOK
<1>3. ASSUME NEW w \in Worker, Claim(w)
      PROVE  /\ Cardinality(driving'[v]) <= MaxParallel[v]
             /\ pc'[v] = "claim" => Cardinality(driving'[v]) < MaxParallel[v]
  <2>1. pc[w] = "claim" /\ pc' = [pc EXCEPT ![w] = "scan"]
        /\ driving' \in {driving, [driving EXCEPT ![w] = @ \cup {First(w)}]}
    BY <1>3 DEF Claim
  <2>2. Cardinality(driving[v] \cup {First(w)}) <= Cardinality(driving[v]) + 1
    BY FS_AddElement
  <2>3. Cardinality(driving[v] \cup {First(w)}) \in Nat
    BY FS_AddElement, FS_CardinalityType
  <2> QED
    BY <2>1, <2>2, <2>3 DEF Room, TypeOK
<1>4. ASSUME NEW w \in Worker, Crash(w)
      PROVE  /\ Cardinality(driving'[v]) <= MaxParallel[v]
             /\ pc'[v] = "claim" => Cardinality(driving'[v]) < MaxParallel[v]
  <2>1. driving'[v] \in SUBSET driving[v] /\ (pc'[v] = "claim" => pc[v] = "claim")
    BY <1>4 DEF Crash, TypeOK
  <2> QED
    BY <2>1 DEF Room
<1>5. ASSUME NEW x \in live, Finish(x)
      PROVE  /\ Cardinality(driving'[v]) <= MaxParallel[v]
             /\ pc'[v] = "claim" => Cardinality(driving'[v]) < MaxParallel[v]
  <2>1. driving'[v] \in SUBSET driving[v] /\ pc' = pc
    BY <1>5 DEF Finish, TypeOK
  <2> QED
    BY <2>1 DEF Room
<1>6. ASSUME NEW r \in Row, Upload(r) \/ Age(r) \/ \E op \in Requests : Ask(op, r) PROVE Room'
  BY <1>6 DEF Upload, Age, Ask, Room
<1>7. ASSUME Apply \/ UNCHANGED vars PROVE Room'
  BY <1>7 DEF Apply, vars, Room
<1> QED
  BY <1>1, <1>2, <1>3, <1>4, <1>5, <1>6, <1>7 DEF Next, Drain, Room

LEMMA DrivenStep == TypeOK /\ AtRow /\ IInv /\ Driven /\ [Next]_vars => Driven'
<1> SUFFICES ASSUME TypeOK, AtRow, IInv, Driven, [Next]_vars,
                    NEW z \in live', Groups[z.row] \notin spoiled'
             PROVE  z.row \in driving'[z.by]
  BY DEF Driven, Sound
<1> USE DEF table, drains, Sound
<1>0. \A x \in live : x.by \in Worker /\ x.row \in Row
  BY DEF TypeOK
<1>1. CASE z \in live /\ spoiled \subseteq spoiled' /\ driving' = driving
  BY <1>1 DEF Driven
<1>2. ASSUME NEW w \in Worker, Claim(w) PROVE z.row \in driving'[z.by]
  <2>1. First(w) \in Row
    BY <1>2, FirstOfRest DEF AtRow, Claim
  <2> QED
    BY <1>0, <1>2, <2>1 DEF Claim, Run, Driven, TypeOK
<1>3. ASSUME NEW w \in Worker, Crash(w) PROVE z.row \in driving'[z.by]
  BY <1>0, <1>3 DEF Crash, Driven, TypeOK
<1>4. ASSUME NEW x \in live, Finish(x) PROVE z.row \in driving'[z.by]
  <2>1. z \in live /\ z # x /\ spoiled' = spoiled
    BY <1>4 DEF Finish
  <2>2. z.row # x.row
    BY <2>1 DEF IInv, RowRunsOnce
  <2> QED
    BY <1>0, <1>4, <2>1, <2>2 DEF Finish, Driven, TypeOK
<1>5. ASSUME NEW w \in Worker, Tick(w) \/ ReadQueue(w) \/ Stop(w) \/ Open(w) \/ GiveUp(w)
      PROVE  z.row \in driving'[z.by]
  BY <1>1, <1>5 DEF Tick, ReadQueue, Stop, Open, GiveUp, Overwrite
<1>6. ASSUME Apply \/ UNCHANGED vars PROVE z.row \in driving'[z.by]
  BY <1>1, <1>6 DEF Apply, Overwrite, vars
<1>7. ASSUME NEW r \in Row, Upload(r) \/ Age(r) \/ \E op \in Requests : Ask(op, r)
      PROVE  z.row \in driving'[z.by]
  BY <1>1, <1>7 DEF Upload, Age, Ask
<1> QED
  BY <1>2, <1>3, <1>4, <1>5, <1>6, <1>7 DEF Next, Drain

\* The runs of a process map one to one into the ids it drives.
LEMMA RunsFit ==
  ASSUME TypeOK, IInv, Driven, Room
  PROVE  ParallelBounded
<1> SUFFICES ASSUME NEW w \in Worker, spoiled = {}
             PROVE  Cardinality({x \in live : x.by = w}) <= MaxParallel[w]
  BY DEF ParallelBounded
<1> DEFINE R == {x \in live : x.by = w}
           f == [x \in R |-> x.row]
<1>1. f \in [R -> driving[w]]
  BY DEF Driven, Sound
<1>2. \A x, y \in R : f[x] = f[y] => x = y
  BY DEF IInv, RowRunsOnce
<1>3. f \in Injection(R, driving[w])
  BY <1>1, <1>2 DEF Injection, IsInjective
<1>4. IsFiniteSet(driving[w]) /\ Cardinality(driving[w]) \in Nat /\ MaxParallel[w] \in Nat
  BY Counted
<1>5. IsFiniteSet(R) /\ Cardinality(R) <= Cardinality(driving[w])
  BY <1>3, <1>4, FS_Injection
<1>6. Cardinality(R) \in Nat
  BY <1>5, FS_CardinalityType
<1> HIDE DEF R
<1>7. Cardinality(R) <= MaxParallel[w]
  BY <1>4, <1>5, <1>6 DEF Room
<1> QED
  BY <1>7 DEF R

\* No process drives more runs than its MAX_PARALLEL (staged-import-worker.ts:154-156),
\* with the file read and the claim between the look and the run.
THEOREM NeverTooMany == Spec => []ParallelBounded
<1>1. Init => Driven /\ Room
  BY ImportQueueAssumption, FS_EmptySet DEF Init, Driven, Room
<1> QED
  BY <1>1, DrivenStep, RoomStep, RunsFit, Invariant, Typed, PTL DEF Spec

-----------------------------------------------------------------------------

\* Rows come in their order, and drains, runs and requests are of rows that have come.
Came ==
  /\ \A q, r \in Row : q < r /\ status[r] # "absent" => status[q] # "absent"
  /\ \A w \in Worker : \A r \in todo[w] : status[r] # "absent"
  /\ \A x \in live : status[x.row] # "absent"
  /\ request # None => status[request.row] # "absent"

\* An earlier row of the group that is still queued is still before the drain,
\* unless it was queued again.
Ordered ==
  \A w \in Worker : pc[w] \in {"scan", "claim", "giveup"} =>
    \A r \in Rest(w), q \in Row \ again :
      q < r /\ Groups[q] = Groups[r] /\ status[q] = "queued" => q \in Rest(w)

LEMMA CameStep == TypeOK /\ AtRow /\ Came /\ [Next]_vars => Came'
<1> SUFFICES ASSUME TypeOK, AtRow, Came, [Next]_vars PROVE Came'
  OBVIOUS
<1> USE DEF Came, table, drains, TypeOK
<1>1. CASE /\ \A r \in Row : (status'[r] = "absent") <=> (status[r] = "absent")
           /\ \A w \in Worker : todo'[w] \subseteq todo[w]
           /\ \A x \in live' : status[x.row] # "absent"
           /\ request' = request
  <2>1. \A x \in live' : status'[x.row] # "absent"
    BY <1>1, TypeStep
  <2>2. request' # None => status'[request'.row] # "absent"
    BY <1>1
  <2>3. \A w \in Worker : \A r \in todo'[w] : status'[r] # "absent"
    BY <1>1
  <2>4. \A q, r \in Row : q < r /\ status'[r] # "absent" => status'[q] # "absent"
    BY <1>1
  <2> QED
    BY <2>1, <2>2, <2>3, <2>4
<1>2. ASSUME NEW w \in Worker, ReadQueue(w) PROVE Came'
  BY <1>2 DEF ReadQueue, FirstQueued, With
<1>3. ASSUME NEW w \in Worker, Tick(w) \/ Stop(w) \/ Crash(w) PROVE Came'
  BY <1>1, <1>3 DEF Tick, Stop, Crash
<1>4. ASSUME NEW w \in Worker, Open(w) PROVE Came'
  BY <1>1, <1>4 DEF Open, Dropped, Rest
<1>5. ASSUME NEW w \in Worker, GiveUp(w) \/ Claim(w) PROVE Came'
  <2>1. First(w) \in Row /\ First(w) \in todo[w]
    BY <1>5, FirstOfRest DEF AtRow, GiveUp, Claim
  <2>2. /\ status[First(w)] # "absent"
        /\ todo' = [todo EXCEPT ![w] = {r \in Rest(w) : r # First(w)}]
        /\ status' = status \/ \E s \in {"running", "error"} : status' = [status EXCEPT ![First(w)] = s]
        /\ live' = live \/ live' = live \cup {Run(w, First(w))}
        /\ request' = request
    BY <1>5, <2>1 DEF GiveUp, Claim, Overwrite, Dropped
  <2> QED
    BY <1>1, <2>1, <2>2 DEF Rest, Run
<1>6. ASSUME NEW x \in live, Finish(x) PROVE Came'
  <2>1. x.row \in Row /\ status[x.row] # "absent" /\ Outcome[x.row] # "absent"
    BY <1>6, ImportQueueAssumption
  <2> QED
    BY <1>1, <1>6, <2>1 DEF Finish
<1>7. ASSUME NEW r \in Row, Upload(r) PROVE Came'
  BY <1>7, ImportQueueAssumption DEF Upload
<1>8. ASSUME NEW r \in Row, Age(r) \/ \E op \in Requests : Ask(op, r) PROVE Came'
  BY <1>8 DEF Age, Ask
<1>9. ASSUME Apply PROVE Came'
  <2>1. request.row \in Row /\ status[request.row] # "absent"
    BY <1>9 DEF Apply
  <2> QED
    BY <1>9, <2>1 DEF Apply, Overwrite
<1>10. ASSUME UNCHANGED vars PROVE Came'
  BY <1>10 DEF vars
<1> QED
  BY <1>2, <1>3, <1>4, <1>5, <1>6, <1>7, <1>8, <1>9, <1>10 DEF Next, Drain

\* What a drain reads has no gap: with a row it has every queued row before it.
LEMMA NoGap ==
  ASSUME TypeOK, NEW r \in FirstQueued, NEW q \in Row, q < r, status[q] = "queued"
  PROVE  q \in FirstQueued
<1> DEFINE Upto(n) == {p \in With("queued") : p <= n}
<1>1. q \in Nat /\ r \in Nat /\ With("queued") \subseteq Nat /\ Limit \in Nat
  BY ImportQueueAssumption DEF FirstQueued, With
<1>2. IsFiniteSet(Upto(r)) /\ Upto(r) \in SUBSET Row
  BY ImportQueueAssumption, FS_Subset DEF With
<1>3. Upto(q) \in SUBSET Upto(r)
  BY <1>1
<1>4. /\ Cardinality(Upto(q)) <= Cardinality(Upto(r))
      /\ Cardinality(Upto(q)) \in Nat /\ Cardinality(Upto(r)) \in Nat
  <2>1. IsFiniteSet(Upto(q)) /\ Cardinality(Upto(q)) <= Cardinality(Upto(r))
    BY <1>2, <1>3, FS_Subset
  <2> QED
    BY <1>2, <2>1, FS_CardinalityType
<1>5. Cardinality(Upto(r)) <= Limit
  BY DEF FirstQueued
<1>6. Cardinality(Upto(q)) <= Limit
  <2> HIDE DEF Upto
  <2> QED
    BY <1>1, <1>4, <1>5
<1> QED
  BY <1>6 DEF FirstQueued, With

LEMMA OrderedStep == TypeOK /\ AtRow /\ Came /\ Ordered /\ [Next]_vars => Ordered'
<1> SUFFICES ASSUME TypeOK, AtRow, Came, Ordered, [Next]_vars PROVE Ordered'
  OBVIOUS
<1> USE DEF Ordered, Rest, Taken, Goto, table, drains, TypeOK
<1>1. ASSUME NEW w \in Worker, ReadQueue(w) PROVE Ordered'
  <2> SUFFICES ASSUME NEW v \in Worker, pc'[v] \in {"scan", "claim", "giveup"},
                      NEW r \in Rest(v)', NEW q \in Row \ again',
                      q < r, Groups[q] = Groups[r], status'[q] = "queued"
               PROVE  q \in Rest(v)'
    OBVIOUS
  <2>1. CASE v = w
    <3>1. r \in FirstQueued
      BY <1>1, <2>1 DEF ReadQueue
    <3>2. q \in FirstQueued
      BY <1>1, <3>1, NoGap DEF ReadQueue
    <3> QED
      BY <1>1, <2>1, <3>2 DEF ReadQueue
  <2>2. CASE v # w
    BY <1>1, <2>2 DEF ReadQueue
  <2> QED
    BY <2>1, <2>2
<1>2. ASSUME NEW w \in Worker, Tick(w) \/ Stop(w) \/ Crash(w) PROVE Ordered'
  BY <1>2 DEF Tick, Stop, Crash
<1>3. ASSUME NEW w \in Worker, Open(w) PROVE Ordered'
  <2>1. First(w) \in Row
    BY <1>3, FirstOfRest DEF Open
  <2> QED
    BY <1>3, <2>1 DEF Open, Dropped
<1>4. ASSUME NEW w \in Worker, GiveUp(w) PROVE Ordered'
  <2>1. First(w) \in Row
    BY <1>4, FirstOfRest DEF AtRow, GiveUp
  <2> QED
    BY <1>4, <2>1 DEF GiveUp, Overwrite, Dropped
<1>5. ASSUME NEW w \in Worker, Claim(w) PROVE Ordered'
  <2>1. First(w) \in Row
    BY <1>5, FirstOfRest DEF AtRow, Claim
  <2> QED
    BY <1>5, <2>1 DEF Claim, NowBusy, Dropped
<1>6. ASSUME NEW x \in live, Finish(x) PROVE Ordered'
  <2>1. x.row \in Row /\ Outcome[x.row] # "queued"
    BY ImportQueueAssumption
  <2> QED
    BY <1>6, <2>1 DEF Finish
<1>7. ASSUME NEW r \in Row, Upload(r) PROVE Ordered'
  BY <1>7 DEF Upload, Came
<1>8. ASSUME NEW r \in Row, Age(r) \/ \E op \in Requests : Ask(op, r) PROVE Ordered'
  BY <1>8 DEF Age, Ask
<1>9. ASSUME Apply PROVE Ordered'
  BY <1>9 DEF Apply, Overwrite
<1>10. ASSUME UNCHANGED vars PROVE Ordered'
  BY <1>10 DEF vars
<1> QED
  BY <1>1, <1>2, <1>3, <1>4, <1>5, <1>6, <1>7, <1>8, <1>9, <1>10 DEF Next, Drain

\* The row that starts is the first of what is left, so no row of its group is
\* queued before it.
LEMMA StartsInOrder ==
  ASSUME TypeOK, AtRow, Ordered, [Next]_vars, NEW r \in Row, Starts(r),
         NEW q \in Row \ again, q < r, Groups[q] = Groups[r]
  PROVE  status[q] # "queued"
<1>1. PICK w \in Worker : Claim(w) /\ r = First(w)
  <2>1. ASSUME NEW w \in Worker, Claim(w) PROVE r = First(w)
    BY <2>1 DEF Starts, Claim, Run
  <2>2. \E w \in Worker : Claim(w)
    BY DEF Starts, Next, Drain, Tick, ReadQueue, Stop, Open, GiveUp, Crash, Finish, Upload, Age, Ask, Apply, vars
  <2> QED
    BY <2>1, <2>2
<1>2. Rest(w) # {} /\ Rest(w) \subseteq Row /\ pc[w] = "claim"
  BY <1>1 DEF AtRow, Claim, Rest, TypeOK
<1>3. r \in Rest(w) /\ \A p \in Rest(w) : r <= p
  BY <1>1, <1>2, FirstOfRest
<1>4. q \notin Rest(w)
  BY <1>3, ImportQueueAssumption
<1> QED
  BY <1>2, <1>3, <1>4 DEF Ordered

\* "a later run of the same table must never overtake an earlier one"
\* (staged-import-worker.ts:211-212), whichever hosts drain the queue.
THEOREM InOrder == Spec => NoOvertake
<1>1. Init => Came /\ Ordered
  BY DEF Init, Came, Ordered
<1>2. TypeOK /\ AtRow /\ Ordered /\ [Next]_vars =>
        [\A r \in Row : Starts(r) =>
           \A q \in Row \ again : q < r /\ Groups[q] = Groups[r] => status[q] # "queued"]_vars
  BY StartsInOrder
<1> QED
  BY <1>1, <1>2, CameStep, OrderedStep, Typed, PTL DEF Spec, NoOvertake

=============================================================================
