---------------------------- MODULE OutboxProofs ----------------------------
(***************************************************************************)
(* Theorems about the outbox, for any number of rows and passes and with   *)
(* failing updates and dying processes.  A pass settles a row with what it *)
(* read when it selected, which may be long out of date: the count of the  *)
(* row it read never runs ahead of the calls of the handler (Behind), and  *)
(* that is all that keeps a row from being given up early.                 *)
(***************************************************************************)
EXTENDS Outbox, WellFoundedInduction, TLAPS

\* Attempts never count more than the calls; a row that may be taken up has one left.
Counted ==
  \A r \in Row :
    /\ attempts[r] <= tries[r]
    /\ status[r] \in {"none", "pending"} => attempts[r] < MAX_ATTEMPTS

\* So does what a pass read.
Behind ==
  \A w \in Pass : \A x \in todo[w] :
    x.attempts < MAX_ATTEMPTS /\ x.attempts <= tries[x.id]

\* The row a pass is at, when its handler was called.
First(w) == {x \in todo[w] : \A y \in todo[w] : x.id <= y.id}
Called ==
  \A w \in Pass : pc[w] \in {"call", "mark", "retry"} =>
    todo[w] # {} /\ \A x \in First(w) : x.attempts + 1 <= tries[x.id]

IInv == TypeOK /\ Counted /\ Behind /\ Called /\ DeadHadItsTries /\ GoneWasHandled

-----------------------------------------------------------------------------

\* A set of rows read that is not empty has a first one.
LEMMA CurIs ==
  ASSUME TypeOK, NEW w \in Pass, todo[w] # {}
  PROVE  Cur(w) \in todo[w] /\ Cur(w) \in First(w)
<1> DEFINE ids == {x.id : x \in todo[w]}
<1>1. todo[w] \subseteq [id : Row, attempts : 0..MAX_ATTEMPTS]
  BY DEF TypeOK
<1>2. ids \subseteq Nat /\ ids # {}
  BY <1>1, OutboxAssumption
<1>3. PICK m \in ids : \A n \in ids : <<n, m>> \notin OpToRel(<, Nat)
  BY <1>2, NatLessThanWellFounded, WFMin
<1>4. OpToRel(<, Nat) = {p \in Nat \X Nat : p[1] < p[2]}
  BY Zenon DEF OpToRel
<1>5. \A n \in ids : m <= n
  <2> TAKE n \in ids
  <2>1. m \in Nat /\ n \in Nat /\ <<n, m>> \notin {p \in Nat \X Nat : p[1] < p[2]}
    BY <1>2, <1>3, <1>4
  <2>2. ~(n < m)
    BY <2>1
  <2> QED
    BY <2>1, <2>2
<1>6. PICK x \in todo[w] : x.id = m
  OBVIOUS
<1>7. \A y \in todo[w] : x.id <= y.id
  BY <1>5, <1>6
<1> QED
  BY <1>7 DEF Cur, First

\* What IInv says of the row a pass is at: its number of calls is above what the
\* pass read.
LEMMA AtRow ==
  ASSUME TypeOK, Called, Behind, NEW w \in Pass, pc[w] \in {"call", "mark", "retry"}
  PROVE  /\ todo[w] # {} /\ Cur(w) \in todo[w] /\ Cur(w).id \in Row
         /\ Cur(w).attempts + 1 \in 1..MAX_ATTEMPTS
         /\ Cur(w).attempts + 1 <= tries[Cur(w).id]
<1>1. todo[w] # {} /\ \A x \in First(w) : x.attempts + 1 <= tries[x.id]
  BY DEF Called
<1>2. Cur(w) \in todo[w] /\ Cur(w) \in First(w)
  BY <1>1, CurIs
<1>3. Cur(w) \in [id : Row, attempts : 0..MAX_ATTEMPTS] /\ Cur(w).attempts < MAX_ATTEMPTS
  BY <1>2 DEF TypeOK, Behind
<1> QED
  BY <1>1, <1>2, <1>3, OutboxAssumption

\* A pass that goes on, or stops, without a look at other rows.
LEMMA Moved ==
  ASSUME IInv, tries' = tries, NEW w \in Pass, NEW S, S \subseteq todo[w],
         todo' = [todo EXCEPT ![w] = S],
         NEW at \in {"idle", "next", "call", "mark", "retry", "sweep"}, Goto(w, at),
         at \notin {"call", "mark", "retry"} \/ (S = todo[w] /\ pc[w] \in {"call", "mark", "retry"})
  PROVE  /\ pc' \in [Pass -> {"idle", "next", "call", "mark", "retry", "sweep"}]
         /\ todo' \in [Pass -> SUBSET [id : Row, attempts : 0..MAX_ATTEMPTS]]
         /\ Behind' /\ Called'
<1>1. /\ pc' \in [Pass -> {"idle", "next", "call", "mark", "retry", "sweep"}]
      /\ todo' \in [Pass -> SUBSET [id : Row, attempts : 0..MAX_ATTEMPTS]]
  BY DEF IInv, TypeOK, Goto
<1>2. Behind'
  <2> SUFFICES ASSUME NEW v \in Pass, NEW x \in todo'[v]
               PROVE  x.attempts < MAX_ATTEMPTS /\ x.attempts <= tries'[x.id]
    BY DEF Behind
  <2>1. x \in todo[v]
    BY DEF IInv, TypeOK
  <2> QED
    BY <2>1 DEF IInv, Behind
<1>3. Called'
  <2> SUFFICES ASSUME NEW v \in Pass, pc'[v] \in {"call", "mark", "retry"}
               PROVE  todo'[v] # {} /\ \A x \in First(v)' : x.attempts + 1 <= tries'[x.id]
    BY DEF Called
  <2>1. todo'[v] = todo[v] /\ pc[v] \in {"call", "mark", "retry"}
    BY DEF IInv, TypeOK, Goto
  <2>2. todo[v] # {} /\ \A x \in First(v) : x.attempts + 1 <= tries[x.id]
    BY <2>1 DEF IInv, Called
  <2> QED
    BY <2>1, <2>2 DEF First
<1> QED
  BY <1>1, <1>2, <1>3

\* Nothing of the passes or the counts changes.
LEMMA Rowwise ==
  ASSUME IInv, UNCHANGED <<pc, todo, tries, attempts>>
  PROVE  Behind' /\ Called'
BY DEF IInv, Behind, Called, First

-----------------------------------------------------------------------------
(* The invariant.                                                          *)

LEMMA Start == Init => IInv
BY OutboxAssumption
   DEF Init, IInv, TypeOK, Counted, Behind, Called, DeadHadItsTries, GoneWasHandled, MaxTries

LEMMA TriedIs ==
  ASSUME TypeOK, NEW r \in Row, Tried(r)
  PROVE  /\ tries' \in [Row -> 0..MaxTries]
         /\ \A q \in Row : tries[q] <= tries'[q]
         /\ tries[r] + 1 <= tries'[r] \/ tries'[r] = MaxTries
BY OutboxAssumption DEF Tried, TypeOK, MaxTries

LEMMA Inductive ==
  ASSUME IInv, [Next]_vars
  PROVE  IInv'
<1> USE OutboxAssumption
<1>1. CASE UNCHANGED vars
  BY <1>1 DEF vars, IInv, TypeOK, Counted, Behind, Called, First, DeadHadItsTries, GoneWasHandled
<1>2. ASSUME NEW r \in Row, Enqueue(r) PROVE IInv'
  <2>1. Behind' /\ Called'
    BY <1>2, Rowwise DEF Enqueue
  <2>2. TypeOK' /\ Counted' /\ DeadHadItsTries' /\ GoneWasHandled'
    BY <1>2 DEF Enqueue, IInv, TypeOK, Counted, DeadHadItsTries, GoneWasHandled
  <2> QED
    BY <2>1, <2>2 DEF IInv
<1>3. ASSUME NEW r \in Row, Ripen(r) \/ Age(r) PROVE IInv'
  <2>1. Behind' /\ Called'
    BY <1>3, Rowwise DEF Ripen, Age
  <2>2. TypeOK' /\ Counted' /\ DeadHadItsTries' /\ GoneWasHandled'
    BY <1>3 DEF Ripen, Age, IInv, TypeOK, Counted, DeadHadItsTries, GoneWasHandled
  <2> QED
    BY <2>1, <2>2 DEF IInv
<1>4. CASE Calm
  <2>1. Behind' /\ Called'
    BY <1>4, Rowwise DEF Calm
  <2>2. TypeOK' /\ Counted' /\ DeadHadItsTries' /\ GoneWasHandled'
    BY <1>4 DEF Calm, IInv, TypeOK, Counted, DeadHadItsTries, GoneWasHandled
  <2> QED
    BY <2>1, <2>2 DEF IInv
<1>5. ASSUME NEW w \in Pass, Select(w) PROVE IInv'
  <2> DEFINE S == {[id |-> r, attempts |-> attempts[r]] : r \in Due}
  <2>1. S \subseteq [id : Row, attempts : 0..MAX_ATTEMPTS]
    <3> SUFFICES ASSUME NEW r \in Due
                 PROVE  [id |-> r, attempts |-> attempts[r]] \in [id : Row, attempts : 0..MAX_ATTEMPTS]
      OBVIOUS
    <3>1. r \in Row /\ attempts[r] \in 0..MAX_ATTEMPTS
      BY DEF Due, DueRows, IInv, TypeOK
    <3> QED
      BY <3>1
  <2>2. \A x \in S : x.attempts < MAX_ATTEMPTS /\ x.attempts <= tries[x.id]
    <3>1. \A r \in Due : attempts[r] < MAX_ATTEMPTS /\ attempts[r] <= tries[r]
      BY DEF Due, DueRows, IInv, Counted
    <3> QED
      BY <3>1
  <2> HIDE DEF S
  <2>3. todo' = [todo EXCEPT ![w] = S] /\ pc' = [pc EXCEPT ![w] = "next"]
    BY <1>5 DEF Select, S
  <2>4. TypeOK'
    BY <1>5, <2>1, <2>3 DEF Select, IInv, TypeOK
  <2>5. Behind'
    BY <1>5, <2>2, <2>3 DEF Select, IInv, TypeOK, Behind
  <2>6. Called'
    <3> SUFFICES ASSUME NEW v \in Pass, pc'[v] \in {"call", "mark", "retry"}
                 PROVE  todo'[v] # {} /\ \A x \in First(v)' : x.attempts + 1 <= tries'[x.id]
      BY DEF Called
    <3>1. todo'[v] = todo[v] /\ pc[v] \in {"call", "mark", "retry"} /\ tries' = tries
      BY <1>5, <2>3 DEF Select, IInv, TypeOK
    <3>2. todo[v] # {} /\ \A x \in First(v) : x.attempts + 1 <= tries[x.id]
      BY <3>1 DEF IInv, Called
    <3> QED
      BY <3>1, <3>2 DEF First
  <2>7. Counted' /\ DeadHadItsTries' /\ GoneWasHandled'
    BY <1>5 DEF Select, IInv, Counted, DeadHadItsTries, GoneWasHandled
  <2> QED
    BY <2>4, <2>5, <2>6, <2>7 DEF IInv
<1>6. ASSUME NEW w \in Pass, NextRow(w) PROVE IInv'
  <2>1. CASE todo[w] = {} /\ Goto(w, "sweep") /\ UNCHANGED <<todo, tries>>
    <3>1. todo' = [todo EXCEPT ![w] = todo[w]]
      BY <2>1 DEF IInv, TypeOK
    <3>2. /\ pc' \in [Pass -> {"idle", "next", "call", "mark", "retry", "sweep"}]
          /\ todo' \in [Pass -> SUBSET [id : Row, attempts : 0..MAX_ATTEMPTS]]
          /\ Behind' /\ Called'
      BY <2>1, <3>1, Moved
    <3> QED
      BY <1>6, <2>1, <3>2 DEF NextRow, IInv, TypeOK, Counted, DeadHadItsTries, GoneWasHandled
  <2>2. CASE todo[w] # {} /\ Rest(w) /\ UNCHANGED <<pc, tries>>
    <3>0. pc[w] = "next"
      BY <1>6 DEF NextRow
    <3>1. Goto(w, "next")
      BY <2>2, <3>0 DEF Goto, IInv, TypeOK
    <3>2. todo[w] \ {Cur(w)} \subseteq todo[w] /\ todo' = [todo EXCEPT ![w] = todo[w] \ {Cur(w)}]
      BY <2>2 DEF Rest
    <3>3. /\ pc' \in [Pass -> {"idle", "next", "call", "mark", "retry", "sweep"}]
          /\ todo' \in [Pass -> SUBSET [id : Row, attempts : 0..MAX_ATTEMPTS]]
          /\ Behind' /\ Called'
      BY <2>2, <3>1, <3>2, Moved
    <3> QED
      BY <1>6, <2>2, <3>3 DEF NextRow, IInv, TypeOK, Counted, DeadHadItsTries, GoneWasHandled
  <2>3. CASE todo[w] # {} /\ Goto(w, "call") /\ Tried(Cur(w).id) /\ UNCHANGED todo
    <3>1. Cur(w) \in todo[w] /\ Cur(w) \in First(w)
      BY <2>3, CurIs DEF IInv
    <3>2. PICK c \in First(w) : c = Cur(w)
      BY <3>1
    <3>3. c \in todo[w] /\ c.id \in Row
      BY <3>2 DEF First, IInv, TypeOK
    <3>4. /\ tries' \in [Row -> 0..MaxTries]
          /\ \A q \in Row : tries[q] <= tries'[q]
          /\ tries[c.id] + 1 <= tries'[c.id] \/ tries'[c.id] = MaxTries
      BY <2>3, <3>2, <3>3, TriedIs DEF IInv
    <3>9. ASSUME NEW q \in Row, NEW n \in Nat, n <= tries[q] PROVE n <= tries'[q]
      BY <3>4, <3>9 DEF IInv, TypeOK, MaxTries
    <3>5. TypeOK'
      BY <1>6, <2>3, <3>4 DEF NextRow, Goto, IInv, TypeOK
    <3>6. Counted' /\ DeadHadItsTries' /\ GoneWasHandled'
      BY <1>6, <3>4 DEF NextRow, IInv, TypeOK, Counted, DeadHadItsTries, GoneWasHandled, MaxTries
    <3>7. Behind'
      <4> SUFFICES ASSUME NEW v \in Pass, NEW x \in todo[v]
                   PROVE  x.attempts < MAX_ATTEMPTS /\ x.attempts <= tries'[x.id]
        BY <2>3 DEF Behind
      <4>1. x.id \in Row /\ x.attempts \in Nat
        BY DEF IInv, TypeOK
      <4>2. x.attempts < MAX_ATTEMPTS /\ x.attempts <= tries[x.id]
        BY DEF IInv, Behind
      <4> QED
        BY <3>9, <4>1, <4>2
    <3>8. Called'
      <4> SUFFICES ASSUME NEW v \in Pass, pc'[v] \in {"call", "mark", "retry"}
                   PROVE  todo[v] # {} /\ \A x \in First(v) : x.attempts + 1 <= tries'[x.id]
        BY <2>3 DEF Called, First
      <4>1. ASSUME NEW x \in First(v) PROVE x.id \in Row /\ x.attempts \in Nat
        BY <4>1 DEF First, IInv, TypeOK
      <4>2. CASE v # w
        <5>1. pc[v] \in {"call", "mark", "retry"}
          BY <2>3, <4>2 DEF Goto, IInv, TypeOK
        <5>2. todo[v] # {} /\ \A x \in First(v) : x.attempts + 1 <= tries[x.id]
          BY <5>1 DEF IInv, Called
        <5> QED
          <6> SUFFICES ASSUME NEW x \in First(v) PROVE x.attempts + 1 <= tries'[x.id]
            BY <5>2
          <6>1. x.id \in Row /\ x.attempts + 1 \in Nat /\ x.attempts + 1 <= tries[x.id]
            BY <4>1, <5>2
          <6> QED
            BY <3>9, <6>1
      <4>3. CASE v = w
        <5> SUFFICES ASSUME NEW x \in First(w) PROVE x.attempts + 1 <= tries'[x.id]
          BY <2>3, <4>3
        <5>1. x.id = c.id
          <6>1. x \in todo[w] /\ c \in todo[w] /\ x.id <= c.id /\ c.id <= x.id
            BY <3>2, <3>3 DEF First
          <6>2. x.id \in Nat /\ c.id \in Nat
            BY <3>3, <4>1, <4>3
          <6> QED
            BY <6>1, <6>2
        <5>2. x \in todo[w] /\ x.attempts < MAX_ATTEMPTS /\ x.attempts <= tries[x.id]
          BY DEF First, IInv, Behind
        <5> QED
          <6>1. x.attempts \in Nat /\ x.attempts <= tries[c.id] /\ tries[c.id] \in 0..MaxTries
            BY <3>3, <4>1, <4>3, <5>1, <5>2 DEF IInv, TypeOK
          <6>2. tries[c.id] + 1 <= tries'[c.id] \/ tries'[c.id] = MaxTries
            BY <3>4
          <6>3. tries'[c.id] \in 0..MaxTries
            BY <3>3, <3>4
          <6> QED
            BY <5>1, <5>2, <6>1, <6>2, <6>3 DEF MaxTries
      <4> QED
        BY <4>2, <4>3
    <3> QED
      BY <3>5, <3>6, <3>7, <3>8 DEF IInv
  <2> QED
    BY <1>6, <2>1, <2>2, <2>3 DEF NextRow
<1>7. ASSUME NEW w \in Pass, Call(w) PROVE IInv'
  <2>1. PICK o \in Outcomes : /\ sent' = IF o.sent THEN sent \cup {Cur(w).id} ELSE sent
                              /\ Goto(w, o.at)
    BY <1>7 DEF Call
  <2>2. o.at \in {"mark", "retry"}
    BY DEF Outcomes
  <2>3. PICK at \in {"mark", "retry"} : at = o.at
    BY <2>2
  <2>4. todo' = [todo EXCEPT ![w] = todo[w]] /\ pc[w] = "call"
    BY <1>7 DEF Call, IInv, TypeOK
  <2>5. /\ pc' \in [Pass -> {"idle", "next", "call", "mark", "retry", "sweep"}]
        /\ todo' \in [Pass -> SUBSET [id : Row, attempts : 0..MAX_ATTEMPTS]]
        /\ Behind' /\ Called'
    <3>1. tries' = tries /\ Goto(w, at)
      BY <1>7, <2>1, <2>3 DEF Call
    <3> QED
      BY <2>4, <3>1, Moved
  <2>6. Cur(w).id \in Row
    BY <2>4, AtRow DEF IInv
  <2>7. sent' \subseteq Row
    BY <2>1, <2>6 DEF IInv, TypeOK
  <2> QED
    BY <1>7, <2>5, <2>7 DEF Call, IInv, TypeOK, Counted, DeadHadItsTries, GoneWasHandled
<1>8. ASSUME NEW w \in Pass, Mark(w) PROVE IInv'
  <2>0. pc[w] = "mark" /\ tries' = tries /\ UNCHANGED <<attempts, due, old, sent, faulty>>
    BY <1>8 DEF Mark
  <2>1. /\ todo[w] # {} /\ Cur(w).id \in Row /\ Cur(w).attempts + 1 \in 1..MAX_ATTEMPTS
        /\ Cur(w).attempts + 1 <= tries[Cur(w).id]
    BY <2>0, AtRow DEF IInv
  <2>2. PICK r \in Row : r = Cur(w).id
    BY <2>1
  <2>3. CASE Update(Cur(w).id, "delivered") /\ Rest(w) /\ Goto(w, "next")
    <3>1. todo[w] \ {Cur(w)} \subseteq todo[w] /\ todo' = [todo EXCEPT ![w] = todo[w] \ {Cur(w)}]
      BY <2>3 DEF Rest
    <3>2. /\ pc' \in [Pass -> {"idle", "next", "call", "mark", "retry", "sweep"}]
          /\ todo' \in [Pass -> SUBSET [id : Row, attempts : 0..MAX_ATTEMPTS]]
          /\ Behind' /\ Called'
      BY <2>0, <2>3, <3>1, Moved
    <3>3. tries[r] > 0
      BY <2>1, <2>2 DEF IInv, TypeOK
    <3>4. status' \in [Row -> {"none", "pending", "delivered", "dead", "gone"}]
      BY <2>2, <2>3 DEF Update, IInv, TypeOK
    <3>5. \A q \in Row : status'[q] = status[q] \/ (q = r /\ status'[q] = "delivered")
      BY <2>2, <2>3 DEF Update, IInv, TypeOK
    <3>6. TypeOK'
      BY <2>0, <3>2, <3>4 DEF IInv, TypeOK
    <3>7. Counted' /\ DeadHadItsTries' /\ GoneWasHandled'
      BY <2>0, <3>3, <3>5 DEF IInv, Counted, DeadHadItsTries, GoneWasHandled
    <3> QED
      BY <3>2, <3>6, <3>7 DEF IInv
  <2>4. CASE Goto(w, "retry") /\ UNCHANGED <<status, todo>>
    <3>1. todo' = [todo EXCEPT ![w] = todo[w]]
      BY <2>4 DEF IInv, TypeOK
    <3>2. /\ pc' \in [Pass -> {"idle", "next", "call", "mark", "retry", "sweep"}]
          /\ todo' \in [Pass -> SUBSET [id : Row, attempts : 0..MAX_ATTEMPTS]]
          /\ Behind' /\ Called'
      BY <2>0, <2>4, <3>1, Moved
    <3> QED
      BY <2>0, <2>4, <3>2 DEF IInv, TypeOK, Counted, DeadHadItsTries, GoneWasHandled
  <2> QED
    BY <1>8, <2>3, <2>4 DEF Mark
<1>9. ASSUME NEW w \in Pass, Retry(w) PROVE IInv'
  <2>0. /\ pc[w] = "retry" /\ tries' = tries /\ UNCHANGED <<old, sent, faulty>>
        /\ Rest(w) /\ Goto(w, "next")
    BY <1>9 DEF Retry
  <2>1. /\ todo[w] # {} /\ Cur(w).id \in Row /\ Cur(w).attempts + 1 \in 1..MAX_ATTEMPTS
        /\ Cur(w).attempts + 1 <= tries[Cur(w).id]
    BY <2>0, AtRow DEF IInv
  <2>2. PICK r \in Row : r = Cur(w).id
    BY <2>1
  <2>3. PICK n \in 1..MAX_ATTEMPTS : n = Cur(w).attempts + 1 /\ n <= tries[r]
    BY <2>1, <2>2
  <2>4. todo[w] \ {Cur(w)} \subseteq todo[w] /\ todo' = [todo EXCEPT ![w] = todo[w] \ {Cur(w)}]
    BY <2>0 DEF Rest
  <2>5. /\ pc' \in [Pass -> {"idle", "next", "call", "mark", "retry", "sweep"}]
        /\ todo' \in [Pass -> SUBSET [id : Row, attempts : 0..MAX_ATTEMPTS]]
        /\ Behind' /\ Called'
    BY <2>0, <2>4, Moved
  <2>6. CASE /\ Update(r, AfterFailure(n))
             /\ attempts' = [attempts EXCEPT ![r] = n]
             /\ due' = [due EXCEPT ![r] = FALSE]
    <3>1. status' \in [Row -> {"none", "pending", "delivered", "dead", "gone"}]
      BY <2>6 DEF Update, AfterFailure, IInv, TypeOK
    <3>2. \A q \in Row : q # r => status'[q] = status[q]
      BY <2>6 DEF Update, IInv, TypeOK
    <3>3. \/ status[r] = "gone" /\ status'[r] = "gone"
          \/ n >= MAX_ATTEMPTS /\ status'[r] = "dead"
          \/ n < MAX_ATTEMPTS /\ status'[r] = "pending"
      BY <2>6 DEF Update, AfterFailure, IInv, TypeOK
    <3>4. TypeOK'
      <4>1. attempts' \in [Row -> 0..MAX_ATTEMPTS] /\ due' \in [Row -> BOOLEAN]
        BY <2>6 DEF IInv, TypeOK
      <4> QED
        BY <2>0, <2>5, <3>1, <4>1 DEF IInv, TypeOK
    <3>5. Counted'
      BY <2>0, <2>3, <2>6, <3>2, <3>3 DEF IInv, TypeOK, Counted
    <3>6. DeadHadItsTries' /\ GoneWasHandled'
      BY <2>0, <2>3, <3>2, <3>3 DEF IInv, TypeOK, DeadHadItsTries, GoneWasHandled
    <3> QED
      BY <2>5, <3>4, <3>5, <3>6 DEF IInv
  <2>7. CASE UNCHANGED <<status, attempts, due>>
    BY <2>0, <2>5, <2>7 DEF IInv, TypeOK, Counted, DeadHadItsTries, GoneWasHandled
  <2> QED
    BY <1>9, <2>2, <2>3, <2>6, <2>7 DEF Retry
<1>10. ASSUME NEW w \in Pass, Sweep(w) PROVE IInv'
  <2>1. todo' = [todo EXCEPT ![w] = todo[w]] /\ tries' = tries /\ Goto(w, "idle")
    BY <1>10 DEF Sweep, IInv, TypeOK
  <2>2. /\ pc' \in [Pass -> {"idle", "next", "call", "mark", "retry", "sweep"}]
        /\ todo' \in [Pass -> SUBSET [id : Row, attempts : 0..MAX_ATTEMPTS]]
        /\ Behind' /\ Called'
    BY <2>1, Moved
  <2>3. \A q \in Row : status'[q] = IF q \in Swept THEN "gone" ELSE status[q]
    BY <1>10 DEF Sweep
  <2>4. TypeOK'
    BY <1>10, <2>2 DEF Sweep, IInv, TypeOK
  <2>5. Counted' /\ DeadHadItsTries' /\ GoneWasHandled'
    BY <1>10, <2>3 DEF Sweep, Swept, IInv, Counted, DeadHadItsTries, GoneWasHandled
  <2> QED
    BY <2>2, <2>4, <2>5 DEF IInv
<1>11. ASSUME NEW w \in Pass, Crash(w) PROVE IInv'
  <2>1. /\ pc' \in [Pass -> {"idle", "next", "call", "mark", "retry", "sweep"}]
        /\ todo' \in [Pass -> SUBSET [id : Row, attempts : 0..MAX_ATTEMPTS]]
        /\ Behind' /\ Called'
    <3>1. PICK S \in SUBSET todo[w] : S = {}
      OBVIOUS
    <3>2. PICK at \in {"idle", "next"} : at = "idle"
      OBVIOUS
    <3>3. todo' = [todo EXCEPT ![w] = S] /\ Goto(w, at) /\ tries' = tries
      BY <1>11, <3>1, <3>2 DEF Crash
    <3> QED
      BY <3>3, Moved
  <2> QED
    BY <1>11, <2>1 DEF Crash, IInv, TypeOK, Counted, DeadHadItsTries, GoneWasHandled
<1> QED
  BY <1>1, <1>2, <1>3, <1>4, <1>5, <1>6, <1>7, <1>8, <1>9, <1>10, <1>11 DEF Next, Work

-----------------------------------------------------------------------------
(* Theorems.                                                               *)

LEMMA AlwaysIInv == Spec => []IInv
<1>1. IInv /\ [Next]_vars => IInv'
  BY Inductive
<1> QED
  BY Start, <1>1, PTL DEF Spec

\* Rows, passes and what they read keep their shape (outbox.ts:21-118), and a
\* row's attempts never exceed MAX_ATTEMPTS, however many passes overlap.
THEOREM TypesHold == Spec => []TypeOK
<1>1. IInv => TypeOK
  BY DEF IInv
<1> QED
  BY AlwaysIInv, <1>1, PTL

\* A row is given up only after MAX_ATTEMPTS calls of its handler, for any
\* number of overlapping passes, dead processes and failing updates.
THEOREM DeadHadItsTriesHolds == Spec => []DeadHadItsTries
<1>1. IInv => DeadHadItsTries
  BY DEF IInv
<1> QED
  BY AlwaysIInv, <1>1, PTL

\* For what retention deletes, and what counts as delivered, the handler was called.
THEOREM GoneWasHandledHolds == Spec => []GoneWasHandled
<1>1. IInv => GoneWasHandled
  BY DEF IInv
<1> QED
  BY AlwaysIInv, <1>1, PTL

\* A settled row that no pass has in hand is settled for good.
THEOREM SettledStaysHolds == Spec => SettledStays
<1> DEFINE Apart(r) == Settled(r) /\ \A w \in Pass : r \notin ReadBy(w)
<1>1. ASSUME IInv, [Next]_vars, NEW r \in Row, Apart(r)
      PROVE  Settled(r)' /\ \A w \in Pass : r \notin ReadBy(w)'
  <2> USE <1>1 DEF ReadBy
  <2>1. ASSUME NEW w \in Pass, pc[w] \in {"mark", "retry"} PROVE Cur(w).id # r
    BY <2>1, AtRow DEF IInv
  <2>2. ASSUME NEW w \in Pass, NEW S, S \subseteq todo[w], todo' = [todo EXCEPT ![w] = S]
        PROVE  \A v \in Pass : r \notin ReadBy(v)'
    BY <2>2 DEF IInv, TypeOK
  <2>3. CASE UNCHANGED vars
    BY <2>3 DEF vars, Settled
  <2>4. ASSUME NEW q \in Row, Enqueue(q) \/ Ripen(q) \/ Age(q)
        PROVE  Settled(r)' /\ \A w \in Pass : r \notin ReadBy(w)'
    BY <2>4 DEF Enqueue, Ripen, Age, Settled, IInv, TypeOK
  <2>5. CASE Calm
    BY <2>5 DEF Calm, Settled
  <2>6. ASSUME NEW w \in Pass, Select(w)
        PROVE  Settled(r)' /\ \A v \in Pass : r \notin ReadBy(v)'
    <3>1. r \notin Due
      BY DEF Due, DueRows, Settled
    <3>2. ASSUME NEW v \in Pass PROVE r \notin ReadBy(v)'
      BY <2>6, <3>1, <3>2 DEF Select, IInv, TypeOK
    <3> QED
      BY <2>6, <3>2 DEF Select, Settled
  <2>7. ASSUME NEW w \in Pass, NextRow(w) \/ Call(w) \/ Crash(w) \/ Sweep(w)
        PROVE  Settled(r)' /\ \A v \in Pass : r \notin ReadBy(v)'
    <3>1. Settled(r)'
      BY <2>7 DEF NextRow, Call, Crash, Sweep, Settled
    <3>2. \E S : S \subseteq todo[w] /\ todo' = [todo EXCEPT ![w] = S]
      <4>1. CASE UNCHANGED todo
        <5>1. todo' = [todo EXCEPT ![w] = todo[w]]
          BY <4>1 DEF IInv, TypeOK
        <5> QED
          BY <5>1
      <4>2. CASE Rest(w)
        BY <4>2 DEF Rest
      <4>3. CASE todo' = [todo EXCEPT ![w] = {}]
        BY <4>3
      <4> QED
        BY <2>7, <4>1, <4>2, <4>3 DEF NextRow, Call, Crash, Sweep
    <3> QED
      BY <2>2, <3>1, <3>2
  <2>8. ASSUME NEW w \in Pass, Mark(w) \/ Retry(w)
        PROVE  Settled(r)' /\ \A v \in Pass : r \notin ReadBy(v)'
    <3>1. Cur(w).id # r
      BY <2>1, <2>8 DEF Mark, Retry
    <3>2. Settled(r)'
      <4>1. status'[r] = status[r]
        BY <2>8, <3>1 DEF Mark, Retry, Update, IInv, TypeOK
      <4> QED
        BY <4>1 DEF Settled
    <3>3. UNCHANGED todo \/ Rest(w)
      BY <2>8 DEF Mark, Retry
    <3>4. CASE UNCHANGED todo
      BY <3>2, <3>4
    <3>5. CASE Rest(w)
      BY <2>2, <3>2, <3>5 DEF Rest
    <3> QED
      BY <3>3, <3>4, <3>5
  <2> QED
    BY <2>3, <2>4, <2>5, <2>6, <2>7, <2>8 DEF Next, Work
<1>2. IInv /\ [Next]_vars =>
        [\A r \in Row : Settled(r) /\ (\A w \in Pass : r \notin ReadBy(w))
           => Settled(r)' /\ \A w \in Pass : r \notin ReadBy(w)']_vars
  BY <1>1
<1> QED
  BY AlwaysIInv, <1>2, PTL DEF Spec, SettledStays

-----------------------------------------------------------------------------
(* Durable work.                                                           *)

\* A pass has a row once, and none between its passes.
Once(w) == \A x, y \in todo[w] : x.id = y.id => x = y
Emptied(w) == pc[w] \in {"idle", "sweep"} => todo[w] = {}
Read == \A w \in Pass : Once(w) /\ Emptied(w)

\* What a pass reads no more does not come twice.
LEMMA Fewer ==
  ASSUME IInv, Read, NEW w \in Pass, NEW S, S \subseteq todo[w],
         todo' = [todo EXCEPT ![w] = S],
         \/ pc' = [pc EXCEPT ![w] = "idle"] /\ S = {}
         \/ \E at \in {"next", "call", "mark", "retry"} : pc' = [pc EXCEPT ![w] = at]
  PROVE  Read'
<1> SUFFICES ASSUME NEW v \in Pass PROVE Once(v)' /\ Emptied(v)'
  BY DEF Read
<1>1. CASE v # w
  <2>1. todo'[v] = todo[v] /\ pc'[v] = pc[v]
    BY <1>1 DEF IInv, TypeOK
  <2> QED
    BY <2>1 DEF Read, Once, Emptied
<1>2. CASE v = w
  <2>1. todo'[v] = S /\ (pc'[v] \in {"idle", "sweep"} => S = {})
    BY <1>2 DEF IInv, TypeOK
  <2> QED
    BY <1>2, <2>1 DEF Read, Once, Emptied
<1> QED
  BY <1>1, <1>2

LEMMA ReadStep ==
  ASSUME IInv, Read, [Next]_vars
  PROVE  Read'
<1>1. CASE UNCHANGED <<pc, todo>>
  BY <1>1 DEF Read, Once, Emptied
<1>2. ASSUME NEW w \in Pass, Select(w) PROVE Read'
  <2> DEFINE S == {[id |-> r, attempts |-> attempts[r]] : r \in Due}
  <2>1. \A x, y \in S : x.id = y.id => x = y
    OBVIOUS
  <2> HIDE DEF S
  <2>2. todo' = [todo EXCEPT ![w] = S] /\ pc' = [pc EXCEPT ![w] = "next"]
    BY <1>2 DEF Select, S
  <2> SUFFICES ASSUME NEW v \in Pass PROVE Once(v)' /\ Emptied(v)'
    BY DEF Read
  <2>3. CASE v # w
    <3>1. todo'[v] = todo[v] /\ pc'[v] = pc[v]
      BY <2>2, <2>3 DEF IInv, TypeOK
    <3> QED
      BY <3>1 DEF Read, Once, Emptied
  <2>4. CASE v = w
    <3>1. todo'[v] = S /\ pc'[v] = "next"
      BY <2>2, <2>4 DEF IInv, TypeOK
    <3> QED
      BY <2>1, <3>1 DEF Once, Emptied
  <2> QED
    BY <2>3, <2>4
<1>3. ASSUME NEW w \in Pass, NextRow(w) PROVE Read'
  <2>1. CASE todo[w] = {} /\ Goto(w, "sweep") /\ UNCHANGED todo
    BY <2>1 DEF Goto, IInv, TypeOK, Read, Once, Emptied
  <2>2. CASE Rest(w) /\ UNCHANGED pc
    <3>1. pc' = [pc EXCEPT ![w] = "next"]
      BY <1>3, <2>2 DEF NextRow, IInv, TypeOK
    <3>2. todo[w] \ {Cur(w)} \subseteq todo[w] /\ todo' = [todo EXCEPT ![w] = todo[w] \ {Cur(w)}]
      BY <2>2 DEF Rest
    <3> QED
      BY <3>1, <3>2, Fewer
  <2>3. CASE Goto(w, "call") /\ UNCHANGED todo
    <3>1. todo' = [todo EXCEPT ![w] = todo[w]] /\ pc' = [pc EXCEPT ![w] = "call"]
      BY <2>3 DEF Goto, IInv, TypeOK
    <3> QED
      BY <3>1, Fewer
  <2> QED
    BY <1>3, <2>1, <2>2, <2>3 DEF NextRow
<1>4. ASSUME NEW w \in Pass, Call(w) \/ Mark(w) \/ Retry(w) PROVE Read'
  <2>1. \E at \in {"next", "call", "mark", "retry"} : pc' = [pc EXCEPT ![w] = at]
    BY <1>4 DEF Call, Mark, Retry, Goto, Outcomes
  <2>2. \E S : S \subseteq todo[w] /\ todo' = [todo EXCEPT ![w] = S]
    <3>1. CASE UNCHANGED todo
      <4>1. todo' = [todo EXCEPT ![w] = todo[w]]
        BY <3>1 DEF IInv, TypeOK
      <4> QED
        BY <4>1
    <3>2. CASE Rest(w)
      BY <3>2 DEF Rest
    <3> QED
      BY <1>4, <3>1, <3>2 DEF Call, Mark, Retry
  <2> QED
    BY <2>1, <2>2, Fewer
<1>5. ASSUME NEW w \in Pass, Sweep(w) PROVE Read'
  <2>1. todo[w] = {}
    BY <1>5 DEF Sweep, Read, Emptied
  <2>2. {} \subseteq todo[w] /\ todo' = [todo EXCEPT ![w] = {}] /\ pc' = [pc EXCEPT ![w] = "idle"]
    BY <1>5, <2>1 DEF Sweep, Goto, IInv, TypeOK
  <2>3. PICK S \in SUBSET todo[w] : S = {}
    OBVIOUS
  <2> QED
    BY <2>2, <2>3, Fewer
<1>6. ASSUME NEW w \in Pass, Crash(w) PROVE Read'
  <2>1. {} \subseteq todo[w] /\ todo' = [todo EXCEPT ![w] = {}] /\ pc' = [pc EXCEPT ![w] = "idle"]
    BY <1>6 DEF Crash, Goto
  <2>2. PICK S \in SUBSET todo[w] : S = {}
    OBVIOUS
  <2> QED
    BY <2>1, <2>2, Fewer
<1>7. CASE UNCHANGED vars
  BY <1>1, <1>7 DEF vars
<1>8. ASSUME NEW r \in Row, Enqueue(r) \/ Ripen(r) \/ Age(r) PROVE Read'
  BY <1>1, <1>8 DEF Enqueue, Ripen, Age
<1>9. CASE Calm
  BY <1>1, <1>9 DEF Calm
<1> QED
  BY <1>2, <1>3, <1>4, <1>5, <1>6, <1>7, <1>8, <1>9 DEF Next, Work

Hands == [w \in Pass |-> ReadBy(w)]
StoreStep == [Store!Next]_(Store!workVars)

LEMMA Unseen ==
  ASSUME UNCHANGED <<status, tries, todo>>
  PROVE  StoreStep
BY DEF StoreStep, Store!workVars, ReadBy

\* The hands of a pass are the ids of what it has still to do.
LEMMA HandsAre ==
  ASSUME TypeOK, NEW w \in Pass, NEW S, todo' = [todo EXCEPT ![w] = S]
  PROVE  Hands' = [Hands EXCEPT ![w] = {x.id : x \in S}]
<1>1. \A v \in Pass : todo'[v] = IF v = w THEN S ELSE todo[v]
  BY DEF TypeOK
<1>2. \A v \in Pass : Hands'[v] = IF v = w THEN {x.id : x \in S} ELSE Hands[v]
  BY <1>1 DEF Hands, ReadBy
<1>3. Hands = [v \in Pass |-> Hands[v]] /\ Hands' = [v \in Pass |-> Hands'[v]]
  BY DEF Hands
<1> QED
  BY <1>2, <1>3

LEMMA HandOf ==
  ASSUME NEW w \in Pass, NEW x \in todo[w]
  PROVE  x.id \in Hands[w]
BY DEF Hands, ReadBy

\* A pass that is through with a row puts it down.
LEMMA PutsDown ==
  ASSUME IInv, Read, NEW w \in Pass, todo[w] # {}, Rest(w)
  PROVE  /\ Cur(w).id \in Row /\ Cur(w).id \in Hands[w]
         /\ Hands' = [Hands EXCEPT ![w] = @ \ {Cur(w).id}]
<1>1. Cur(w) \in todo[w]
  BY CurIs DEF IInv
<1>2. PICK c \in todo[w] : c = Cur(w)
  BY <1>1
<1>3. Hands[w] = {x.id : x \in todo[w]}
  BY DEF Hands, ReadBy
<1>4. {x.id : x \in todo[w] \ {c}} = {x.id : x \in todo[w]} \ {c.id}
  BY <1>2 DEF Read, Once
<1>5. Hands' = [Hands EXCEPT ![w] = {x.id : x \in todo[w] \ {c}}]
  <2>1. todo' = [todo EXCEPT ![w] = todo[w] \ {c}]
    BY <1>2 DEF Rest
  <2> QED
    BY <2>1, HandsAre DEF IInv
<1>6. c.id \in Row
  BY DEF IInv, TypeOK
<1>7. c.id \in Hands[w]
  BY HandOf
<1> QED
  BY <1>2, <1>3, <1>4, <1>5, <1>6, <1>7

\* Every step of the outbox is one of the store of durable work, or a stutter.
LEMMA WorkSteps ==
  ASSUME IInv, Read, [Next]_vars
  PROVE  StoreStep
<1> USE OutboxAssumption
<1>1. CASE UNCHANGED vars
  BY <1>1, Unseen DEF vars
<1>2. ASSUME NEW r \in Row, Ripen(r) \/ Age(r) PROVE StoreStep
  BY <1>2, Unseen DEF Ripen, Age
<1>3. CASE Calm
  BY <1>3, Unseen DEF Calm
<1>4. ASSUME NEW r \in Row, Enqueue(r) PROVE StoreStep
  <2>1. Hands' = Hands
    BY <1>4 DEF Enqueue, Hands, ReadBy
  <2>2. Store!Leave(r)
    BY <1>4, <2>1 DEF Enqueue, Store!Leave, Hands
  <2> QED
    BY <2>2 DEF StoreStep, Store!Next
<1>5. ASSUME NEW w \in Pass, Select(w) PROVE StoreStep
  <2> DEFINE S == {[id |-> r, attempts |-> attempts[r]] : r \in Due}
  <2>1. todo' = [todo EXCEPT ![w] = S] /\ UNCHANGED <<status, tries>>
    BY <1>5 DEF Select
  <2>2. {x.id : x \in S} = Due
    <3>1. ASSUME NEW r \in Due PROVE r \in {x.id : x \in S}
      <4>1. [id |-> r, attempts |-> attempts[r]] \in S /\ [id |-> r, attempts |-> attempts[r]].id = r
        OBVIOUS
      <4> QED
        BY <4>1, Zenon
    <3>2. ASSUME NEW x \in S PROVE x.id \in Due
      OBVIOUS
    <3> QED
      BY <3>1, <3>2
  <2> HIDE DEF S
  <2>3. Hands' = [Hands EXCEPT ![w] = Due]
    BY <2>1, <2>2, HandsAre DEF IInv
  <2>4. Hands[w] = {}
    BY <1>5 DEF Select, Read, Emptied, Hands, ReadBy
  <2>5. Due \in SUBSET {i \in Row : status[i] = "pending"}
    BY DEF Due, DueRows
  <2>6. Store!Take(w)
    BY <2>1, <2>3, <2>4, <2>5 DEF Store!Take, Hands
  <2> QED
    BY <2>6 DEF StoreStep, Store!Next
<1>6. ASSUME NEW w \in Pass, NextRow(w) PROVE StoreStep
  <2>0. status' = status
    BY <1>6 DEF NextRow
  <2>1. CASE UNCHANGED <<todo, tries>>
    BY <2>0, <2>1, Unseen
  <2>2. CASE todo[w] # {} /\ Rest(w) /\ UNCHANGED tries
    <3>1. PICK r \in Row : r = Cur(w).id /\ r \in Hands[w] /\ Hands' = [Hands EXCEPT ![w] = @ \ {r}]
      BY <2>2, PutsDown
    <3>2. Store!Leftover(w, r)
      BY <2>0, <2>2, <3>1 DEF Store!Leftover, Store!PutDown, Hands
    <3> QED
      BY <3>2 DEF StoreStep, Store!Next
  <2>3. CASE todo[w] # {} /\ Tried(Cur(w).id) /\ UNCHANGED todo
    <3>1. Cur(w) \in todo[w]
      BY <2>3, CurIs DEF IInv
    <3>2. PICK r \in Row : r = Cur(w).id /\ r \in Hands[w]
      <4>1. Cur(w).id \in Row
        BY <3>1 DEF IInv, TypeOK
      <4>2. Cur(w).id \in Hands[w]
        BY <3>1, HandOf
      <4> QED
        BY <4>1, <4>2
    <3>3. Hands' = Hands
      BY <2>3 DEF Hands, ReadBy
    <3>4. tries[r] \in 0..MaxTries
      BY DEF IInv, TypeOK
    <3>5. CASE tries[r] < MaxTries
      <4>1. tries[r] <= MAX_ATTEMPTS /\ tries' = [tries EXCEPT ![r] = @ + 1]
        BY <2>3, <3>2, <3>4, <3>5 DEF Tried, MaxTries
      <4>2. Store!Call(w, r)
        BY <2>0, <3>2, <3>3, <4>1 DEF Store!Call, Hands
      <4> QED
        BY <4>2 DEF StoreStep, Store!Next
    <3>6. CASE ~(tries[r] < MaxTries)
      <4>1. tries' = tries
        BY <2>3, <3>2, <3>6 DEF Tried, IInv, TypeOK
      <4> QED
        BY <2>0, <2>3, <4>1, Unseen
    <3> QED
      BY <3>5, <3>6
  <2> QED
    BY <1>6, <2>1, <2>2, <2>3 DEF NextRow
<1>7. ASSUME NEW w \in Pass, Call(w) PROVE StoreStep
  BY <1>7, Unseen DEF Call
<1>8. ASSUME NEW w \in Pass, NEW r \in Row, r = Cur(w).id, pc[w] \in {"mark", "retry"}, Rest(w),
             tries' = tries,
             NEW s \in {"delivered", "pending", "dead"}, s = "dead" => tries[r] >= MAX_ATTEMPTS,
             Update(r, s) \/ UNCHANGED status
      PROVE  StoreStep
  <2>1. todo[w] # {} /\ tries[r] > 0
    <3>1. /\ todo[w] # {} /\ Cur(w).attempts + 1 \in 1..MAX_ATTEMPTS
          /\ Cur(w).attempts + 1 <= tries[Cur(w).id]
      BY <1>8, AtRow DEF IInv
    <3> QED
      BY <1>8, <3>1 DEF IInv, TypeOK
  <2>2. r \in Hands[w] /\ Hands' = [Hands EXCEPT ![w] = @ \ {r}]
    BY <1>8, <2>1, PutsDown
  <2>3. CASE UNCHANGED status
    <3>1. Store!Leftover(w, r)
      BY <1>8, <2>2, <2>3 DEF Store!Leftover, Store!PutDown, Hands
    <3> QED
      BY <3>1 DEF StoreStep, Store!Next
  <2>4. CASE status[r] # "gone" /\ status' = [status EXCEPT ![r] = s]
    <3>1. s \in {"delivered", "pending"} \cup {d \in {"dead"} : tries[r] >= MAX_ATTEMPTS}
      BY <1>8
    <3>2. Store!Settle(w, r)
      BY <1>8, <2>1, <2>2, <2>4, <3>1 DEF Store!Settle, Store!PutDown, Hands
    <3> QED
      BY <3>2 DEF StoreStep, Store!Next
  <2> QED
    BY <1>8, <2>3, <2>4 DEF Update
<1>9. ASSUME NEW w \in Pass, Mark(w) PROVE StoreStep
  <2>1. pc[w] = "mark" /\ tries' = tries
    BY <1>9 DEF Mark
  <2>2. CASE Update(Cur(w).id, "delivered") /\ Rest(w)
    <3>1. PICK r \in Row : r = Cur(w).id
      BY <2>1, AtRow DEF IInv
    <3>2. PICK s \in {"delivered", "pending", "dead"} : s = "delivered"
      OBVIOUS
    <3> QED
      BY <1>8, <2>1, <2>2, <3>1, <3>2
  <2>3. CASE UNCHANGED <<status, todo>>
    BY <2>1, <2>3, Unseen
  <2> QED
    BY <1>9, <2>2, <2>3 DEF Mark
<1>10. ASSUME NEW w \in Pass, Retry(w) PROVE StoreStep
  <2>1. pc[w] = "retry" /\ tries' = tries /\ Rest(w)
    BY <1>10 DEF Retry
  <2>2. /\ Cur(w).id \in Row /\ Cur(w).attempts + 1 \in 1..MAX_ATTEMPTS
        /\ Cur(w).attempts + 1 <= tries[Cur(w).id]
    BY <2>1, AtRow DEF IInv
  <2>3. PICK r \in Row : r = Cur(w).id
    BY <2>2
  <2>4. PICK n \in 1..MAX_ATTEMPTS : n = Cur(w).attempts + 1 /\ n <= tries[r]
    BY <2>2, <2>3
  <2>5. PICK s \in {"delivered", "pending", "dead"} : s = AfterFailure(n)
    BY DEF AfterFailure
  <2>6. s = "dead" => tries[r] >= MAX_ATTEMPTS
    BY <2>4, <2>5 DEF AfterFailure, IInv, TypeOK, MaxTries
  <2>7. Update(r, s) \/ UNCHANGED status
    BY <1>10, <2>3, <2>4, <2>5 DEF Retry
  <2> QED
    BY <1>8, <2>1, <2>3, <2>6, <2>7
<1>11. ASSUME NEW w \in Pass, Sweep(w) PROVE StoreStep
  <2>1. Hands' = Hands /\ tries' = tries
    BY <1>11 DEF Sweep, Hands, ReadBy
  <2>2. Swept \in SUBSET {i \in Row : status[i] = "delivered"}
    BY DEF Swept
  <2>3. Store!Forget
    BY <1>11, <2>1, <2>2 DEF Sweep, Store!Forget, Hands
  <2> QED
    BY <2>3 DEF StoreStep, Store!Next
<1>12. ASSUME NEW w \in Pass, Crash(w) PROVE StoreStep
  <2>1. Hands' = [Hands EXCEPT ![w] = {x.id : x \in {}}]
    BY <1>12, HandsAre DEF Crash, IInv
  <2>2. Store!Abandon(w)
    BY <1>12, <2>1 DEF Crash, Store!Abandon, Hands
  <2> QED
    BY <2>2 DEF StoreStep, Store!Next
<1> QED
  BY <1>1, <1>2, <1>3, <1>4, <1>5, <1>6, <1>7, <1>9, <1>10, <1>11, <1>12 DEF Next, Work

\* The outbox implements a store of durable work (outbox.ts:3-12): whatever passes
\* overlap, die or fail to write, a row that was left stays until it is handled or
\* MAX_ATTEMPTS calls of its handler have failed.
THEOREM ImplementsStore == Spec => StoreSpec
<1>1. Init => Read /\ Store!Init
  BY DEF Init, Read, Once, Emptied, Store!Init, ReadBy
<1>2. IInv /\ Read /\ [Next]_vars => Read'
  BY ReadStep
<1>3. IInv /\ Read /\ [Next]_vars => [Store!Next]_(Store!workVars)
  BY WorkSteps DEF StoreStep
<1> QED
  BY AlwaysIInv, <1>1, <1>2, <1>3, PTL DEF Spec, StoreSpec, Store!Spec

=============================================================================
