-------------------------- MODULE SharedReadProofs --------------------------
(***************************************************************************)
(* The read gate and the reads that share it, for every number of calls,   *)
(* users, keys, slots and flights.  The gate is a record that operators    *)
(* take to another; the first half says what each of them does to a gate   *)
(* that counts rightly (Good).  That no slot stands idle while somebody    *)
(* waits (Used) is what makes one round of pump() enough; it holds because *)
(* of the callers, each of which pumps when it frees a slot or joins the   *)
(* queue.                                                                  *)
(***************************************************************************)
EXTENDS SharedRead, WellFoundedInduction, FiniteSetTheorems, TLAPS

Charged(g, u) == {r \in Call : g.slot[r] = u}
Slotted(g) == {r \in Call : g.slot[r] \in User}

\* The counters are the runs they count, and whoever is queued is queued for an open
\* ticket; a ticket that was not granted holds nothing.
Good(g) ==
  /\ g \in GateType
  /\ g.active = Cardinality(Slotted(g)) /\ g.active <= Limit
  /\ \A u \in User : g.byUser[u] = Cardinality(Charged(g, u))
  /\ g.overflowRunning = Cardinality(Charged(g, Extra))
  /\ \A c \in queue(g) : g.stands[c] \in Call /\ g.ticket[g.stands[c]] = "open"
  /\ \A t \in Call : g.ticket[t] # "granted" => g.slot[t] = None

\* An open ticket has somebody in the queue.
Manned(g) == \A t \in Call : g.ticket[t] = "open" => Standing(g, t) # {}

Used(g) == queue(g) # {} => g.active = Limit

-----------------------------------------------------------------------------
(* Counting runs.                                                          *)

LEMMA Finite == ASSUME NEW S, S \subseteq Call PROVE IsFiniteSet(S) /\ Cardinality(S) \in Nat
BY GateAssumption, FS_Subset, FS_CardinalityType

\* A run without a slot is given one of kind v.
LEMMA Filled ==
  ASSUME NEW g \in GateType, NEW h \in GateType, NEW t \in Call, NEW v \in User \cup {Extra},
         g.slot[t] = None, h.slot = [g.slot EXCEPT ![t] = v]
  PROVE  /\ \A u \in User \cup {Extra} :
              Cardinality(Charged(h, u)) = Cardinality(Charged(g, u)) + (IF u = v THEN 1 ELSE 0)
         /\ Cardinality(Slotted(h)) = Cardinality(Slotted(g)) + (IF v = Extra THEN 0 ELSE 1)
<1>1. None \notin User /\ Extra # None /\ Extra \notin User
  BY GateAssumption
<1>2. ASSUME NEW u \in User \cup {Extra}
      PROVE Cardinality(Charged(h, u)) = Cardinality(Charged(g, u)) + (IF u = v THEN 1 ELSE 0)
  <2>1. IsFiniteSet(Charged(g, u)) /\ Cardinality(Charged(g, u)) \in Nat
    BY Finite DEF Charged
  <2>2. t \notin Charged(g, u)
    BY <1>1 DEF Charged
  <2>3. CASE u = v
    <3>1. Charged(h, u) = Charged(g, u) \cup {t}
      BY <2>3 DEF Charged, GateType
    <3> QED
      BY <2>1, <2>2, <2>3, <3>1, FS_AddElement
  <2>4. CASE u # v
    <3>1. Charged(h, u) = Charged(g, u)
      BY <1>1, <2>4 DEF Charged, GateType
    <3> QED
      BY <2>1, <2>4, <3>1
  <2> QED
    BY <2>3, <2>4
<1>3. Cardinality(Slotted(h)) = Cardinality(Slotted(g)) + (IF v = Extra THEN 0 ELSE 1)
  <2>1. IsFiniteSet(Slotted(g)) /\ Cardinality(Slotted(g)) \in Nat
    BY Finite DEF Slotted
  <2>2. t \notin Slotted(g)
    BY <1>1 DEF Slotted
  <2>3. CASE v = Extra
    <3>1. Slotted(h) = Slotted(g)
      BY <1>1, <2>3 DEF Slotted, GateType
    <3> QED
      BY <2>1, <2>3, <3>1
  <2>4. CASE v # Extra
    <3>1. Slotted(h) = Slotted(g) \cup {t}
      BY <1>1, <2>4 DEF Slotted, GateType
    <3> QED
      BY <2>1, <2>2, <2>4, <3>1, FS_AddElement
  <2> QED
    BY <2>3, <2>4
<1> QED
  BY <1>2, <1>3

\* Giving it back is the reverse.
LEMMA Emptied ==
  ASSUME NEW g \in GateType, NEW h \in GateType, NEW t \in Call,
         g.slot[t] # None, h.slot = [g.slot EXCEPT ![t] = None]
  PROVE  /\ \A u \in User \cup {Extra} :
              Cardinality(Charged(g, u)) =
                Cardinality(Charged(h, u)) + (IF u = g.slot[t] THEN 1 ELSE 0)
         /\ Cardinality(Slotted(g)) =
              Cardinality(Slotted(h)) + (IF g.slot[t] = Extra THEN 0 ELSE 1)
<1>1. g.slot[t] \in User \cup {Extra} /\ h.slot[t] = None
  BY DEF GateType
<1>2. g.slot = [h.slot EXCEPT ![t] = g.slot[t]]
  BY DEF GateType
<1> QED
  BY <1>1, <1>2, Filled

-----------------------------------------------------------------------------
(* What the operators do.                                                  *)

LEMMA detachIs ==
  ASSUME NEW g \in GateType, NEW S \in SUBSET Call
  PROVE  LET h == detach(g, S) IN
         /\ h \in GateType
         /\ h.stands = [x \in Call |-> IF x \in S THEN None ELSE g.stands[x]]
         /\ h.active = g.active /\ h.byUser = g.byUser /\ h.overflowRunning = g.overflowRunning
         /\ h.ticket = g.ticket /\ h.slot = g.slot
<1> DEFINE left == queue(g) \ S
           p == [x \in Call |-> IF x \in left
                   THEN Cardinality({y \in left : g.place[y] < g.place[x]}) + 1 ELSE 0]
<1>1. p \in [Call -> Nat]
  <2>1. \A x \in Call : Cardinality({y \in left : g.place[y] < g.place[x]}) \in Nat
    BY Finite DEF queue
  <2> QED
    BY <2>1
<1>2. detach(g, S) = [g EXCEPT !.stands = [x \in Call |-> IF x \in S THEN None ELSE g.stands[x]],
                               !.place = p]
  BY DEF detach
<1> DEFINE s == [x \in Call |-> IF x \in S THEN None ELSE g.stands[x]]
<1>3. s \in [Call -> Call \cup {None}]
  BY DEF GateType
<1> HIDE DEF p, s
<1>4. detach(g, S) = [g EXCEPT !.stands = s, !.place = p]
  BY <1>2 DEF s
<1>5. /\ detach(g, S).stands = s /\ detach(g, S).place = p
      /\ detach(g, S).active = g.active /\ detach(g, S).byUser = g.byUser
      /\ detach(g, S).overflowRunning = g.overflowRunning
      /\ detach(g, S).ticket = g.ticket /\ detach(g, S).slot = g.slot
  BY <1>4 DEF GateType
<1>6. detach(g, S) \in GateType
  BY <1>1, <1>3, <1>4 DEF GateType
<1> QED
  BY <1>5, <1>6 DEF s

LEMMA grantIs ==
  ASSUME NEW g \in GateType, NEW c \in queue(g), NEW o \in BOOLEAN, g.stands[c] \in Call
  PROVE  LET h == grant(g, c, o)
             t == g.stands[c] IN
         /\ h \in GateType
         /\ h.stands = [x \in Call |-> IF g.stands[x] = t THEN None ELSE g.stands[x]]
         /\ h.ticket = [g.ticket EXCEPT ![t] = "granted"]
         /\ h.slot = [g.slot EXCEPT ![t] = IF o THEN Extra ELSE Who[c]]
         /\ h.active = IF o THEN g.active ELSE g.active + 1
         /\ h.byUser = [g.byUser EXCEPT ![Who[c]] = IF o THEN @ ELSE @ + 1]
         /\ h.overflowRunning = IF o THEN g.overflowRunning + 1 ELSE g.overflowRunning
<1> DEFINE t == g.stands[c]
           d == detach(g, Standing(g, t))
<1>1. /\ d \in GateType
      /\ d.stands = [x \in Call |-> IF x \in Standing(g, t) THEN None ELSE g.stands[x]]
      /\ d.active = g.active /\ d.byUser = g.byUser /\ d.overflowRunning = g.overflowRunning
      /\ d.ticket = g.ticket /\ d.slot = g.slot
  <2>1. Standing(g, t) \in SUBSET Call
    BY DEF Standing
  <2> QED
    BY <2>1, detachIs
<1>2. grant(g, c, o) =
        [d EXCEPT !.ticket[t] = "granted",
                  !.slot[t] = IF o THEN Extra ELSE Who[c],
                  !.overflowRunning = IF o THEN @ + 1 ELSE @,
                  !.active = IF o THEN @ ELSE @ + 1,
                  !.byUser[Who[c]] = IF o THEN @ ELSE @ + 1]
  BY DEF grant
<1>3. Who[c] \in User /\ c \in Call
  BY GateAssumption DEF queue
<1>4. d.stands = [x \in Call |-> IF g.stands[x] = t THEN None ELSE g.stands[x]]
  BY <1>1 DEF Standing
<1> HIDE DEF d
<1>5. /\ grant(g, c, o).stands = d.stands /\ grant(g, c, o).place = d.place
  BY <1>1, <1>2 DEF GateType
<1>6. grant(g, c, o).ticket = [d.ticket EXCEPT ![t] = "granted"]
  BY <1>1, <1>2 DEF GateType
<1>7. grant(g, c, o).slot = [d.slot EXCEPT ![t] = IF o THEN Extra ELSE Who[c]]
  BY <1>1, <1>2 DEF GateType
<1>8. grant(g, c, o).active = IF o THEN d.active ELSE d.active + 1
  BY <1>1, <1>2 DEF GateType
<1>9. grant(g, c, o).byUser = [d.byUser EXCEPT ![Who[c]] = IF o THEN @ ELSE @ + 1]
  BY <1>1, <1>2 DEF GateType
<1>10. grant(g, c, o).overflowRunning = IF o THEN d.overflowRunning + 1 ELSE d.overflowRunning
  BY <1>1, <1>2 DEF GateType
<1>11. grant(g, c, o) \in GateType
  <2>1. /\ [d.ticket EXCEPT ![t] = "granted"] \in [Call -> {"none", "open", "granted", "dropped"}]
        /\ [d.slot EXCEPT ![t] = IF o THEN Extra ELSE Who[c]] \in [Call -> User \cup {None, Extra}]
        /\ (IF o THEN d.active ELSE d.active + 1) \in Nat
        /\ [d.byUser EXCEPT ![Who[c]] = IF o THEN @ ELSE @ + 1] \in [User -> Nat]
        /\ (IF o THEN d.overflowRunning + 1 ELSE d.overflowRunning) \in Nat
    BY <1>1, <1>3 DEF GateType
  <2> QED
    BY <1>1, <1>2, <2>1 DEF GateType
<1> QED
  BY <1>1, <1>4, <1>5, <1>6, <1>7, <1>8, <1>9, <1>10, <1>11

\* A grant takes a slot that was free, for a ticket that was open.
LEMMA GrantGood ==
  ASSUME NEW g, Good(g), NEW c \in queue(g), NEW o \in BOOLEAN, o \/ g.active < Limit
  PROVE  Good(grant(g, c, o)) /\ (Manned(g) => Manned(grant(g, c, o)))
<1>1. PICK t : t = g.stands[c]
  OBVIOUS
<1>2. PICK h : h = grant(g, c, o)
  OBVIOUS
<1>3. PICK v : v = IF o THEN Extra ELSE Who[c]
  OBVIOUS
<1>4. /\ g \in GateType /\ t \in Call /\ g.ticket[t] = "open" /\ g.slot[t] = None
      /\ Who[c] \in User /\ v \in User \cup {Extra} /\ (v = Extra <=> o)
      /\ Limit \in Nat /\ None \notin Call
  BY <1>1, <1>3, GateAssumption DEF Good, queue
<1>5. /\ h \in GateType
      /\ h.stands = [x \in Call |-> IF g.stands[x] = t THEN None ELSE g.stands[x]]
      /\ h.ticket = [g.ticket EXCEPT ![t] = "granted"]
      /\ h.slot = [g.slot EXCEPT ![t] = v]
      /\ h.active = IF o THEN g.active ELSE g.active + 1
      /\ h.byUser = [g.byUser EXCEPT ![Who[c]] = IF o THEN @ ELSE @ + 1]
      /\ h.overflowRunning = IF o THEN g.overflowRunning + 1 ELSE g.overflowRunning
  BY <1>1, <1>2, <1>3, <1>4, grantIs
<1>6. /\ \A u \in User \cup {Extra} :
           Cardinality(Charged(h, u)) = Cardinality(Charged(g, u)) + (IF u = v THEN 1 ELSE 0)
      /\ Cardinality(Slotted(h)) = Cardinality(Slotted(g)) + (IF v = Extra THEN 0 ELSE 1)
  BY <1>4, <1>5, Filled
<1>7. g.active \in Nat /\ g.overflowRunning \in Nat /\ \A u \in User : g.byUser[u] \in Nat
  BY <1>4 DEF GateType
<1>8. h.active = Cardinality(Slotted(h)) /\ h.active <= Limit
  BY <1>4, <1>5, <1>6, <1>7 DEF Good
<1>9. \A u \in User : h.byUser[u] = Cardinality(Charged(h, u))
  <2> TAKE u \in User
  <2>1. g.byUser[u] = Cardinality(Charged(g, u)) /\ u # Extra
    BY GateAssumption DEF Good
  <2>2. h.byUser[u] = g.byUser[u] + (IF u = v THEN 1 ELSE 0)
    BY <1>3, <1>4, <1>5, <1>7, <2>1 DEF GateType
  <2> QED
    BY <1>6, <2>1, <2>2
<1>10. h.overflowRunning = Cardinality(Charged(h, Extra))
  BY <1>4, <1>5, <1>6, <1>7 DEF Good
<1>11. \A x \in queue(h) : h.stands[x] \in Call /\ h.ticket[h.stands[x]] = "open"
  BY <1>4, <1>5 DEF Good, queue, GateType
<1>12. \A x \in Call : h.ticket[x] # "granted" => h.slot[x] = None
  BY <1>4, <1>5 DEF Good, GateType
<1>13. Manned(g) => Manned(h)
  BY <1>4, <1>5 DEF Manned, Standing, GateType
<1> QED
  BY <1>2, <1>5, <1>8, <1>9, <1>10, <1>11, <1>12, <1>13 DEF Good

\* Nobody in front of c is under their share.
Foremost(g, c) ==
  \A x \in queue(g) : UnderShare(g, Who[x]) => g.place[c] <= g.place[x]

\* The eligible call in front is found.
LEMMA FirstIs ==
  ASSUME NEW g \in GateType, \E c \in queue(g) : eligible(g, c)
  PROVE  First(g) \in queue(g) /\ eligible(g, First(g)) /\ Foremost(g, First(g))
<1> DEFINE E == {c \in queue(g) : eligible(g, c)}
           P == {g.place[c] : c \in E}
<1>1. P \in SUBSET Nat /\ P # {}
  BY DEF GateType, queue
<1>2. PICK n \in P : \A m \in P : <<m, n>> \notin OpToRel(<, Nat)
  BY <1>1, WFMin, NatLessThanWellFounded
<1>3. OpToRel(<, Nat) = {p \in Nat \X Nat : p[1] < p[2]}
  BY Zenon DEF OpToRel
<1>4. \A m \in P : n <= m
  <2> TAKE m \in P
  <2>1. m \in Nat /\ n \in Nat /\ <<m, n>> \notin {p \in Nat \X Nat : p[1] < p[2]}
    BY <1>1, <1>2, <1>3
  <2>2. ~(m < n)
    BY <2>1
  <2> QED
    BY <2>1, <2>2
<1>5. \E c \in queue(g) : eligible(g, c) /\ \A d \in queue(g) : eligible(g, d) => g.place[c] <= g.place[d]
  <2>1. PICK c \in E : g.place[c] = n
    OBVIOUS
  <2>2. \A d \in E : g.place[d] \in P
    OBVIOUS
  <2> QED
    BY <1>4, <2>1, <2>2
<1>6. /\ First(g) \in queue(g) /\ eligible(g, First(g))
      /\ \A d \in queue(g) : eligible(g, d) => g.place[First(g)] <= g.place[d]
  BY <1>5 DEF First
<1>7. \A x \in queue(g) : UnderShare(g, Who[x]) => eligible(g, x)
  BY <1>6 DEF eligible
<1> QED
  BY <1>6, <1>7 DEF Foremost

\* While a slot is free, the shares never hold everybody back.
LEMMA SomeoneMayGo ==
  ASSUME NEW g, queue(g) # {}, g.active < Limit
  PROVE  \E c \in queue(g) : eligible(g, c)
<1>1. CASE \E c \in queue(g) : UnderShare(g, Who[c])
  BY <1>1 DEF eligible
<1>2. CASE \A c \in queue(g) : ~UnderShare(g, Who[c])
  BY <1>2 DEF eligible, underShareUserWaiting
<1> QED
  BY <1>1, <1>2

\* pump() grants somebody a free slot, or there is none or nobody who waits.
LEMMA pumpIs ==
  ASSUME NEW g, Good(g)
  PROVE  \/ pump(g) = g /\ (queue(g) = {} \/ g.active = Limit)
         \/ g.active < Limit /\ \E c \in queue(g) : pump(g) = grant(g, c, FALSE) /\ Foremost(g, c)
<1>1. g \in GateType /\ g.active <= Limit /\ Limit \in Nat /\ g.active \in Nat
  BY GateAssumption DEF Good, GateType
<1>2. CASE \E c \in queue(g) : eligible(g, c)
  <2>1. First(g) \in queue(g) /\ eligible(g, First(g)) /\ Foremost(g, First(g))
    BY <1>1, <1>2, FirstIs
  <2> QED
    BY <1>2, <2>1 DEF pump, eligible
<1>3. CASE ~\E c \in queue(g) : eligible(g, c)
  <2>1. queue(g) = {} \/ ~(g.active < Limit)
    BY <1>3, SomeoneMayGo
  <2>2. pump(g) = g
    BY <1>3 DEF pump
  <2>3. ~(g.active < Limit) => g.active = Limit
    BY <1>1
  <2> QED
    BY <2>1, <2>2, <2>3
<1> QED
  BY <1>2, <1>3

LEMMA pumpIdle == ASSUME NEW g, Good(g), g.active = Limit PROVE pump(g) = g
<1>1. ~(g.active < Limit)
  BY GateAssumption
<1> QED
  BY <1>1 DEF pump, eligible

LEMMA pumpGood ==
  ASSUME NEW g, Good(g)
  PROVE  Good(pump(g)) /\ (Manned(g) => Manned(pump(g)))
BY pumpIs, GrantGood

\* One round is enough when one slot at most is free, or one ticket waits.
LEMMA pumpUses ==
  ASSUME NEW g, Good(g), g.active + 1 >= Limit \/ \E t : \A c \in queue(g) : g.stands[c] = t
  PROVE  Used(pump(g))
<1>1. g \in GateType /\ g.active <= Limit /\ Limit \in Nat /\ g.active \in Nat
  BY GateAssumption DEF Good, GateType
<1>2. CASE pump(g) = g /\ (queue(g) = {} \/ g.active = Limit)
  BY <1>2 DEF Used
<1>3. ASSUME NEW c \in queue(g), g.active < Limit, pump(g) = grant(g, c, FALSE)
      PROVE Used(pump(g))
  <2>1. g.stands[c] \in Call /\ None \notin Call
    BY GateAssumption DEF Good
  <2>2. ASSUME NEW o \in BOOLEAN, o = FALSE
        PROVE  /\ grant(g, c, o).active = g.active + 1
               /\ grant(g, c, o).stands =
                    [x \in Call |-> IF g.stands[x] = g.stands[c] THEN None ELSE g.stands[x]]
    BY <1>1, <2>1, <2>2, grantIs
  <2>3. /\ pump(g).active = g.active + 1
        /\ pump(g).stands = [x \in Call |-> IF g.stands[x] = g.stands[c] THEN None ELSE g.stands[x]]
    BY <1>3, <2>2
  <2>4. CASE g.active + 1 >= Limit
    <3>1. g.active < Limit
      BY <1>3
    <3>2. g.active + 1 = Limit
      BY <1>1, <2>4, <3>1
    <3>3. pump(g).active = Limit
      BY <2>3, <3>2
    <3> QED
      BY <3>3 DEF Used
  <2>5. CASE \E t : \A x \in queue(g) : g.stands[x] = t
    <3>1. queue(pump(g)) = {}
      BY <2>1, <2>3, <2>5 DEF queue
    <3> QED
      BY <3>1 DEF Used
  <2> QED
    BY <2>4, <2>5
<1> QED
  BY <1>2, <1>3, pumpIs

LEMMA PushIs ==
  ASSUME NEW g, Good(g), NEW t \in Call, NEW c \in Call, g.ticket[t] = "open"
  PROVE  LET h == Push(g, t, c) IN
         /\ Good(h) /\ h.stands = [g.stands EXCEPT ![c] = t]
         /\ h.active = g.active /\ h.byUser = g.byUser /\ h.overflowRunning = g.overflowRunning
         /\ h.ticket = g.ticket /\ h.slot = g.slot
<1>1. g \in GateType /\ None \notin Call
  BY GateAssumption DEF Good
<1>2. Cardinality(queue(g)) \in Nat
  BY Finite DEF queue
<1>3. PICK n \in Nat : n = Cardinality(queue(g)) + 1
  BY <1>2
<1>4. PICK h : h = [g EXCEPT !.stands[c] = t, !.place[c] = n]
  OBVIOUS
<1>5. Push(g, t, c) = h
  BY <1>3, <1>4 DEF Push
<1>6. /\ h \in GateType /\ h.stands = [g.stands EXCEPT ![c] = t]
      /\ h.active = g.active /\ h.byUser = g.byUser /\ h.overflowRunning = g.overflowRunning
      /\ h.ticket = g.ticket /\ h.slot = g.slot
  BY <1>1, <1>4 DEF GateType
<1>7. \A x \in queue(h) : h.stands[x] \in Call /\ h.ticket[h.stands[x]] = "open"
  BY <1>1, <1>6 DEF Good, queue, GateType
<1>8. Good(h)
  BY <1>6, <1>7 DEF Good, Slotted, Charged
<1> QED
  BY <1>5, <1>6, <1>8

\* A ticket is marked; nobody stands for it unless it is open.
LEMMA MarkIs ==
  ASSUME NEW g, Good(g), NEW t \in Call, NEW m \in {"open", "dropped"}, g.ticket[t] # "granted",
         m = "dropped" => Standing(g, t) = {}
  PROVE  LET h == [g EXCEPT !.ticket[t] = m] IN
         /\ Good(h) /\ h.ticket = [g.ticket EXCEPT ![t] = m]
         /\ h.active = g.active /\ h.byUser = g.byUser /\ h.overflowRunning = g.overflowRunning
         /\ h.stands = g.stands /\ h.slot = g.slot
<1>1. PICK h : h = [g EXCEPT !.ticket[t] = m]
  OBVIOUS
<1>2. g \in GateType
  BY DEF Good
<1>3. /\ h \in GateType /\ h.ticket = [g.ticket EXCEPT ![t] = m]
      /\ h.active = g.active /\ h.byUser = g.byUser /\ h.overflowRunning = g.overflowRunning
      /\ h.stands = g.stands /\ h.slot = g.slot
  BY <1>1, <1>2 DEF GateType
<1>4. \A x \in queue(h) : h.stands[x] \in Call /\ h.ticket[h.stands[x]] = "open"
  BY <1>2, <1>3 DEF Good, queue, Standing, GateType
<1>5. \A x \in Call : h.ticket[x] # "granted" => h.slot[x] = None
  BY <1>2, <1>3 DEF Good, GateType
<1>6. Good(h)
  BY <1>3, <1>4, <1>5 DEF Good, Slotted, Charged
<1> QED
  BY <1>1, <1>3, <1>6

LEMMA PutBackIs ==
  ASSUME NEW g, Good(g), NEW t \in Call, g.slot[t] # None
  PROVE  LET h == PutBack(g, t) IN
         /\ Good(h) /\ h.slot = [g.slot EXCEPT ![t] = None]
         /\ h.active = IF g.slot[t] = Extra THEN g.active ELSE g.active - 1
         /\ h.ticket = g.ticket /\ h.stands = g.stands /\ h.place = g.place
         /\ \A u \in User : h.byUser[u] <= g.byUser[u]
<1>1. /\ g \in GateType /\ None \notin User /\ Extra # None /\ Extra \notin User
      /\ Limit \in Nat /\ None \notin Call
  BY GateAssumption DEF Good
<1>2. PICK h : h = PutBack(g, t)
  OBVIOUS
<1>3. g.active \in Nat /\ g.overflowRunning \in Nat /\ \A u \in User : g.byUser[u] \in Nat
  BY <1>1 DEF GateType
<1>4. PICK s : s = [g.slot EXCEPT ![t] = None]
  OBVIOUS
<1>5. s \in [Call -> User \cup {None, Extra}]
  BY <1>1, <1>4 DEF GateType
<1>6. CASE g.slot[t] = Extra
  <2>1. h = [g EXCEPT !.slot = s, !.overflowRunning = Less(g.overflowRunning)]
    BY <1>2, <1>4, <1>6 DEF PutBack
  <2>2. Less(g.overflowRunning) \in Nat
    BY <1>3 DEF Less
  <2>3. /\ h \in GateType /\ h.slot = s /\ h.overflowRunning = Less(g.overflowRunning)
        /\ h.active = g.active /\ h.byUser = g.byUser
        /\ h.ticket = g.ticket /\ h.stands = g.stands /\ h.place = g.place
    BY <1>1, <1>5, <2>1, <2>2 DEF GateType
  <2>4. /\ \A u \in User \cup {Extra} :
             Cardinality(Charged(g, u)) = Cardinality(Charged(h, u)) + (IF u = Extra THEN 1 ELSE 0)
        /\ Cardinality(Slotted(g)) = Cardinality(Slotted(h)) + 0
    BY <1>1, <1>4, <1>6, <2>3, Emptied
  <2>5. /\ \A u \in User \cup {Extra} : Cardinality(Charged(h, u)) \in Nat
        /\ Cardinality(Slotted(h)) \in Nat
    BY Finite DEF Charged, Slotted
  <2>6. h.overflowRunning = Cardinality(Charged(h, Extra))
    <3>1. g.overflowRunning = Cardinality(Charged(h, Extra)) + 1
      BY <2>4 DEF Good
    <3> QED
      BY <2>3, <2>5, <3>1 DEF Less
  <2>7. h.active = Cardinality(Slotted(h))
    BY <2>3, <2>4, <2>5 DEF Good
  <2>8. \A u \in User : h.byUser[u] = Cardinality(Charged(h, u))
    BY <1>1, <2>3, <2>4, <2>5 DEF Good
  <2>9. \A x \in Call : h.ticket[x] # "granted" => h.slot[x] = None
    BY <1>1, <1>4, <2>3 DEF Good, GateType
  <2>10. Good(h)
    BY <2>3, <2>6, <2>7, <2>8, <2>9 DEF Good, queue
  <2> QED
    BY <1>2, <1>3, <1>4, <1>6, <2>3, <2>10
<1>7. CASE g.slot[t] # Extra
  <2>1. PICK v \in User : v = g.slot[t]
    BY <1>1, <1>7 DEF GateType
  <2>2. PICK b : b = [g.byUser EXCEPT ![v] = Less(@)]
    OBVIOUS
  <2>3. h = [g EXCEPT !.slot = s, !.active = Less(g.active), !.byUser = b]
    BY <1>2, <1>4, <1>7, <2>1, <2>2 DEF PutBack
  <2>4. Less(g.active) \in Nat /\ b \in [User -> Nat]
    BY <1>1, <1>3, <2>2 DEF Less, GateType
  <2>5. /\ h \in GateType /\ h.slot = s /\ h.overflowRunning = g.overflowRunning
        /\ h.active = Less(g.active) /\ h.byUser = b
        /\ h.ticket = g.ticket /\ h.stands = g.stands /\ h.place = g.place
    BY <1>1, <1>5, <2>3, <2>4 DEF GateType
  <2>6. /\ \A u \in User \cup {Extra} :
             Cardinality(Charged(g, u)) = Cardinality(Charged(h, u)) + (IF u = v THEN 1 ELSE 0)
        /\ Cardinality(Slotted(g)) = Cardinality(Slotted(h)) + 1
    BY <1>1, <1>4, <1>7, <2>1, <2>5, Emptied
  <2>7. /\ \A u \in User \cup {Extra} : Cardinality(Charged(h, u)) \in Nat
        /\ Cardinality(Slotted(h)) \in Nat
    BY Finite DEF Charged, Slotted
  <2>8. h.active = Cardinality(Slotted(h)) /\ h.active = g.active - 1 /\ h.active <= Limit
    <3>1. g.active = Cardinality(Slotted(h)) + 1 /\ g.active <= Limit
      BY <2>6 DEF Good
    <3> QED
      BY <1>1, <2>5, <2>7, <3>1 DEF Less
  <2>9. \A u \in User : h.byUser[u] = Cardinality(Charged(h, u))
    <3> TAKE u \in User
    <3>1. g.byUser[u] = Cardinality(Charged(h, u)) + (IF u = v THEN 1 ELSE 0)
      BY <2>6 DEF Good
    <3>2. h.byUser[u] = IF u = v THEN Less(g.byUser[u]) ELSE g.byUser[u]
      BY <1>1, <2>2, <2>5 DEF GateType
    <3> QED
      BY <2>7, <3>1, <3>2 DEF Less
  <2>10. h.overflowRunning = Cardinality(Charged(h, Extra))
    <3>1. Cardinality(Charged(g, Extra)) = Cardinality(Charged(h, Extra)) + 0
      BY <1>1, <2>1, <2>6
    <3> QED
      BY <2>5, <2>7, <3>1 DEF Good
  <2>11. \A x \in Call : h.ticket[x] # "granted" => h.slot[x] = None
    BY <1>1, <1>4, <2>5 DEF Good, GateType
  <2>12. Good(h)
    BY <2>5, <2>8, <2>9, <2>10, <2>11 DEF Good, queue
  <2>13. \A u \in User : h.byUser[u] <= g.byUser[u]
    BY <1>1, <1>3, <2>2, <2>5 DEF Less, GateType
  <2> QED
    BY <1>2, <1>4, <1>7, <2>5, <2>8, <2>12, <2>13
<1> QED
  BY <1>6, <1>7

-----------------------------------------------------------------------------
(* What a caller does to a gate that is ready for it.                      *)

Ready(g) == Good(g) /\ Manned(g) /\ Used(g)

Others(g, h) == h.active = g.active /\ h.slot = g.slot

\* Joining a ticket that somebody waits for: no slot is free, so nobody is granted.
LEMMA Joined ==
  ASSUME NEW g, Ready(g), NEW t \in Call, NEW c \in Call, NEW gone \in BOOLEAN,
         g.ticket[t] = "open", g.stands[c] = None
  PROVE  LET h == addWaiter(g, t, c, gone) IN
         /\ Ready(h) /\ Others(g, h) /\ h.ticket = g.ticket
         /\ h.stands = [g.stands EXCEPT ![c] = IF gone THEN @ ELSE t]
<1>1. /\ Good(g) /\ Manned(g) /\ Used(g) /\ g \in GateType /\ None \notin Call
      /\ Standing(g, t) # {}
  BY GateAssumption DEF Ready, Good, Manned
<1>2. g.active = Limit /\ Limit \in Nat
  BY <1>1, GateAssumption DEF Used, Standing, queue
<1>3. CASE gone
  <2>1. addWaiter(g, t, c, gone) = g
    BY <1>1, <1>3 DEF addWaiter
  <2> QED
    BY <1>1, <1>3, <2>1 DEF Others, GateType
<1>4. CASE ~gone
  <2>1. PICK p : p = Push(g, t, c)
    OBVIOUS
  <2>2. /\ Good(p) /\ p.stands = [g.stands EXCEPT ![c] = t]
        /\ p.active = g.active /\ p.ticket = g.ticket /\ p.slot = g.slot
    BY <1>1, <2>1, PushIs
  <2>3. pump(p) = p
    BY <1>2, <2>2, pumpIdle
  <2>4. addWaiter(g, t, c, gone) = p
    BY <1>4, <2>1, <2>3 DEF addWaiter
  <2>5. Manned(p)
    BY <1>1, <2>2 DEF Manned, Standing, GateType
  <2> QED
    BY <1>2, <1>4, <2>2, <2>4, <2>5 DEF Ready, Others, Used
<1> QED
  BY <1>3, <1>4

\* A new ticket: dropped if the caller has gone, granted if a slot is free.
OpenedTo(g, h, c, gone) ==
  \/ /\ gone /\ Others(g, h) /\ h.stands = g.stands
     /\ h.ticket = [g.ticket EXCEPT ![c] = "dropped"]
  \/ /\ ~gone /\ Others(g, h) /\ g.active = Limit
     /\ h.stands = [g.stands EXCEPT ![c] = c]
     /\ h.ticket = [g.ticket EXCEPT ![c] = "open"]
  \/ /\ ~gone /\ queue(g) = {} /\ g.active < Limit
     /\ h.stands = g.stands
     /\ h.ticket = [g.ticket EXCEPT ![c] = "granted"]
     /\ h.slot = [g.slot EXCEPT ![c] = Who[c]]

LEMMA Opened ==
  ASSUME NEW g, Ready(g), NEW c \in Call, NEW gone \in BOOLEAN,
         g.ticket[c] = "none", g.stands[c] = None
  PROVE  LET h == addWaiter(openTicket(g, c), c, c, gone) IN Ready(h) /\ OpenedTo(g, h, c, gone)
<1>1. /\ Good(g) /\ Manned(g) /\ Used(g) /\ g \in GateType /\ None \notin Call
      /\ Standing(g, c) = {}
  BY GateAssumption DEF Ready, Good, Standing, queue
<1>2. PICK o : o = openTicket(g, c)
  OBVIOUS
<1>3. /\ Good(o) /\ o.ticket = [g.ticket EXCEPT ![c] = "open"]
      /\ o.active = g.active /\ o.stands = g.stands /\ o.slot = g.slot
  BY <1>1, <1>2, MarkIs DEF openTicket
<1>4. Standing(o, c) = {} /\ o.ticket[c] = "open"
  BY <1>1, <1>3 DEF Standing, GateType
<1>5. CASE gone
  <2>1. PICK h : h = Abandon(o, c)
    OBVIOUS
  <2>2. addWaiter(o, c, c, gone) = h
    BY <1>4, <1>5, <2>1 DEF addWaiter
  <2>3. /\ Good(h) /\ h.ticket = [o.ticket EXCEPT ![c] = "dropped"]
        /\ h.active = o.active /\ h.stands = o.stands /\ h.slot = o.slot
    BY <1>3, <1>4, <2>1, MarkIs DEF Abandon
  <2>4. h.ticket = [g.ticket EXCEPT ![c] = "dropped"]
    BY <1>1, <1>3, <2>3 DEF GateType
  <2>5. Manned(h) /\ Used(h)
    BY <1>1, <1>3, <2>3, <2>4 DEF Manned, Used, Standing, queue, GateType
  <2> QED
    BY <1>2, <1>3, <1>5, <2>2, <2>3, <2>4, <2>5 DEF Ready, Others, OpenedTo
<1>6. CASE ~gone
  <2>1. PICK p : p = Push(o, c, c)
    OBVIOUS
  <2>2. /\ Good(p) /\ p.stands = [g.stands EXCEPT ![c] = c]
        /\ p.active = g.active /\ p.ticket = o.ticket /\ p.slot = g.slot
    BY <1>3, <1>4, <2>1, PushIs
  <2>3. addWaiter(o, c, c, gone) = pump(p)
    BY <1>4, <1>6, <2>1 DEF addWaiter
  <2>4. Manned(p)
    BY <1>1, <1>3, <2>2 DEF Manned, Standing, GateType
  <2>5. Good(pump(p)) /\ Manned(pump(p))
    BY <2>2, <2>4, pumpGood
  <2>6. c \in queue(p) /\ p.stands[c] = c /\ p \in GateType
    BY <1>1, <2>2 DEF queue, GateType, Good
  <2>7. CASE pump(p) = p /\ p.active = Limit
    BY <1>2, <1>3, <1>6, <2>2, <2>3, <2>5, <2>7 DEF Ready, Used, Others, OpenedTo
  <2>8. ASSUME NEW d \in queue(p), p.active < Limit, pump(p) = grant(p, d, FALSE)
        PROVE /\ Used(pump(p)) /\ queue(g) = {} /\ g.active < Limit
              /\ pump(p).stands = g.stands
              /\ pump(p).ticket = [g.ticket EXCEPT ![c] = "granted"]
              /\ pump(p).slot = [g.slot EXCEPT ![c] = Who[c]]
    <3>1. queue(g) = {} /\ g.active < Limit
      <4>1. g.active < Limit
        BY <2>2, <2>8
      <4>2. Limit \in Nat
        BY GateAssumption
      <4> QED
        BY <1>1, <4>1, <4>2 DEF Used
    <3>2. \A x \in queue(p) : x = c
      BY <1>1, <2>2, <3>1 DEF queue, GateType
    <3>3. Used(pump(p))
      BY <2>2, <3>2, pumpUses
    <3>4. ASSUME NEW f \in BOOLEAN, f = FALSE
          PROVE  /\ grant(p, c, f).stands = [x \in Call |-> IF p.stands[x] = c THEN None ELSE p.stands[x]]
                 /\ grant(p, c, f).ticket = [p.ticket EXCEPT ![c] = "granted"]
                 /\ grant(p, c, f).slot = [p.slot EXCEPT ![c] = Who[c]]
      <4>1. p.stands[c] \in Call
        BY <2>6
      <4>2. /\ grant(p, c, f).stands =
                 [x \in Call |-> IF p.stands[x] = p.stands[c] THEN None ELSE p.stands[x]]
            /\ grant(p, c, f).ticket = [p.ticket EXCEPT ![p.stands[c]] = "granted"]
            /\ grant(p, c, f).slot = [p.slot EXCEPT ![p.stands[c]] = Who[c]]
        BY <2>6, <3>4, <4>1, grantIs
      <4> QED
        BY <2>6, <4>2
    <3>5. pump(p) = grant(p, c, FALSE)
      BY <2>8, <3>2
    <3>6. /\ pump(p).stands = [x \in Call |-> IF p.stands[x] = c THEN None ELSE p.stands[x]]
          /\ pump(p).ticket = [p.ticket EXCEPT ![c] = "granted"]
          /\ pump(p).slot = [p.slot EXCEPT ![c] = Who[c]]
      BY <3>4, <3>5
    <3>7. pump(p).stands = g.stands
      BY <1>1, <2>2, <3>1, <3>6 DEF queue, GateType
    <3>8. pump(p).ticket = [g.ticket EXCEPT ![c] = "granted"]
      BY <1>1, <1>3, <2>2, <3>6 DEF GateType
    <3> QED
      BY <2>2, <3>1, <3>3, <3>6, <3>7, <3>8
  <2>9. \/ pump(p) = p /\ (queue(p) = {} \/ p.active = Limit)
        \/ p.active < Limit /\ \E d \in queue(p) : pump(p) = grant(p, d, FALSE)
    BY <2>2, pumpIs, Zenon
  <2>10. CASE pump(p) = p /\ (queue(p) = {} \/ p.active = Limit)
    BY <2>6, <2>7, <2>10
  <2>11. CASE p.active < Limit /\ \E d \in queue(p) : pump(p) = grant(p, d, FALSE)
    <3>1. /\ Used(pump(p)) /\ queue(g) = {} /\ g.active < Limit
          /\ pump(p).stands = g.stands
          /\ pump(p).ticket = [g.ticket EXCEPT ![c] = "granted"]
          /\ pump(p).slot = [g.slot EXCEPT ![c] = Who[c]]
      BY <2>8, <2>11, Zenon
    <3> QED
      BY <1>2, <1>6, <2>3, <2>5, <3>1 DEF Ready, OpenedTo
  <2> QED
    BY <2>9, <2>10, <2>11
<1> QED
  BY <1>5, <1>6

\* A caller that waits goes away, and its ticket with it if it was the last.
LeftTo(g, h, c) ==
  /\ Others(g, h)
  /\ h.stands = [x \in Call |-> IF x = c THEN None ELSE g.stands[x]]
  /\ h.ticket = IF \E x \in Call : x # c /\ g.stands[x] = g.stands[c] THEN g.ticket
                ELSE [g.ticket EXCEPT ![g.stands[c]] = "dropped"]

LEMMA Left ==
  ASSUME NEW g, Ready(g), NEW c \in queue(g)
  PROVE  LET h == onAbort(g, c) IN Ready(h) /\ LeftTo(g, h, c)
<1>1. /\ Good(g) /\ Manned(g) /\ Used(g) /\ g \in GateType /\ None \notin Call /\ c \in Call
      /\ Limit \in Nat /\ g.active = Limit
  BY GateAssumption DEF Ready, Good, queue, Used
<1>2. PICK t \in Call : t = g.stands[c] /\ g.ticket[t] = "open"
  BY <1>1 DEF Good
<1>3. PICK d : d = detach(g, {c})
  OBVIOUS
<1>4. /\ d \in GateType
      /\ d.stands = [x \in Call |-> IF x = c THEN None ELSE g.stands[x]]
      /\ d.active = g.active /\ d.byUser = g.byUser /\ d.overflowRunning = g.overflowRunning
      /\ d.ticket = g.ticket /\ d.slot = g.slot
  <2>1. {c} \in SUBSET Call /\ \A x : x \in {c} <=> x = c
    BY <1>1
  <2> QED
    BY <1>1, <1>3, <2>1, detachIs
<1>5. Good(d)
  <2>1. \A x \in queue(d) : x \in queue(g) /\ d.stands[x] = g.stands[x]
    BY <1>1, <1>4 DEF queue
  <2> QED
    BY <1>1, <1>4, <2>1 DEF Good, Slotted, Charged
<1>6. PICK e : e = IF Standing(d, t) = {} THEN Abandon(d, t) ELSE d
  OBVIOUS
<1>7. /\ Good(e) /\ e.active = d.active /\ e.stands = d.stands /\ e.slot = d.slot
      /\ e.ticket = IF Standing(d, t) = {} THEN [d.ticket EXCEPT ![t] = "dropped"] ELSE d.ticket
  <2>1. CASE Standing(d, t) = {}
    <3>1. d.ticket[t] # "granted" /\ e = [d EXCEPT !.ticket[t] = "dropped"]
      BY <1>2, <1>4, <1>6, <2>1 DEF Abandon
    <3>2. /\ Good(e) /\ e.ticket = [d.ticket EXCEPT ![t] = "dropped"]
          /\ e.active = d.active /\ e.stands = d.stands /\ e.slot = d.slot
      <4>1. PICK m \in {"open", "dropped"} : m = "dropped"
        OBVIOUS
      <4> QED
        BY <1>5, <2>1, <3>1, <4>1, MarkIs
    <3> QED
      BY <2>1, <3>2
  <2>2. CASE Standing(d, t) # {}
    BY <1>5, <1>6, <2>2
  <2> QED
    BY <2>1, <2>2
<1>8. pump(e) = e
  BY <1>1, <1>4, <1>7, pumpIdle
<1>9. onAbort(g, c) = e
  BY <1>2, <1>3, <1>6, <1>8 DEF onAbort
<1>10. Standing(d, t) = {} <=> ~\E x \in Call : x # c /\ g.stands[x] = t
  BY <1>1, <1>4 DEF Standing
<1>11. Manned(e)
  <2> SUFFICES ASSUME NEW x \in Call, e.ticket[x] = "open" PROVE Standing(e, x) # {}
    BY DEF Manned
  <2>1. g.ticket[x] = "open" /\ (x = t => Standing(d, t) # {})
    BY <1>1, <1>4, <1>7 DEF GateType
  <2>2. CASE x = t
    BY <1>7, <2>1, <2>2 DEF Standing
  <2>3. CASE x # t
    BY <1>1, <1>2, <1>4, <1>7, <2>1, <2>3 DEF Manned, Standing
  <2> QED
    BY <2>2, <2>3
<1>12. Used(e)
  BY <1>1, <1>4, <1>7 DEF Used
<1> QED
  BY <1>2, <1>4, <1>7, <1>9, <1>10, <1>11, <1>12 DEF Ready, Others, LeftTo

\* The wait limit: the ticket goes on without a slot.
GrantedTo(g, h, t, v) ==
  /\ h.stands = [x \in Call |-> IF g.stands[x] = t THEN None ELSE g.stands[x]]
  /\ h.ticket = [g.ticket EXCEPT ![t] = "granted"]
  /\ h.slot = [g.slot EXCEPT ![t] = v]

LEMMA Overflowed ==
  ASSUME NEW g, Ready(g), NEW c \in queue(g)
  PROVE  LET h == grant(g, c, TRUE) IN Ready(h) /\ GrantedTo(g, h, g.stands[c], Extra)
<1>1. /\ Good(g) /\ Manned(g) /\ Used(g) /\ g \in GateType /\ None \notin Call
      /\ g.stands[c] \in Call
  BY GateAssumption DEF Ready, Good
<1>2. PICK o \in BOOLEAN : o = TRUE
  OBVIOUS
<1>3. PICK h : h = grant(g, c, o)
  OBVIOUS
<1>4. Good(h) /\ Manned(h)
  BY <1>1, <1>2, <1>3, GrantGood
<1>5. /\ h.stands = [x \in Call |-> IF g.stands[x] = g.stands[c] THEN None ELSE g.stands[x]]
      /\ h.ticket = [g.ticket EXCEPT ![g.stands[c]] = "granted"]
      /\ h.slot = [g.slot EXCEPT ![g.stands[c]] = Extra] /\ h.active = g.active
  BY <1>1, <1>2, <1>3, grantIs
<1>6. Used(h)
  BY <1>1, <1>5 DEF Used, queue
<1>7. h = grant(g, c, TRUE)
  BY <1>2, <1>3
<1> QED
  BY <1>4, <1>5, <1>6, <1>7 DEF Ready, GrantedTo

\* A slot given back goes to somebody who waits, in the same step.
HandedTo(g, h, r) ==
  \/ /\ h.slot = [g.slot EXCEPT ![r] = None]
     /\ h.ticket = g.ticket /\ h.stands = g.stands
     /\ queue(g) = {} \/ g.slot[r] = Extra
  \/ \E c \in queue(g) :
       /\ g.slot[r] # Extra /\ g.stands[c] # r /\ Foremost(g, c)
       /\ h.slot = [g.slot EXCEPT ![r] = None, ![g.stands[c]] = Who[c]]
       /\ h.ticket = [g.ticket EXCEPT ![g.stands[c]] = "granted"]
       /\ h.stands = [x \in Call |-> IF g.stands[x] = g.stands[c] THEN None ELSE g.stands[x]]

\* A slot given back puts nobody over their share.
LEMMA GiveBackKeepsTurn ==
  ASSUME NEW g \in GateType, NEW p, Good(p), NEW c \in Call, p.place = g.place,
         queue(p) = queue(g), \A u \in User : p.byUser[u] <= g.byUser[u], Foremost(p, c)
  PROVE  Foremost(g, c)
<1> SUFFICES ASSUME NEW x \in queue(g), g.byUser[Who[x]] < PerUser
             PROVE g.place[c] <= g.place[x]
  BY DEF Foremost, UnderShare
<1>1. Who[x] \in User /\ PerUser \in Nat
  BY GateAssumption DEF queue
<1>2. p.byUser[Who[x]] \in Nat /\ g.byUser[Who[x]] \in Nat
  BY <1>1 DEF Good, GateType
<1>3. p.byUser[Who[x]] <= g.byUser[Who[x]]
  BY <1>1
<1>4. p.byUser[Who[x]] < PerUser
  BY <1>1, <1>2, <1>3
<1> QED
  BY <1>4 DEF Foremost, UnderShare

LEMMA Handed ==
  ASSUME NEW g, Ready(g), NEW r \in Call, g.slot[r] # None
  PROVE  LET h == release(g, r) IN Ready(h) /\ HandedTo(g, h, r)
<1>1. /\ Good(g) /\ Manned(g) /\ Used(g) /\ g \in GateType /\ None \notin Call
      /\ Limit \in Nat /\ g.active \in Nat
  BY GateAssumption DEF Ready, Good, GateType
<1>2. PICK p : p = PutBack(g, r)
  OBVIOUS
<1>3. /\ Good(p) /\ p.slot = [g.slot EXCEPT ![r] = None]
      /\ p.active = IF g.slot[r] = Extra THEN g.active ELSE g.active - 1
      /\ p.ticket = g.ticket /\ p.stands = g.stands /\ p.place = g.place
      /\ \A u \in User : p.byUser[u] <= g.byUser[u]
  BY <1>1, <1>2, PutBackIs
<1>4. Manned(p) /\ queue(p) = queue(g)
  BY <1>1, <1>3 DEF Manned, Standing, queue
<1>5. Good(pump(p)) /\ Manned(pump(p))
  BY <1>3, <1>4, pumpGood
<1>6. Used(pump(p))
  <2>1. queue(g) = {} \/ p.active + 1 >= Limit
    BY <1>1, <1>3 DEF Used
  <2>2. queue(p) = {} => \A c \in queue(p) : p.stands[c] = None
    OBVIOUS
  <2> QED
    BY <1>3, <1>4, <2>1, <2>2, pumpUses
<1>7. release(g, r) = pump(p)
  BY <1>2 DEF release
<1>8. CASE pump(p) = p /\ (queue(p) = {} \/ p.active = Limit)
  <2>1. queue(g) = {} \/ g.slot[r] = Extra
    <3>1. ASSUME p.active = Limit, g.slot[r] # Extra PROVE FALSE
      <4>1. p.active = g.active - 1 /\ g.active <= Limit
        BY <1>1, <1>3, <3>1 DEF Good
      <4> QED
        BY <1>1, <3>1, <4>1
    <3> QED
      BY <1>4, <1>8, <3>1
  <2> QED
    BY <1>3, <1>5, <1>6, <1>7, <1>8, <2>1 DEF Ready, HandedTo
<1>9. ASSUME NEW c \in queue(p), p.active < Limit, pump(p) = grant(p, c, FALSE)
      PROVE  /\ c \in queue(g) /\ g.slot[r] # Extra /\ g.stands[c] # r
             /\ pump(p).slot = [g.slot EXCEPT ![r] = None, ![g.stands[c]] = Who[c]]
             /\ pump(p).ticket = [g.ticket EXCEPT ![g.stands[c]] = "granted"]
             /\ pump(p).stands = [x \in Call |-> IF g.stands[x] = g.stands[c] THEN None ELSE g.stands[x]]
  <2>1. /\ c \in queue(g) /\ g.stands[c] \in Call /\ g.ticket[g.stands[c]] = "open"
        /\ p.stands[c] \in Call /\ p \in GateType
    BY <1>1, <1>3, <1>4 DEF Good
  <2>2. g.stands[c] # r
    BY <1>1, <2>1 DEF Good
  <2>3. g.slot[r] # Extra
    <3>1. p.active < Limit
      BY <1>9
    <3> QED
      BY <1>1, <1>3, <2>1, <3>1 DEF Used
  <2>4. ASSUME NEW f \in BOOLEAN, f = FALSE
        PROVE  /\ grant(p, c, f).stands = [x \in Call |-> IF p.stands[x] = p.stands[c] THEN None ELSE p.stands[x]]
               /\ grant(p, c, f).ticket = [p.ticket EXCEPT ![p.stands[c]] = "granted"]
               /\ grant(p, c, f).slot = [p.slot EXCEPT ![p.stands[c]] = Who[c]]
    BY <2>1, <2>4, grantIs
  <2>5. /\ pump(p).stands = [x \in Call |-> IF p.stands[x] = p.stands[c] THEN None ELSE p.stands[x]]
        /\ pump(p).ticket = [p.ticket EXCEPT ![p.stands[c]] = "granted"]
        /\ pump(p).slot = [p.slot EXCEPT ![p.stands[c]] = Who[c]]
    BY <1>9, <2>4
  <2>6. pump(p).slot = [g.slot EXCEPT ![r] = None, ![g.stands[c]] = Who[c]]
    BY <1>1, <1>3, <2>5 DEF GateType
  <2> QED
    BY <1>3, <2>1, <2>2, <2>3, <2>5, <2>6
<1> QED
  <2>1. \/ pump(p) = p /\ (queue(p) = {} \/ p.active = Limit)
        \/ p.active < Limit /\ \E c \in queue(p) : pump(p) = grant(p, c, FALSE) /\ Foremost(p, c)
    BY <1>3, pumpIs, Zenon
  <2>2. Ready(release(g, r))
    BY <1>5, <1>6, <1>7 DEF Ready
  <2>3. CASE p.active < Limit /\ \E c \in queue(p) : pump(p) = grant(p, c, FALSE) /\ Foremost(p, c)
    <3>1. PICK c \in queue(p) : pump(p) = grant(p, c, FALSE) /\ Foremost(p, c)
      BY <2>3
    <3>2. /\ c \in queue(g) /\ g.slot[r] # Extra /\ g.stands[c] # r
          /\ pump(p).slot = [g.slot EXCEPT ![r] = None, ![g.stands[c]] = Who[c]]
          /\ pump(p).ticket = [g.ticket EXCEPT ![g.stands[c]] = "granted"]
          /\ pump(p).stands = [x \in Call |-> IF g.stands[x] = g.stands[c] THEN None ELSE g.stands[x]]
      BY <1>9, <2>3, <3>1, Zenon
    <3>3. Foremost(g, c)
      <4>1. c \in Call
        BY <3>1 DEF queue
      <4> QED
        BY <1>1, <1>3, <1>4, <3>1, <4>1, GiveBackKeepsTurn
    <3> QED
      BY <1>7, <2>2, <3>2, <3>3 DEF HandedTo
  <2> QED
    BY <1>8, <2>1, <2>2, <2>3

-----------------------------------------------------------------------------
(* Calls and runs.                                                         *)

Live(r) == run[r] \in {"queued", "busy", "freed"}

\* A call that was not made yet left no trace.
Fresh == \A c \in Call : at[c] = "idle" => run[c] = "none" /\ lead[c] = None /\ within[c] = None

\* What the gate holds of a run fits what the run does.
Fits ==
  \A r \in Call :
    /\ run[r] = "none" => gate.ticket[r] = "none"
    /\ gate.ticket[r] = "open" => run[r] = "queued"
    /\ gate.slot[r] # None => run[r] \in {"queued", "busy"}

\* The queue is made of those who await an open ticket.
Queued ==
  \A c \in Call :
    /\ gate.stands[c] # None => lead[c] = gate.stands[c]
    /\ lead[c] # None /\ gate.ticket[lead[c]] = "open" => gate.stands[c] = lead[c]

\* What is awaited, or found by new calls, is under way.
Awaited ==
  /\ \A c \in Call : lead[c] # None => at[c] = "await" /\ Live(lead[c])
  /\ \A k \in Key : flights[k] # None => Live(flights[k])

\* A nested call awaits a run that has begun.
Nested == \A c \in Call : within[c] # None => lead[c] # None /\ run[lead[c]] # "queued"

IInv == TypeOK /\ Ready(gate) /\ Fresh /\ Fits /\ Queued /\ Awaited /\ Nested

\* The pool counts as this module does.
LEMMA PoolCounts == \A S : Pool!Cardinality(S) = Cardinality(S)
BY DEF Pool!Cardinality, Cardinality

\* A step of the pool of slots, or none.
PoolStep == [Pool!Next]_(Pool!poolVars)

\* A ticket is dropped with nobody left who awaits it.
DropsUnheard ==
  \A t \in Call : gate.ticket[t] # "dropped" /\ gate'.ticket[t] = "dropped"
                  => \A c \in Call : lead'[c] # t

Sound == IInv' /\ PoolStep /\ DropsUnheard

LEMMA GateKept ==
  ASSUME gate'.ticket = gate.ticket, gate'.slot = gate.slot
  PROVE  PoolStep /\ DropsUnheard
BY DEF PoolStep, DropsUnheard, Pool!poolVars, HoldingSlots

\* A new call stands nowhere.
LEMMA NewCall ==
  ASSUME IInv, NEW c \in Call, at[c] = "idle"
  PROVE  /\ run[c] = "none" /\ lead[c] = None /\ within[c] = None
         /\ gate.ticket[c] = "none" /\ gate.stands[c] = None /\ gate.slot[c] = None
         /\ \A x \in Call : lead[x] # c /\ \A k \in Key : flights[k] # c
<1>1. run[c] = "none" /\ lead[c] = None /\ within[c] = None
  BY DEF IInv, Fresh
<1>2. gate.ticket[c] = "none" /\ gate.slot[c] = None
  BY <1>1 DEF IInv, Fits
<1>3. gate.stands[c] = None
  BY <1>1, GateAssumption DEF IInv, Queued
<1>4. None \notin Call
  BY GateAssumption
<1>5. \A x \in Call : lead[x] # c /\ \A k \in Key : flights[k] # c
  BY <1>1, <1>4 DEF IInv, Awaited, Live
<1> QED
  BY <1>1, <1>2, <1>3, <1>5

LEMMA JoinStep ==
  ASSUME IInv, NEW c \in Call, NEW k \in Key, NEW p \in Call \cup {None}, NEW gone \in BOOLEAN,
         Join(c, k, p, gone)
  PROVE  Sound
<1>1. PICK t : t = flights[k]
  OBVIOUS
<1>2. /\ TypeOK /\ Ready(gate) /\ Fresh /\ Fits /\ Queued /\ Awaited /\ Nested /\ None \notin Call
  BY GateAssumption DEF IInv
<1>3. /\ at[c] = "idle" /\ t \in Call /\ Live(t) /\ (Started(t) \/ p = None)
      /\ key' = [key EXCEPT ![c] = IF t = c THEN k ELSE None]
      /\ within' = [within EXCEPT ![c] = IF gone THEN None ELSE p]
      /\ lead' = [lead EXCEPT ![c] = IF gone THEN None ELSE t]
      /\ at' = [at EXCEPT ![c] = IF gone THEN "done" ELSE "await"]
      /\ gate' = (IF Started(t) THEN gate ELSE addWaiter(gate, t, c, gone))
      /\ run' = run /\ flights' = flights
  BY <1>1, <1>2 DEF Join, Joinable, Await, Awaited, TypeOK
<1>4. /\ run[c] = "none" /\ lead[c] = None /\ within[c] = None
      /\ gate.ticket[c] = "none" /\ gate.stands[c] = None
  BY <1>3, NewCall
<1>5. /\ Ready(gate') /\ gate'.slot = gate.slot /\ gate'.ticket = gate.ticket
      /\ gate'.stands = [gate.stands EXCEPT ![c] = IF gone \/ gate.ticket[t] # "open" THEN @ ELSE t]
  <2>0. gate.stands \in [Call -> Call \cup {None}]
    BY <1>2 DEF TypeOK, GateType
  <2>1. CASE Started(t)
    <3>1. gate.ticket[t] # "open"
      BY <1>2, <1>3, <2>1 DEF Fits, Started
    <3> QED
      BY <1>2, <1>3, <2>0, <2>1, <3>1
  <2>2. CASE ~Started(t) /\ gate.ticket[t] # "open"
    BY <1>2, <1>3, <2>0, <2>2 DEF addWaiter
  <2>3. CASE ~Started(t) /\ gate.ticket[t] = "open"
    <3>1. /\ Ready(addWaiter(gate, t, c, gone)) /\ Others(gate, addWaiter(gate, t, c, gone))
          /\ addWaiter(gate, t, c, gone).ticket = gate.ticket
          /\ addWaiter(gate, t, c, gone).stands = [gate.stands EXCEPT ![c] = IF gone THEN @ ELSE t]
      BY <1>2, <1>3, <1>4, <2>3, Joined
    <3> QED
      BY <1>3, <2>0, <2>3, <3>1 DEF Others
  <2> QED
    BY <2>1, <2>2, <2>3
<1>6. PoolStep /\ DropsUnheard
  BY <1>5, GateKept
<1>7. TypeOK'
  <2>1. gate' \in GateType
    BY <1>5 DEF Ready, Good
  <2> QED
    BY <1>2, <1>3, <2>1 DEF TypeOK
<1>8. Fresh' /\ Fits'
  BY <1>2, <1>3, <1>5 DEF Fresh, Fits, TypeOK
<1>9. Queued'
  BY <1>2, <1>3, <1>4, <1>5 DEF Queued, TypeOK, GateType
<1>10. Awaited' /\ Nested'
  BY <1>2, <1>3, <1>4 DEF Awaited, Nested, Live, Started, TypeOK
<1> QED
  BY <1>5, <1>6, <1>7, <1>8, <1>9, <1>10 DEF Sound, IInv

LEMMA OwnRunStep ==
  ASSUME IInv, NEW c \in Call, NEW k \in Key \cup {None}, NEW p \in Call \cup {None},
         NEW gone \in BOOLEAN, OwnRun(c, k, p, gone),
         flights' = flights \/ \E q \in Key : flights' = [flights EXCEPT ![q] = c]
  PROVE  Sound
<1>1. /\ TypeOK /\ Ready(gate) /\ Fresh /\ Fits /\ Queued /\ Awaited /\ Nested /\ None \notin Call
  BY GateAssumption DEF IInv
<1>2. /\ at[c] = "idle"
      /\ key' = [key EXCEPT ![c] = k]
      /\ within' = [within EXCEPT ![c] = IF gone THEN None ELSE p]
      /\ lead' = [lead EXCEPT ![c] = IF gone THEN None ELSE c]
      /\ at' = [at EXCEPT ![c] = IF gone THEN "done" ELSE "await"]
      /\ run' = [run EXCEPT ![c] = IF p = None THEN "queued" ELSE "busy"]
      /\ gate' = IF p = None THEN addWaiter(openTicket(gate, c), c, c, gone) ELSE gate
  BY DEF OwnRun, Await
<1>3. /\ run[c] = "none" /\ lead[c] = None /\ within[c] = None
      /\ gate.ticket[c] = "none" /\ gate.stands[c] = None /\ gate.slot[c] = None
      /\ \A x \in Call : lead[x] # c /\ \A q \in Key : flights[q] # c
  BY <1>2, NewCall
<1>4. flights' \in [Key -> Call \cup {None}] /\ \A q \in Key : flights'[q] \in {flights[q], c}
  BY <1>1 DEF TypeOK
<1>5. Awaited' /\ Nested'
  BY <1>1, <1>2, <1>3, <1>4 DEF Awaited, Nested, Live, TypeOK
<1>6. Fresh'
  BY <1>1, <1>2 DEF Fresh, TypeOK
<1>7. ASSUME gate' \in GateType PROVE TypeOK'
  BY <1>1, <1>2, <1>4, <1>7 DEF TypeOK
<1>8. CASE p # None
  <2>1. gate' = gate
    BY <1>2, <1>8
  <2>2. Fits' /\ Queued'
    BY <1>1, <1>2, <1>3, <1>8, <2>1 DEF Fits, Queued, TypeOK
  <2> QED
    BY <1>1, <1>5, <1>6, <1>7, <2>1, <2>2, GateKept DEF Sound, IInv, TypeOK
<1>9. CASE p = None
  <2>1. PICK h : h = addWaiter(openTicket(gate, c), c, c, gone)
    OBVIOUS
  <2>2. Ready(h) /\ OpenedTo(gate, h, c, gone)
    BY <1>1, <1>3, <2>1, Opened
  <2>3. gate' = h /\ run' = [run EXCEPT ![c] = "queued"] /\ h \in GateType
    BY <1>2, <1>9, <2>1, <2>2 DEF Ready, Good
  <2>4. TypeOK'
    BY <1>7, <2>3
  <2>5. CASE gone
    <3>1. /\ h.slot = gate.slot /\ h.stands = gate.stands
          /\ h.ticket = [gate.ticket EXCEPT ![c] = "dropped"]
      BY <2>2, <2>5 DEF Others, OpenedTo
    <3>0. lead' = [lead EXCEPT ![c] = None]
      BY <1>2, <2>5
    <3>2. Fits' /\ Queued'
      BY <1>1, <1>3, <2>3, <3>0, <3>1 DEF Fits, Queued, TypeOK, GateType
    <3>3. PoolStep
      BY <1>1, <1>3, <2>3, <3>1 DEF PoolStep, Pool!poolVars, HoldingSlots, TypeOK, GateType
    <3>4. DropsUnheard
      BY <1>1, <1>3, <2>3, <3>0, <3>1 DEF DropsUnheard, TypeOK, GateType
    <3> QED
      BY <1>5, <1>6, <2>2, <2>3, <2>4, <3>2, <3>3, <3>4 DEF Sound, IInv
  <2>6. CASE ~gone /\ h.slot = gate.slot /\ gate.active = Limit
             /\ h.stands = [gate.stands EXCEPT ![c] = c]
             /\ h.ticket = [gate.ticket EXCEPT ![c] = "open"]
    <3>1. Fits' /\ Queued'
      BY <1>1, <1>2, <1>3, <2>3, <2>6 DEF Fits, Queued, TypeOK, GateType
    <3>2. DropsUnheard
      BY <1>1, <2>3, <2>6 DEF DropsUnheard, TypeOK, GateType
    <3>3. PoolStep
      <4>1. /\ {t \in Call : gate.ticket[t] = "open"}' = {t \in Call : gate.ticket[t] = "open"} \cup {c}
            /\ c \notin {t \in Call : gate.ticket[t] = "open"}
        BY <1>1, <1>3, <2>3, <2>6 DEF TypeOK, GateType
      <4>2. /\ HoldingSlots' = HoldingSlots /\ c \notin HoldingSlots
            /\ {t \in Call : gate.slot[t] = Extra}' = {t \in Call : gate.slot[t] = Extra}
            /\ c \notin {t \in Call : gate.slot[t] = Extra}
        BY <1>3, <2>3, <2>6, GateAssumption DEF HoldingSlots
      <4>3. ~Pool!Free
        <5>1. HoldingSlots = Slotted(gate)
          BY DEF HoldingSlots, Slotted
        <5>2. Cardinality(HoldingSlots) = Limit
          BY <1>1, <2>6, <5>1 DEF Ready, Good
        <5> QED
          BY <5>2, GateAssumption, PoolCounts DEF Pool!Free
      <4>4. Pool!Wait(c)
        BY <4>1, <4>2, <4>3 DEF Pool!Wait
      <4> QED
        BY <4>4 DEF PoolStep, Pool!Next
    <3> QED
      BY <1>5, <1>6, <2>2, <2>3, <2>4, <3>1, <3>2, <3>3 DEF Sound, IInv
  <2>7. CASE ~gone /\ queue(gate) = {} /\ gate.active < Limit
             /\ h.stands = gate.stands
             /\ h.ticket = [gate.ticket EXCEPT ![c] = "granted"]
             /\ h.slot = [gate.slot EXCEPT ![c] = Who[c]]
    <3>1. Fits' /\ Queued'
      BY <1>1, <1>2, <1>3, <2>3, <2>7 DEF Fits, Queued, TypeOK, GateType
    <3>2. DropsUnheard
      BY <1>1, <2>3, <2>7 DEF DropsUnheard, TypeOK, GateType
    <3>3. PoolStep
      <4>1. {t \in Call : gate.ticket[t] = "open"} = {}
        BY <1>1, <2>7 DEF Ready, Manned, queue, Standing
      <4>2. {t \in Call : gate.ticket[t] = "open"}' = {t \in Call : gate.ticket[t] = "open"}
        BY <1>1, <1>3, <2>3, <2>7 DEF TypeOK, GateType
      <4>3. Who[c] \in User /\ None \notin User /\ Extra \notin User /\ Extra # None
        BY GateAssumption
      <4>4. /\ HoldingSlots' = HoldingSlots \cup {c} /\ c \notin HoldingSlots
            /\ {t \in Call : gate.slot[t] = Extra}' = {t \in Call : gate.slot[t] = Extra}
            /\ c \notin {t \in Call : gate.slot[t] = Extra}
        BY <1>1, <1>3, <2>3, <2>7, <4>3 DEF HoldingSlots, TypeOK, GateType
      <4>5. Pool!Free
        <5>1. HoldingSlots = Slotted(gate)
          BY DEF HoldingSlots, Slotted
        <5>2. gate.active = Cardinality(Slotted(gate))
          BY <1>1 DEF Ready, Good
        <5> QED
          BY <2>7, <5>1, <5>2, PoolCounts DEF Pool!Free
      <4>6. Pool!Take(c)
        BY <4>1, <4>2, <4>4, <4>5 DEF Pool!Take
      <4> QED
        BY <4>6 DEF PoolStep, Pool!Next
    <3> QED
      BY <1>5, <1>6, <2>2, <2>3, <2>4, <3>1, <3>2, <3>3 DEF Sound, IInv
  <2> QED
    BY <2>2, <2>5, <2>6, <2>7 DEF Others, OpenedTo
<1> QED
  BY <1>8, <1>9

LEMMA ClientGoneStep == ASSUME IInv, NEW c \in Call, ClientGone(c) PROVE Sound
<1>1. /\ TypeOK /\ Ready(gate) /\ Fresh /\ Fits /\ Queued /\ Awaited /\ Nested /\ None \notin Call
  BY GateAssumption DEF IInv
<1>2. /\ at[c] = "await" /\ at' = [at EXCEPT ![c] = "done"]
      /\ within' = [within EXCEPT ![c] = None] /\ lead' = [lead EXCEPT ![c] = None]
      /\ UNCHANGED <<key, run, flights>>
      /\ gate' = IF gate.stands[c] # None THEN onAbort(gate, c) ELSE gate
  BY <1>1 DEF ClientGone, Answer, TypeOK
<1>3. Fresh' /\ Awaited' /\ Nested'
  BY <1>1, <1>2 DEF Fresh, Awaited, Nested, Live, TypeOK
<1>4. ASSUME gate' \in GateType PROVE TypeOK'
  BY <1>1, <1>2, <1>4 DEF TypeOK
<1>5. CASE gate.stands[c] = None
  <2>1. gate' = gate
    BY <1>2, <1>5
  <2>2. Fits' /\ Queued'
    BY <1>1, <1>2, <1>5, <2>1 DEF Fits, Queued, TypeOK
  <2> QED
    BY <1>1, <1>3, <1>4, <2>1, <2>2, GateKept DEF Sound, IInv, TypeOK
<1>6. CASE gate.stands[c] # None
  <2>1. PICK t \in Call : t = gate.stands[c] /\ gate.ticket[t] = "open" /\ lead[c] = t
    BY <1>1, <1>6 DEF Ready, Good, Queued, queue
  <2>2. PICK h : h = onAbort(gate, c)
    OBVIOUS
  <2>3. Ready(h) /\ LeftTo(gate, h, c) /\ gate' = h /\ h \in GateType
    <3>1. c \in queue(gate)
      BY <1>6 DEF queue
    <3>2. Ready(h) /\ LeftTo(gate, h, c)
      BY <1>1, <2>2, <3>1, Left
    <3> QED
      BY <1>2, <1>6, <2>2, <3>2 DEF Ready, Good
  <2>4. /\ h.slot = gate.slot
        /\ h.stands = [x \in Call |-> IF x = c THEN None ELSE gate.stands[x]]
    BY <2>3 DEF LeftTo, Others
  <2>5. CASE \E x \in Call : x # c /\ gate.stands[x] = t
    <3>1. h.ticket = gate.ticket
      BY <2>1, <2>3, <2>5 DEF LeftTo
    <3>2. Fits' /\ Queued'
      BY <1>1, <1>2, <2>3, <2>4, <3>1 DEF Fits, Queued, TypeOK
    <3> QED
      BY <1>3, <1>4, <2>3, <2>4, <3>1, <3>2, GateKept DEF Sound, IInv
  <2>6. CASE ~\E x \in Call : x # c /\ gate.stands[x] = t
    <3>1. h.ticket = [gate.ticket EXCEPT ![t] = "dropped"]
      BY <2>1, <2>3, <2>6 DEF LeftTo
    <3>2. Fits' /\ Queued'
      BY <1>1, <1>2, <2>1, <2>3, <2>4, <3>1 DEF Fits, Queued, TypeOK, GateType
    <3>3. DropsUnheard
      BY <1>1, <1>2, <2>1, <2>3, <2>6, <3>1 DEF DropsUnheard, Queued, TypeOK, GateType
    <3>4. PoolStep
      <4>1. /\ t \in {x \in Call : gate.ticket[x] = "open"}
            /\ {x \in Call : gate.ticket[x] = "open"}' = {x \in Call : gate.ticket[x] = "open"} \ {t}
        BY <1>1, <2>1, <2>3, <3>1 DEF TypeOK, GateType
      <4>2. /\ HoldingSlots' = HoldingSlots
            /\ {x \in Call : gate.slot[x] = Extra}' = {x \in Call : gate.slot[x] = Extra}
        BY <2>3, <2>4 DEF HoldingSlots
      <4>3. Pool!Leave(t)
        BY <4>1, <4>2 DEF Pool!Leave
      <4> QED
        BY <4>3 DEF PoolStep, Pool!Next
    <3> QED
      BY <1>3, <1>4, <2>3, <3>2, <3>3, <3>4 DEF Sound, IInv
  <2> QED
    BY <2>5, <2>6
<1> QED
  BY <1>5, <1>6

LEMMA TimeUpStep == ASSUME IInv, NEW c \in Call, TimeUp(c) PROVE Sound
<1>1. /\ TypeOK /\ Ready(gate) /\ Fresh /\ Fits /\ Queued /\ Awaited /\ Nested /\ None \notin Call
      /\ Extra # None /\ Extra \notin User
  BY GateAssumption DEF IInv
<1>2. PICK t \in Call : t = gate.stands[c] /\ gate.ticket[t] = "open" /\ gate.slot[t] = None
  BY <1>1 DEF TimeUp, Ready, Good, queue
<1>3. PICK h : h = grant(gate, c, TRUE)
  OBVIOUS
<1>4. /\ Ready(h) /\ GrantedTo(gate, h, t, Extra) /\ gate' = h /\ h \in GateType
      /\ UNCHANGED <<at, key, within, lead, run, flights>>
  <2>1. c \in queue(gate) /\ gate' = h /\ UNCHANGED <<at, key, within, lead, run, flights>>
    BY <1>3 DEF TimeUp, queue
  <2>2. Ready(h) /\ GrantedTo(gate, h, t, Extra)
    BY <1>1, <1>2, <1>3, <2>1, Overflowed
  <2> QED
    BY <2>1, <2>2 DEF Ready, Good
<1>5. /\ h.stands = [x \in Call |-> IF gate.stands[x] = t THEN None ELSE gate.stands[x]]
      /\ h.ticket = [gate.ticket EXCEPT ![t] = "granted"]
      /\ h.slot = [gate.slot EXCEPT ![t] = Extra]
  BY <1>4 DEF GrantedTo
<1>6. TypeOK' /\ Fresh' /\ Awaited' /\ Nested'
  BY <1>1, <1>4 DEF TypeOK, Fresh, Awaited, Nested, Live
<1>7. Fits' /\ Queued'
  BY <1>1, <1>2, <1>4, <1>5 DEF Fits, Queued, TypeOK, GateType
<1>8. DropsUnheard
  BY <1>1, <1>4, <1>5 DEF DropsUnheard, TypeOK, GateType
<1>9. PoolStep
  <2>1. /\ t \in {x \in Call : gate.ticket[x] = "open"}
        /\ {x \in Call : gate.ticket[x] = "open"}' = {x \in Call : gate.ticket[x] = "open"} \ {t}
    BY <1>1, <1>2, <1>4, <1>5 DEF TypeOK, GateType
  <2>2. {x \in Call : gate.slot[x] = Extra}' = {x \in Call : gate.slot[x] = Extra} \cup {t}
    BY <1>1, <1>2, <1>4, <1>5 DEF TypeOK, GateType
  <2>3. HoldingSlots' = HoldingSlots
    BY <1>1, <1>2, <1>4, <1>5, GateAssumption DEF HoldingSlots, TypeOK, GateType
  <2>4. Pool!Overflow(t)
    BY <2>1, <2>2, <2>3 DEF Pool!Overflow
  <2> QED
    BY <2>4 DEF PoolStep, Pool!Next
<1> QED
  BY <1>4, <1>6, <1>7, <1>8, <1>9 DEF Sound, IInv

\* A body ends; what it held goes to somebody who waits.
LEMMA EndStep == ASSUME IInv, NEW r \in Call, End(r) PROVE Sound
<1>1. /\ TypeOK /\ Ready(gate) /\ Fresh /\ Fits /\ Queued /\ Awaited /\ Nested /\ None \notin Call
      /\ Extra # None /\ Extra \notin User /\ None \notin User
  BY GateAssumption DEF IInv
<1>2. /\ run[r] = "busy" /\ run' = [run EXCEPT ![r] = "freed"]
      /\ gate' = IF gate.slot[r] = None THEN gate ELSE release(gate, r)
      /\ UNCHANGED <<at, key, within, lead, flights>>
  BY DEF End
<1>3. Fresh' /\ Awaited' /\ Nested'
  BY <1>1, <1>2 DEF Fresh, Awaited, Nested, Live, TypeOK
<1>4. ASSUME gate' \in GateType PROVE TypeOK'
  BY <1>1, <1>2, <1>4 DEF TypeOK
<1>5. CASE gate.slot[r] = None
  <2>1. gate' = gate
    BY <1>2, <1>5
  <2>2. Fits' /\ Queued'
    BY <1>1, <1>2, <1>5, <2>1 DEF Fits, Queued, TypeOK
  <2> QED
    BY <1>1, <1>3, <1>4, <2>1, <2>2, GateKept DEF Sound, IInv, TypeOK
<1>6. CASE gate.slot[r] # None
  <2>1. PICK h : h = release(gate, r)
    OBVIOUS
  <2>2. Ready(h) /\ HandedTo(gate, h, r)
    BY <1>1, <1>6, <2>1, Handed
  <2>3. gate' = h /\ h \in GateType /\ Manned(gate)
    BY <1>1, <1>2, <1>6, <2>1, <2>2 DEF Ready, Good
  <2>4. gate.ticket[r] # "open"
    BY <1>1, <1>2 DEF Fits
  <2>5. CASE /\ h.slot = [gate.slot EXCEPT ![r] = None]
             /\ h.ticket = gate.ticket /\ h.stands = gate.stands
             /\ queue(gate) = {} \/ gate.slot[r] = Extra
    <3>1. Fits' /\ Queued'
      BY <1>1, <1>2, <2>3, <2>4, <2>5 DEF Fits, Queued, TypeOK, GateType
    <3>2. DropsUnheard
      BY <2>3, <2>5 DEF DropsUnheard
    <3>3. PoolStep
      <4>1. {x \in Call : gate.ticket[x] = "open"}' = {x \in Call : gate.ticket[x] = "open"}
        BY <2>3, <2>5
      <4>2. CASE gate.slot[r] = Extra
        <5>1. /\ HoldingSlots' = HoldingSlots
              /\ r \in {x \in Call : gate.slot[x] = Extra}
              /\ {x \in Call : gate.slot[x] = Extra}' = {x \in Call : gate.slot[x] = Extra} \ {r}
          BY <1>1, <2>3, <2>5, <4>2 DEF HoldingSlots, TypeOK, GateType
        <5>2. Pool!EndExtra(r)
          BY <4>1, <5>1 DEF Pool!EndExtra
        <5> QED
          BY <5>2 DEF PoolStep, Pool!Next
      <4>3. CASE gate.slot[r] # Extra
        <5>1. {x \in Call : gate.ticket[x] = "open"} = {}
          BY <2>3, <2>5, <4>3, <1>1 DEF Manned, Standing, queue
        <5>2. /\ r \in HoldingSlots /\ HoldingSlots' = HoldingSlots \ {r}
              /\ {x \in Call : gate.slot[x] = Extra}' = {x \in Call : gate.slot[x] = Extra}
          BY <1>1, <1>6, <2>3, <2>5, <4>3 DEF HoldingSlots, TypeOK, GateType
        <5>3. Pool!Give(r)
          BY <4>1, <5>1, <5>2 DEF Pool!Give
        <5> QED
          BY <5>3 DEF PoolStep, Pool!Next
      <4> QED
        BY <4>2, <4>3
    <3> QED
      BY <1>3, <1>4, <2>2, <2>3, <3>1, <3>2, <3>3 DEF Sound, IInv
  <2>6. ASSUME NEW c \in queue(gate), gate.slot[r] # Extra, gate.stands[c] # r,
               h.slot = [gate.slot EXCEPT ![r] = None, ![gate.stands[c]] = Who[c]],
               h.ticket = [gate.ticket EXCEPT ![gate.stands[c]] = "granted"],
               h.stands = [x \in Call |-> IF gate.stands[x] = gate.stands[c] THEN None ELSE gate.stands[x]]
        PROVE  Sound
    <3>1. PICK t \in Call : t = gate.stands[c] /\ gate.ticket[t] = "open" /\ gate.slot[t] = None /\ t # r
      BY <1>1, <2>6 DEF Ready, Good
    <3>2. PICK u \in User : u = Who[c]
      BY GateAssumption DEF queue
    <3>3. /\ h.slot = [gate.slot EXCEPT ![r] = None, ![t] = u]
          /\ h.ticket = [gate.ticket EXCEPT ![t] = "granted"]
          /\ h.stands = [x \in Call |-> IF gate.stands[x] = t THEN None ELSE gate.stands[x]]
      BY <2>6, <3>1, <3>2
    <3>4. Fits'
      BY <1>1, <1>2, <2>3, <2>4, <3>1, <3>3 DEF Fits, TypeOK, GateType
    <3>5. Queued'
      BY <1>1, <1>2, <2>3, <3>1, <3>3 DEF Queued, TypeOK, GateType
    <3>6. DropsUnheard
      BY <1>1, <2>3, <3>3 DEF DropsUnheard, TypeOK, GateType
    <3>7. PoolStep
      <4>1. /\ t \in {x \in Call : gate.ticket[x] = "open"}
            /\ {x \in Call : gate.ticket[x] = "open"}' = {x \in Call : gate.ticket[x] = "open"} \ {t}
        BY <1>1, <2>3, <3>1, <3>3 DEF TypeOK, GateType
      <4>2. {x \in Call : gate.slot[x] = Extra}' = {x \in Call : gate.slot[x] = Extra}
        BY <1>1, <2>3, <2>6, <3>1, <3>3 DEF TypeOK, GateType
      <4>3. r \in HoldingSlots /\ HoldingSlots' = (HoldingSlots \ {r}) \cup {t}
        BY <1>1, <1>6, <2>3, <2>6, <3>1, <3>3 DEF HoldingSlots, TypeOK, GateType
      <4>4. Pool!Give(r)
        BY <4>1, <4>2, <4>3 DEF Pool!Give
      <4> QED
        BY <4>4 DEF PoolStep, Pool!Next
    <3> QED
      BY <1>3, <1>4, <2>2, <2>3, <3>4, <3>5, <3>6, <3>7 DEF Sound, IInv
  <2> QED
    BY <2>2, <2>5, <2>6 DEF HandedTo
<1> QED
  BY <1>5, <1>6

\* Begin, and a promise that settles.
LEMMA SettleStep ==
  ASSUME IInv, NEW r \in Call, Begin(r) \/ Refuse(r) \/ Settle(r) PROVE Sound
<1>1. /\ TypeOK /\ Ready(gate) /\ Fresh /\ Fits /\ Queued /\ Awaited /\ Nested /\ None \notin Call
      /\ None \notin Key
  BY GateAssumption, ReadAssumption DEF IInv
<1>2. gate' = gate
  BY DEF Begin, Refuse, Settle, Hear
<1>3. CASE Begin(r)
  <2>1. /\ run[r] = "queued" /\ gate.ticket[r] = "granted" /\ run' = [run EXCEPT ![r] = "busy"]
        /\ UNCHANGED <<at, key, within, lead, flights>>
    BY <1>3 DEF Begin
  <2>2. TypeOK' /\ Fresh' /\ Fits' /\ Queued'
    BY <1>1, <1>2, <2>1 DEF TypeOK, Fresh, Fits, Queued
  <2>3. Awaited' /\ Nested'
    BY <1>1, <2>1 DEF TypeOK, Awaited, Nested, Live
  <2> QED
    BY <1>1, <1>2, <2>2, <2>3, GateKept DEF Sound, IInv
<1>4. CASE Refuse(r) \/ Settle(r)
  <2>1. /\ gate.ticket[r] # "open" /\ gate.slot[r] = None /\ Live(r)
        /\ run' = [run EXCEPT ![r] = "over"] /\ key' = [key EXCEPT ![r] = None]
        /\ flights' = [k \in Key |-> IF flights[k] = r THEN None ELSE flights[k]]
        /\ at' = [c \in Call |-> IF lead[c] = r THEN "done" ELSE at[c]]
        /\ within' = [c \in Call |-> IF lead[c] = r THEN None ELSE within[c]]
        /\ lead' = [c \in Call |-> IF lead[c] = r THEN None ELSE lead[c]]
    BY <1>1, <1>4 DEF Refuse, Settle, Hear, Answer, Fits, Ready, Good, Live
  <2>2. TypeOK'
    BY <1>1, <1>2, <2>1 DEF TypeOK
  <2>3. Fresh' /\ Fits'
    BY <1>1, <1>2, <2>1 DEF TypeOK, Fresh, Fits, Live
  <2>4. Queued'
    BY <1>1, <1>2, <2>1 DEF TypeOK, GateType, Queued, Ready, Good, queue
  <2>5. Awaited' /\ Nested'
    BY <1>1, <2>1 DEF TypeOK, Awaited, Nested, Live
  <2> QED
    BY <1>1, <1>2, <2>2, <2>3, <2>4, <2>5, GateKept DEF Sound, IInv
<1> QED
  BY <1>3, <1>4

LEMMA Steps == IInv /\ [Next]_vars => Sound
<1> SUFFICES ASSUME IInv, [Next]_vars PROVE Sound
  OBVIOUS
<1>1. CASE UNCHANGED vars
  <2>1. /\ gate' = gate /\ at' = at /\ key' = key /\ within' = within /\ lead' = lead
        /\ run' = run /\ flights' = flights
    BY <1>1 DEF vars
  <2>2. IInv'
    BY <2>1 DEF IInv, TypeOK, Fresh, Fits, Queued, Awaited, Nested, Live
  <2> QED
    BY <2>1, <2>2, GateKept DEF Sound
<1>2. ASSUME NEW c \in Call, SharedCall(c) PROVE Sound
  <2>1. PICK k \in Key, p \in Call \cup {None}, gone \in BOOLEAN :
          Join(c, k, p, gone) \/ Lead(c, k, p, gone) \/ Alone(c, k, p, gone)
    BY <1>2 DEF SharedCall
  <2> QED
    BY <2>1, JoinStep, OwnRunStep DEF Lead, Alone
<1>3. ASSUME NEW c \in Call, GatedCall(c) PROVE Sound
  <2>1. PICK gone \in BOOLEAN : OwnRun(c, None, None, gone) /\ flights' = flights
    BY <1>3 DEF GatedCall
  <2> QED
    BY <2>1, OwnRunStep
<1> QED
  BY <1>1, <1>2, <1>3, ClientGoneStep, TimeUpStep, EndStep, SettleStep DEF Next, Progress

\* Nobody but the run that ends hands a slot to those who wait.
NobodyServed == \A t \in Call : gate.ticket[t] = "open" => gate'.slot[t] \notin User

LEMMA UnservedUnless ==
  ASSUME IInv, [Next]_vars, \A r \in Call : ~End(r)
  PROVE  NobodyServed
<1>1. /\ TypeOK /\ Ready(gate) /\ Fresh /\ Fits /\ None \notin User /\ Extra \notin User
      /\ \A t \in Call : gate.ticket[t] = "open" => gate.slot[t] = None
  BY GateAssumption DEF IInv, Ready, Good
<1>2. CASE gate'.slot = gate.slot
  BY <1>1, <1>2 DEF NobodyServed
<1>3. ASSUME NEW c \in Call, NEW k, NEW p \in Call \cup {None}, NEW gone \in BOOLEAN,
             Join(c, k, p, gone), k \in Key
      PROVE  gate'.slot = gate.slot
  <2>1. PICK t : t = flights[k]
    OBVIOUS
  <2>2. /\ t \in Call /\ at[c] = "idle"
        /\ gate' = (IF Started(t) THEN gate ELSE addWaiter(gate, t, c, gone))
    BY <1>1, <1>3, <2>1, GateAssumption DEF Join, Joinable, Await, TypeOK
  <2>3. gate.stands[c] = None
    BY <2>2, NewCall
  <2>4. CASE Started(t) \/ gate.ticket[t] # "open"
    BY <2>2, <2>4 DEF addWaiter
  <2>5. CASE ~Started(t) /\ gate.ticket[t] = "open"
    <3>1. Others(gate, addWaiter(gate, t, c, gone))
      BY <1>1, <2>2, <2>3, <2>5, Joined
    <3> QED
      BY <2>2, <2>5, <3>1 DEF Others
  <2> QED
    BY <2>4, <2>5
<1>4. ASSUME NEW c \in Call, NEW k, NEW p \in Call \cup {None}, NEW gone \in BOOLEAN,
             OwnRun(c, k, p, gone)
      PROVE  NobodyServed
  <2>1. /\ at[c] = "idle"
        /\ gate' = IF p = None THEN addWaiter(openTicket(gate, c), c, c, gone) ELSE gate
    BY <1>4 DEF OwnRun, Await
  <2>2. gate.ticket[c] = "none" /\ gate.stands[c] = None
    BY <2>1, NewCall
  <2>3. p = None => OpenedTo(gate, gate', c, gone)
    BY <1>1, <2>1, <2>2, Opened
  <2>4. gate'.slot = gate.slot \/ gate'.slot = [gate.slot EXCEPT ![c] = Who[c]]
    BY <2>1, <2>3 DEF OpenedTo, Others
  <2> QED
    BY <1>1, <2>2, <2>4 DEF NobodyServed, TypeOK, GateType
<1>5. ASSUME NEW c \in Call, ClientGone(c)
      PROVE  gate'.slot = gate.slot
  <2>1. gate' = gate \/ (c \in queue(gate) /\ gate' = onAbort(gate, c))
    BY <1>5 DEF ClientGone, queue
  <2>2. c \in queue(gate) => LeftTo(gate, onAbort(gate, c), c)
    BY <1>1, Left
  <2> QED
    BY <2>1, <2>2 DEF LeftTo, Others
<1>6. ASSUME NEW c \in Call, TimeUp(c)
      PROVE  NobodyServed
  <2>1. c \in queue(gate) /\ gate' = grant(gate, c, TRUE)
    BY <1>6 DEF TimeUp, queue
  <2>2. gate'.slot = [gate.slot EXCEPT ![gate.stands[c]] = Extra]
    BY <1>1, <2>1, Overflowed DEF GrantedTo
  <2> QED
    BY <1>1, <2>2 DEF NobodyServed, TypeOK, GateType
<1>7. ASSUME NEW r \in Call, Begin(r) \/ Refuse(r) \/ Settle(r)
      PROVE  gate'.slot = gate.slot
  BY <1>7 DEF Begin, Refuse, Settle, Hear
<1>8. ASSUME NEW c \in Call, SharedCall(c)
      PROVE  NobodyServed
  <2>1. PICK k \in Key, p \in Call \cup {None}, gone \in BOOLEAN :
          Join(c, k, p, gone) \/ Lead(c, k, p, gone) \/ Alone(c, k, p, gone)
    BY <1>8 DEF SharedCall
  <2> QED
    BY <1>2, <1>3, <1>4, <2>1 DEF Lead, Alone
<1>9. ASSUME NEW c \in Call, GatedCall(c)
      PROVE  NobodyServed
  BY <1>4, <1>9 DEF GatedCall
<1>10. CASE UNCHANGED vars
  BY <1>2, <1>10 DEF vars
<1> QED
  BY <1>2, <1>5, <1>6, <1>7, <1>8, <1>9, <1>10 DEF Next, Progress

\* A slot is handed to a ticket that c waits for, and whoever stood in front of c was over
\* their share.
InTurn ==
  \A c \in queue(gate) \cap queue(gate'), t \in Call :
    /\ gate.ticket[t] = "open" /\ gate'.slot[t] \in User
    /\ \A d \in Standing(gate, t) : Who[d] = gate'.slot[t] => gate.place[c] < gate.place[d]
    => ~UnderShare(gate, Who[c])

LEMMA Turns == IInv /\ [Next]_vars => InTurn
<1> SUFFICES ASSUME IInv, [Next]_vars PROVE InTurn
  OBVIOUS
<1>1. /\ Ready(gate) /\ gate \in GateType /\ None \notin User
      /\ \A t \in Call : gate.ticket[t] = "open" => gate.slot[t] = None
  BY GateAssumption DEF IInv, Ready, Good
<1>2. CASE NobodyServed
  BY <1>2 DEF NobodyServed, InTurn
<1>3. ASSUME NEW r \in Call, End(r)
      PROVE  InTurn
  <2>1. CASE gate' = gate
    BY <1>1, <2>1 DEF InTurn
  <2>2. CASE gate.slot[r] # None /\ gate' = release(gate, r)
    <3>1. HandedTo(gate, gate', r)
      BY <1>1, <2>2, Handed
    <3>2. CASE gate'.slot = [gate.slot EXCEPT ![r] = None]
      BY <1>1, <3>2 DEF InTurn, GateType
    <3>3. ASSUME NEW d \in queue(gate), Foremost(gate, d), gate.stands[d] # r,
                 gate'.slot = [gate.slot EXCEPT ![r] = None, ![gate.stands[d]] = Who[d]]
          PROVE  InTurn
      <4> SUFFICES ASSUME NEW c \in queue(gate), NEW t \in Call,
                          gate.ticket[t] = "open", gate'.slot[t] \in User,
                          \A x \in Standing(gate, t) :
                             Who[x] = gate'.slot[t] => gate.place[c] < gate.place[x],
                          UnderShare(gate, Who[c])
                   PROVE  FALSE
        BY DEF InTurn
      <4>1. gate.stands[d] = t /\ gate'.slot[t] = Who[d]
        BY <1>1, <3>3 DEF GateType
      <4>2. gate.place[c] < gate.place[d]
        BY <4>1 DEF Standing, queue
      <4>3. gate.place[d] <= gate.place[c]
        BY <3>3 DEF Foremost
      <4>4. gate.place[c] \in Nat /\ gate.place[d] \in Nat
        BY <1>1 DEF GateType, queue
      <4> QED
        BY <4>2, <4>3, <4>4
    <3> QED
      BY <3>1, <3>2, <3>3 DEF HandedTo
  <2> QED
    BY <1>3, <2>1, <2>2 DEF End
<1> QED
  BY <1>2, <1>3, UnservedUnless

LEMMA Start == Init => IInv /\ Pool!Init
<1> SUFFICES ASSUME Init PROVE IInv /\ Pool!Init
  OBVIOUS
<1>1. PICK g : g = EmptyGate
  OBVIOUS
<1>2. g \in GateType
  BY <1>1, GateAssumption DEF EmptyGate, GateType
<1>3. /\ g.active = 0 /\ g.overflowRunning = 0 /\ g.byUser = [u \in User |-> 0]
      /\ g.ticket = [c \in Call |-> "none"] /\ g.slot = [c \in Call |-> None]
      /\ g.stands = [c \in Call |-> None]
  BY <1>1 DEF EmptyGate
<1>4. /\ Slotted(g) = {} /\ queue(g) = {} /\ Charged(g, Extra) = {}
      /\ \A u \in User : Charged(g, u) = {}
  BY <1>3, GateAssumption DEF Slotted, Charged, queue
<1>5. Cardinality({}) = 0
  BY FS_EmptySet
<1>6. Ready(g)
  BY <1>2, <1>3, <1>4, <1>5, GateAssumption DEF Ready, Good, Manned, Used
<1>7. gate = g
  BY <1>1 DEF Init
<1>8. TypeOK /\ Fresh /\ Fits /\ Queued /\ Awaited /\ Nested
  BY <1>2, <1>3, <1>7, GateAssumption DEF Init, TypeOK, Fresh, Fits, Queued, Awaited, Nested
<1>9. Pool!Init
  BY <1>3, <1>7, GateAssumption DEF Pool!Init, HoldingSlots
<1> QED
  BY <1>6, <1>7, <1>8, <1>9 DEF IInv

LEMMA Kernel == Spec => []IInv
<1>1. IInv /\ [Next]_vars => IInv'
  BY Steps DEF Sound
<1> QED
  BY <1>1, Start, PTL DEF Spec

\* The gate, the calls and the runs always have the declared types.
THEOREM TypesHold == Spec => []TypeOK
BY Kernel, PTL DEF IInv

\* The counters are the runs they count, whatever calls share, leave, time out and
\* fail (read-gate.ts:163-292).
THEOREM SlotsAddUpHolds == Spec => []SlotsAddUp
<1>1. IInv => SlotsAddUp
  BY DEF IInv, Ready, Good, Slotted, Charged, Fits, SlotsAddUp, HoldingSlots
<1> QED
  BY <1>1, Kernel, PTL

\* No slot stands idle while anybody is queued: the shares of users do not waste one
\* (read-gate.ts:151-161).
THEOREM SlotsAreUsedHolds == Spec => []SlotsAreUsed
<1>1. IInv => SlotsAreUsed
  BY DEF IInv, Ready, Used, SlotsAreUsed
<1> QED
  BY <1>1, Kernel, PTL

\* A call in the body of a slot holder never awaits a run that has not begun
\* (read-gate.ts:392-436).
THEOREM NestedNeverWaitsHolds == Spec => []NestedNeverWaits
<1>1. IInv => NestedNeverWaits
  BY DEF IInv, Nested, NestedNeverWaits
<1> QED
  BY <1>1, Kernel, PTL

\* Whoever leaves the queue or finds its client gone refuses nobody else
\* (read-gate.ts:249-292).
THEOREM RefusesNobodyElseHolds == Spec => RefusesNobodyElse
<1>1. IInv /\ [Next]_vars =>
        [\A t \in Call : gate.ticket[t] # "dropped" /\ gate'.ticket[t] = "dropped"
                         => \A c \in Call : lead'[c] # t]_vars
  BY Steps DEF Sound, DropsUnheard
<1> QED
  BY <1>1, Kernel, PTL DEF Spec, RefusesNobodyElse

\* Whoever is passed over in the queue has their share already (read-gate.ts:219-227).
THEOREM OvertakeAtShareOnlyHolds == Spec => OvertakeAtShareOnly
<1>1. IInv /\ [Next]_vars =>
        [\A c \in queue(gate) \cap queue(gate'), t \in Call :
           /\ gate.ticket[t] = "open" /\ gate'.slot[t] \in User
           /\ \A d \in Standing(gate, t) :
                Who[d] = gate'.slot[t] => gate.place[c] < gate.place[d]
           => ~UnderShare(gate, Who[c])]_vars
  BY Turns DEF InTurn
<1> QED
  BY <1>1, Kernel, PTL DEF Spec, OvertakeAtShareOnly

\* Seen from outside, the gate is a pool of slots that never stands idle while somebody
\* waits: every step of the code is one of the pool's, or none (read-gate.ts:9-36).
THEOREM ImplementsPool == Spec => PoolSpec
<1>1. IInv /\ [Next]_vars => [Pool!Next]_(Pool!poolVars)
  BY Steps DEF Sound, PoolStep
<1> QED
  BY <1>1, Start, Kernel, PTL DEF Spec, PoolSpec, Pool!Spec

=============================================================================
