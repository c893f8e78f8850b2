----------------------- MODULE TriggerDeliveryProofs -----------------------
(***************************************************************************)
(* Deliveries of agent triggers, for every number of rows, processes,      *)
(* deaths, retries and attempts.  That one worker sends a row rests on     *)
(* what its readers remember: as long as no claim has gone stale they all  *)
(* saw it waiting or dead, and a row with a sender is neither (Alone,      *)
(* Saw).  That a dead row had its attempts survives two senders that write *)
(* over each other because the count any of them remembers, plus the       *)
(* answers not written yet, never exceeds the requests sent (Counted); the *)
(* limit a stale sender remembers may be another than the row's, and then  *)
(* the row's has been reached too (Limited).                               *)
(***************************************************************************)
EXTENDS TriggerDelivery, FiniteSetTheorems, TLAPS

\* Workers with a row in hand.
Holding(w) == pc[w] \in {"asked", "claimed", "off", "post", "answered"}

\* What w remembers of rows.
Reads(w) == due[w] \cup {r \in {has[w]} : Holding(w)}

\* Senders whose answer is not written yet.
Answered(d) == {w \in Worker : pc[w] = "answered" /\ has[w].id = d}
Unwritten(d) == Cardinality(Answered(d))

InHand == \A w \in Worker : Holding(w) => has[w] \in Seen

\* A row that was read is there.
Exists == \A w \in Worker : \A r \in Reads(w) : row[r.id].status # "none"

\* Claims that are taken over have gone stale.
Stale == \A d \in Delivery : row[d].status = "sending" /\ row[d].ripe => lapsed[d]

\* Nobody who may claim the row saw it being sent.
Saw ==
  \A w \in Worker :
    /\ \A r \in due[w] : r.status = "retrying" \/ (r.status = "sending" /\ lapsed[r.id])
    /\ pc[w] = "asked" => has[w].status \in {"dead", "retrying"}

\* A row has one sender, and is at "sending" while it has.
Alone ==
  \A d \in Delivery : ~lapsed[d] =>
    \A w \in Senders(d) : row[d].status = "sending" /\ \A v \in Senders(d) : v = w

\* Attempts in the row, or remembered by anyone, are requests that were sent.
Counted ==
  /\ \A d \in Delivery : row[d].attempts + Unwritten(d) <= posts[d]
  /\ \A w \in Worker : \A r \in Reads(w) : r.attempts + Unwritten(r.id) <= posts[r.id]

\* The limit a worker remembers is the row's, or the row's is used up.
Limited ==
  \A w \in Worker : \A r \in Reads(w) :
    r.max = row[r.id].max \/ row[r.id].max + Unwritten(r.id) <= posts[r.id] + 1

\* A final answer has been noted.
Refused == \A w \in Worker : pc[w] = "answered" /\ answer[w] = "final" => refused[has[w].id]

IInv1 == TypeOK /\ InHand /\ Stale /\ Saw /\ Alone
IInv2 == Exists /\ Counted /\ Limited /\ Refused /\ DeadHadItsTries

-----------------------------------------------------------------------------

LEMMA LookIsSeen == ASSUME NEW d \in Delivery, TypeOK PROVE Look(d) \in Seen
BY DEF TypeOK, Row, Look, Seen

LEMMA TypeStep == TypeOK /\ InHand /\ [Next]_vars => (TypeOK /\ InHand)'
<1> SUFFICES ASSUME TypeOK, InHand, [Next]_vars PROVE (TypeOK /\ InHand)'
  OBVIOUS
<1> USE DEF TypeOK, InHand, Holding, Row, Status, work, history, bounds
<1>1. CASE UNCHANGED vars
  BY <1>1 DEF vars
<1>2. ASSUME NEW w \in Worker, Drain(w) PROVE (TypeOK /\ InHand)'
  <2>1. DueRows \in SUBSET Seen
    BY LookIsSeen DEF DueRows
  <2> QED
    BY <1>2, <2>1 DEF Drain
<1>3. ASSUME NEW w \in Worker, Load(w) PROVE (TypeOK /\ InHand)'
  BY <1>3 DEF Load
<1>4. ASSUME NEW w \in Worker, Post(w) PROVE (TypeOK /\ InHand)'
  <2>1. has[w] \in Seen /\ has[w].id \in Delivery
    BY <1>4 DEF Post, Seen
  <2> QED
    BY <1>4, <2>1 DEF Post
<1>5. ASSUME NEW w \in Worker, Finish(w) PROVE (TypeOK /\ InHand)'
  <2>1. has[w] \in Seen /\ has[w].id \in Delivery /\ has[w].attempts \in Nat
    BY <1>5 DEF Finish, Seen
  <2>2. Outcome(has[w], answer[w]) \in Status
    BY DEF Outcome
  <2> DEFINE d == has[w].id
             new == [status |-> Outcome(has[w], answer[w]), attempts |-> has[w].attempts + 1,
                     max |-> row[d].max, ripe |-> FALSE]
             off == [status |-> "discarded", attempts |-> row[d].attempts,
                     max |-> row[d].max, ripe |-> row[d].ripe]
  <2>3. new \in Row /\ off \in Row
    BY <2>1, <2>2
  <2>4. \/ row' = row
        \/ row' = [row EXCEPT ![d].status = "discarded"]
        \/ row' = [row EXCEPT ![d] = new]
    BY <1>5 DEF Finish
  <2>5. row' = [row EXCEPT ![d].status = "discarded"] => row' = [row EXCEPT ![d] = off]
    BY <2>1
  <2> HIDE DEF new, off, d
  <2>6. row' \in [Delivery -> Row]
    BY <2>3, <2>4, <2>5
  <2> QED
    BY <1>5, <2>6 DEF Finish, After
<1>6. ASSUME NEW w \in Worker, Retry(w) PROVE (TypeOK /\ InHand)'
  <2>1. has[w] \in Seen /\ has[w].id \in Delivery /\ has[w].attempts \in Nat
    BY <1>6 DEF Retry, Seen
  <2>2. [has[w] EXCEPT !.max = has[w].attempts + 1] \in Seen
    BY <2>1 DEF Seen
  <2>3. CASE ~Unchanged(has[w])
    BY <1>6, <2>3 DEF Retry
  <2>4. CASE Unchanged(has[w])
    <3>1. /\ row' = [row EXCEPT ![has[w].id] = [status |-> "sending", attempts |-> has[w].attempts,
                                             max |-> has[w].attempts + 1, ripe |-> FALSE]]
          /\ has' = [has EXCEPT ![w] = [has[w] EXCEPT !.max = has[w].attempts + 1]]
          /\ pc' = [pc EXCEPT ![w] = "claimed"] /\ UNCHANGED <<enabled, due, answer, history, bounds>>
      BY <1>6, <2>4 DEF Retry
    <3>2. row' \in [Delivery -> Row]
      BY <2>1, <3>1
    <3>3. has' \in [Worker -> Seen \cup {None}] /\ InHand'
      BY <2>2, <3>1
    <3> QED
      BY <3>1, <3>2, <3>3
  <2> QED
    BY <2>3, <2>4
<1>7. ASSUME NEW w \in Worker, NEW r \in due[w], Claim(w, r) PROVE (TypeOK /\ InHand)'
  <2>1. r \in Seen /\ r.id \in Delivery
    BY DEF Seen
  <2>2. CASE Unchanged(r)
    <3>1. row' = [row EXCEPT ![r.id].status = "sending", ![r.id].ripe = FALSE]
      BY <1>7, <2>2 DEF Claim
    <3>2. row' \in [Delivery -> Row]
      BY <2>1, <3>1
    <3> QED
      BY <1>7, <2>1, <2>2, <3>2 DEF Claim
  <2>3. CASE ~Unchanged(r)
    BY <1>7, <2>1, <2>3 DEF Claim, After
  <2> QED
    BY <2>2, <2>3
<1>8. ASSUME NEW w \in Worker, Crash(w) PROVE (TypeOK /\ InHand)'
  BY <1>8 DEF Crash
<1>9. ASSUME NEW w \in Worker, NEW d \in Delivery, Fire(w, d) PROVE (TypeOK /\ InHand)'
  <2>1. [id |-> d, status |-> "sending", attempts |-> 0, max |-> MaxAttempts] \in Seen
    BY DeliveryAssumption DEF Seen
  <2> QED
    BY <1>9, <2>1, DeliveryAssumption DEF Fire
<1>10. ASSUME NEW w \in Worker, NEW d \in Delivery, AskRetry(w, d) PROVE (TypeOK /\ InHand)'
  BY <1>10, LookIsSeen DEF AskRetry
<1>11. ASSUME NEW d \in Delivery, Skip(d) \/ discardDelivery(d) \/ pruneDeliveries(d) \/ Ripen(d)
       PROVE (TypeOK /\ InHand)'
  <2>1. CASE Skip(d) \/ discardDelivery(d)
    <3>1. row' \in [Delivery -> Row]
      BY <2>1 DEF Skip, discardDelivery
    <3> QED
      BY <2>1, <3>1 DEF Skip, discardDelivery
  <2>2. CASE pruneDeliveries(d)
    BY <2>2 DEF pruneDeliveries, Absent
  <2>3. CASE Ripen(d)
    BY <2>3 DEF Ripen
  <2> QED
    BY <1>11, <2>1, <2>2, <2>3
<1>12. CASE Disable
  BY <1>12 DEF Disable
<1> QED
  BY <1>1, <1>2, <1>3, <1>4, <1>5, <1>6, <1>7, <1>8, <1>9, <1>10, <1>11, <1>12 DEF Next, Step


\* Nobody takes a row over that has a sender, unless its claim has gone stale.
LEMMA AloneStep == IInv1 /\ [Next]_vars => (Stale /\ Saw /\ Alone)'
<1> SUFFICES ASSUME IInv1, [Next]_vars PROVE (Stale /\ Saw /\ Alone)'
  OBVIOUS
<1>0. TypeOK /\ InHand /\ Stale /\ Saw /\ Alone /\ TypeOK' /\ InHand'
  BY TypeStep DEF IInv1
<1> USE <1>0 DEF Stale, Saw, Alone, Senders, work, history, bounds
<1>1. CASE UNCHANGED vars
  BY <1>1 DEF vars
<1>2. ASSUME NEW w \in Worker, Drain(w) PROVE (Stale /\ Saw /\ Alone)'
  BY <1>2 DEF Drain, DueRows, Look, TypeOK
<1>3. ASSUME NEW w \in Worker, Load(w) PROVE (Stale /\ Saw /\ Alone)'
  BY <1>3 DEF Load, TypeOK
<1>4. ASSUME NEW w \in Worker, Post(w) PROVE (Stale /\ Saw /\ Alone)'
  BY <1>4 DEF Post, TypeOK
<1>5. ASSUME NEW w \in Worker, Finish(w) PROVE (Stale /\ Saw /\ Alone)'
  <2>1. has[w] \in Seen /\ has[w].id \in Delivery
    BY <1>5 DEF Finish, Seen, InHand, Holding
  <2>2. pc' = [pc EXCEPT ![w] = After(due[w])] /\ has' = [has EXCEPT ![w] = None]
        /\ After(due[w]) \in {"idle", "drain"} /\ UNCHANGED <<due, lapsed>>
    BY <1>5 DEF Finish, After
  <2>3. \A d \in Delivery : d # has[w].id => row'[d] = row[d]
    BY <1>5, <2>1 DEF Finish, TypeOK
  <2>4. row'[has[w].id].status # "sending"
    BY <1>5, <2>1 DEF Finish, TypeOK, Outcome, Row
  <2>5. w \in Senders(has[w].id)
    BY <1>5 DEF Finish
  <2>6. Alone'
    BY <2>1, <2>2, <2>3, <2>5 DEF TypeOK
  <2> QED
    BY <2>2, <2>3, <2>4, <2>6 DEF TypeOK
<1>6. ASSUME NEW w \in Worker, Retry(w) PROVE (Stale /\ Saw /\ Alone)'
  <2>1. has[w] \in Seen /\ has[w].id \in Delivery /\ has[w].status \in {"dead", "retrying"}
    BY <1>6 DEF Retry, Seen, InHand, Holding
  <2>2. CASE ~Unchanged(has[w])
    BY <1>6, <2>2 DEF Retry, TypeOK
  <2>3. CASE Unchanged(has[w])
    <3>1. ~lapsed[has[w].id] => Senders(has[w].id) = {}
      BY <2>1, <2>3 DEF Unchanged
    <3>2. /\ row' = [row EXCEPT ![has[w].id] = [status |-> "sending", attempts |-> has[w].attempts,
                                             max |-> has[w].attempts + 1, ripe |-> FALSE]]
          /\ has' = [has EXCEPT ![w].max = has[w].attempts + 1]
          /\ pc' = [pc EXCEPT ![w] = "claimed"] /\ UNCHANGED <<due, lapsed>>
      BY <1>6, <2>3 DEF Retry
    <3>3. has'[w].id = has[w].id /\ \A v \in Worker : v # w => has'[v] = has[v] /\ pc'[v] = pc[v]
      BY <2>1, <3>2 DEF TypeOK, Seen
    <3>4. Stale' /\ Saw'
      BY <2>1, <3>2, <3>3 DEF TypeOK
    <3>5. Alone'
      BY <2>1, <3>1, <3>2, <3>3 DEF TypeOK
    <3> QED
      BY <3>4, <3>5
  <2> QED
    BY <2>2, <2>3
<1>7. ASSUME NEW w \in Worker, NEW r \in due[w], Claim(w, r) PROVE (Stale /\ Saw /\ Alone)'
  <2>1. r \in Seen /\ r.id \in Delivery
    BY DEF Seen, TypeOK
  <2>2. CASE ~Unchanged(r)
    BY <1>7, <2>2 DEF Claim, TypeOK, After
  <2>3. CASE Unchanged(r)
    <3>1. ~lapsed[r.id] => Senders(r.id) = {}
      BY <2>1, <2>3 DEF Unchanged
    <3>2. /\ row' = [row EXCEPT ![r.id].status = "sending", ![r.id].ripe = FALSE]
          /\ has' = [has EXCEPT ![w] = r] /\ pc' = [pc EXCEPT ![w] = "claimed"]
          /\ due' = [due EXCEPT ![w] = @ \ {r}] /\ UNCHANGED lapsed
      BY <1>7, <2>3 DEF Claim
    <3>3. Stale' /\ Saw'
      BY <2>1, <3>2 DEF TypeOK
    <3>4. Alone'
      BY <2>1, <3>1, <3>2 DEF TypeOK, Row
    <3> QED
      BY <3>3, <3>4
  <2> QED
    BY <2>2, <2>3
<1>8. ASSUME NEW w \in Worker, Crash(w) PROVE (Stale /\ Saw /\ Alone)'
  BY <1>8 DEF Crash, TypeOK
<1>9. ASSUME NEW w \in Worker, NEW d \in Delivery, Fire(w, d) PROVE (Stale /\ Saw /\ Alone)'
  <2>1. ~lapsed[d] => Senders(d) = {}
    BY <1>9 DEF Fire
  <2>2. /\ row' = [row EXCEPT ![d] = [status |-> "sending", attempts |-> 0,
                                      max |-> MaxAttempts, ripe |-> FALSE]]
        /\ has' = [has EXCEPT ![w] = [id |-> d, status |-> "sending", attempts |-> 0,
                                      max |-> MaxAttempts]]
        /\ pc' = [pc EXCEPT ![w] = "post"] /\ UNCHANGED <<due, lapsed>>
    BY <1>9 DEF Fire
  <2>3. Stale' /\ Saw'
    BY <2>2 DEF TypeOK
  <2>4. Alone'
    BY <2>1, <2>2 DEF TypeOK
  <2> QED
    BY <2>3, <2>4
<1>10. ASSUME NEW w \in Worker, NEW d \in Delivery, AskRetry(w, d) PROVE (Stale /\ Saw /\ Alone)'
  BY <1>10 DEF AskRetry, Look, TypeOK
<1>11. ASSUME NEW d \in Delivery, Skip(d) \/ discardDelivery(d) \/ pruneDeliveries(d)
       PROVE (Stale /\ Saw /\ Alone)'
  <2>1. /\ row[d].status # "sending" /\ row'[d].status # "sending"
        /\ \A x \in Delivery : x # d => row'[x] = row[x]
        /\ UNCHANGED <<pc, has, due, lapsed>>
    BY <1>11 DEF Skip, discardDelivery, pruneDeliveries, Absent, TypeOK, Row
  <2> QED
    BY <2>1
<1>12. ASSUME NEW d \in Delivery, Ripen(d) PROVE (Stale /\ Saw /\ Alone)'
  <2>1. /\ row' = [row EXCEPT ![d].ripe = TRUE]
        /\ lapsed' = [lapsed EXCEPT ![d] = @ \/ row[d].status = "sending"]
        /\ UNCHANGED <<pc, has, due>>
    BY <1>12 DEF Ripen
  <2>2. \A x \in Delivery : (lapsed[x] => lapsed'[x]) /\ row'[x].status = row[x].status
    BY <2>1 DEF TypeOK, Row
  <2>3. Stale'
    BY <2>1, <2>2 DEF TypeOK, Row
  <2>4. Saw'
    BY <2>1, <2>2 DEF TypeOK, Seen
  <2> QED
    BY <2>1, <2>2, <2>3, <2>4
<1>13. CASE Disable
  BY <1>13 DEF Disable
<1> QED
  BY <1>1, <1>2, <1>3, <1>4, <1>5, <1>6, <1>7, <1>8, <1>9, <1>10, <1>11, <1>12, <1>13 DEF Next, Step


-----------------------------------------------------------------------------

LEMMA UnwrittenNat == ASSUME NEW d \in Delivery PROVE IsFiniteSet(Answered(d)) /\ Unwritten(d) \in Nat
BY DeliveryAssumption, FS_Subset, FS_CardinalityType DEF Answered, Unwritten

LEMMA UnwrittenNext == ASSUME NEW d \in Delivery PROVE IsFiniteSet(Answered(d)') /\ Unwritten(d)' \in Nat
BY DeliveryAssumption, FS_Subset, FS_CardinalityType DEF Answered, Unwritten

LEMMA Fewer ==
  ASSUME NEW d \in Delivery, Answered(d)' \subseteq Answered(d)
  PROVE Unwritten(d)' \in Nat /\ Unwritten(d)' <= Unwritten(d)
BY UnwrittenNat, UnwrittenNext, FS_Subset DEF Unwritten

\* What a row holds of limits and attempts in a step that sends and counts nothing:
\* the same, or nothing.
Kept(d) ==
  /\ row'[d].attempts <= row[d].attempts /\ row'[d].max \in {row[d].max, 0}
  /\ \/ row'[d].status = row[d].status /\ row'[d].max = row[d].max
     \/ row'[d].status \notin {"none", "dead"}

\* Such a step, in which workers forget rows or look at them.
LEMMA QuietStep ==
  ASSUME TypeOK, InHand, IInv2, TypeOK', InHand', posts' = posts, refused' = refused,
         \A w \in Worker : pc'[w] = "answered" =>
           pc[w] = "answered" /\ answer'[w] = answer[w] /\ has'[w] = has[w],
         \A d \in Delivery : Kept(d),
         \A w \in Worker : \A r \in Reads(w)' :
           r \in Reads(w) \/ \E d \in Delivery : r = Look(d) /\ row[d].status # "none"
  PROVE IInv2'
<1>1. \A d \in Delivery : Unwritten(d)' \in Nat /\ Unwritten(d)' <= Unwritten(d) /\ Unwritten(d) \in Nat
  <2> TAKE d \in Delivery
  <2>1. Answered(d)' \subseteq Answered(d)
    BY DEF Answered
  <2> QED
    BY <2>1, Fewer, UnwrittenNat
<1>2. \A d \in Delivery : /\ posts[d] \in Nat /\ row[d].attempts \in Nat /\ row[d].max \in Nat
                          /\ row'[d].attempts \in Nat /\ row'[d].max \in Nat
  BY DEF TypeOK, Row
<1>3. \A d \in Delivery : row'[d].attempts + Unwritten(d)' <= posts'[d]
  BY <1>1, <1>2 DEF IInv2, Counted, Kept
<1>4. ASSUME NEW w \in Worker, NEW r \in Reads(w)'
      PROVE  /\ row'[r.id].status # "none"
             /\ r.attempts + Unwritten(r.id)' <= posts'[r.id]
             /\ r.max = row'[r.id].max \/ row'[r.id].max + Unwritten(r.id)' <= posts'[r.id] + 1
  <2>1. r \in Seen /\ r.id \in Delivery /\ r.attempts \in Nat /\ r.max \in Nat
    BY DEF TypeOK, InHand, Reads, Holding, Seen
  <2>2. /\ row[r.id].status # "none" /\ r.attempts + Unwritten(r.id) <= posts[r.id]
        /\ r.max = row[r.id].max \/ row[r.id].max + Unwritten(r.id) <= posts[r.id] + 1
    <3>1. CASE r \in Reads(w)
      BY <3>1, <2>1 DEF IInv2, Exists, Counted, Limited
    <3>2. ASSUME NEW d \in Delivery, r = Look(d), row[d].status # "none"
          PROVE  /\ row[r.id].status # "none" /\ r.attempts + Unwritten(r.id) <= posts[r.id]
                 /\ r.max = row[r.id].max
      BY <3>2 DEF IInv2, Counted, Look
    <3> QED
      BY <3>1, <3>2
  <2>3. row[r.id].attempts + Unwritten(r.id) <= posts[r.id]
    BY <2>1 DEF IInv2, Counted
  <2> QED
    BY <1>1, <1>2, <2>1, <2>2, <2>3 DEF Kept
<1>5. Refused'
  BY DEF IInv2, Refused
<1>6. DeadHadItsTries'
  BY DEF IInv2, DeadHadItsTries, Kept
<1> QED
  BY <1>3, <1>4, <1>5, <1>6 DEF IInv2, Exists, Counted, Limited


\* Sending: one request more, and one answer more to write down.
LEMMA PostStep ==
  ASSUME TypeOK, InHand, IInv2, TypeOK', InHand', NEW w \in Worker, Post(w)
  PROVE IInv2'
<1> DEFINE e == has[w].id
<1>1. /\ pc[w] = "post" /\ posts' = [posts EXCEPT ![e] = @ + 1]
      /\ pc' = [pc EXCEPT ![w] = "answered"] /\ UNCHANGED <<row, has, due>>
  BY DEF Post
<1>2. has[w] \in Seen /\ e \in Delivery
  BY <1>1 DEF InHand, Holding, Seen
<1>3. \A d \in Delivery : /\ Unwritten(d) \in Nat /\ Unwritten(d)' \in Nat /\ posts[d] \in Nat
                          /\ posts'[d] = IF d = e THEN posts[d] + 1 ELSE posts[d]
  BY <1>1, <1>2, UnwrittenNat, UnwrittenNext DEF TypeOK
<1>4. \A d \in Delivery : Unwritten(d)' = IF d = e THEN Unwritten(d) + 1 ELSE Unwritten(d)
  <2> TAKE d \in Delivery
  <2>1. CASE d # e
    <3>1. Answered(d)' = Answered(d)
      BY <1>1, <2>1 DEF Answered, TypeOK
    <3> QED
      BY <2>1, <3>1 DEF Unwritten
  <2>2. CASE d = e
    <3>1. Answered(d)' = Answered(d) \cup {w} /\ w \notin Answered(d)
      BY <1>1, <2>2 DEF Answered, TypeOK
    <3> QED
      BY <2>2, <3>1, UnwrittenNat, FS_AddElement DEF Unwritten
  <2> QED
    BY <2>1, <2>2
<1>5. \A d \in Delivery : row[d].attempts \in Nat /\ row[d].max \in Nat /\ row'[d] = row[d]
  BY <1>1 DEF TypeOK, Row
<1>6. ASSUME NEW v \in Worker, NEW r \in Reads(v)'
      PROVE r \in Reads(v) /\ r.id \in Delivery /\ r.attempts \in Nat /\ r.max \in Nat
  BY <1>1 DEF TypeOK, InHand, Reads, Holding, Seen
<1>7. Exists' /\ Counted' /\ Limited'
  BY <1>3, <1>4, <1>5, <1>6 DEF IInv2, Exists, Counted, Limited
<1>8. Refused'
  <2>1. PICK a \in {"ok", "again", "final"} :
          /\ answer' = [answer EXCEPT ![w] = a]
          /\ refused' = [refused EXCEPT ![e] = @ \/ a = "final"]
    BY DEF Post
  <2>2. \A d \in Delivery : refused[d] => refused'[d]
    BY <2>1 DEF TypeOK
  <2>3. a = "final" => refused'[e]
    BY <1>2, <2>1 DEF TypeOK
  <2> QED
    BY <1>1, <1>2, <2>1, <2>2, <2>3 DEF IInv2, Refused, InHand, Holding, TypeOK, Seen
<1>9. DeadHadItsTries'
  <2>1. \A d \in Delivery : refused[d] => refused'[d]
    BY DEF Post, TypeOK
  <2> QED
    BY <1>3, <1>5, <2>1 DEF IInv2, DeadHadItsTries
<1> QED
  BY <1>7, <1>8, <1>9 DEF IInv2

\* The answer is written down, over whatever the row has become.
LEMMA FinishStep ==
  ASSUME TypeOK, InHand, IInv2, TypeOK', InHand', NEW w \in Worker, Finish(w)
  PROVE IInv2'
<1>0. PICK r : r = has[w]
  OBVIOUS
<1>1. /\ pc[w] \in {"off", "answered"} /\ After(due[w]) \in {"idle", "drain"}
      /\ pc' = [pc EXCEPT ![w] = After(due[w])] /\ has' = [has EXCEPT ![w] = None]
      /\ UNCHANGED <<due, posts, refused>> /\ \A v \in Worker : v # w => answer'[v] = answer[v]
  BY DEF Finish, After, history, TypeOK
<1>2. r \in Seen /\ r.id \in Delivery /\ r.attempts \in Nat /\ r.max \in Nat /\ r \in Reads(w)
  BY <1>0, <1>1 DEF InHand, Holding, Seen, Reads
<1>3. \A v \in Worker : Reads(v)' \subseteq Reads(v)
  BY <1>1 DEF Reads, Holding, TypeOK
<1>4. \A v \in Worker : pc'[v] = "answered" =>
        v # w /\ pc[v] = "answered" /\ answer'[v] = answer[v] /\ has'[v] = has[v]
  BY <1>1 DEF TypeOK
<1>5. CASE pc[w] = "off" \/ row[r.id].status = "pruned"
  <2>1. \A d \in Delivery : Kept(d)
    BY <1>0, <1>2, <1>5 DEF Finish, Kept, TypeOK, Row
  <2> QED
    BY <1>1, <1>3, <1>4, <2>1, QuietStep
<1>6. CASE pc[w] = "answered" /\ row[r.id].status # "pruned"
  <2> DEFINE s == Outcome(r, answer[w])
  <2>1. row' = [row EXCEPT ![r.id] = [status |-> s, attempts |-> r.attempts + 1,
                                      max |-> @.max, ripe |-> FALSE]]
    BY <1>0, <1>6 DEF Finish
  <2>2. \A d \in Delivery : d # r.id => row'[d] = row[d]
    BY <1>2, <2>1 DEF TypeOK
  <2>3. row'[r.id].status = s /\ row'[r.id].attempts = r.attempts + 1 /\ row'[r.id].max = row[r.id].max
    BY <1>2, <2>1 DEF TypeOK
  <2>4. \A d \in Delivery : /\ Unwritten(d) \in Nat /\ Unwritten(d)' \in Nat /\ Unwritten(d)' <= Unwritten(d)
                            /\ posts[d] \in Nat /\ row[d].attempts \in Nat /\ row[d].max \in Nat
    <3>1. \A d \in Delivery : Answered(d)' \subseteq Answered(d)
      BY <1>4 DEF Answered
    <3> QED
      BY <3>1, UnwrittenNat, Fewer DEF TypeOK, Row
  <2>5. Unwritten(r.id)' + 1 <= Unwritten(r.id)
    <3>1. w \in Answered(r.id) /\ Answered(r.id)' \subseteq Answered(r.id) \ {w}
      BY <1>0, <1>4, <1>6 DEF Answered
    <3>2. /\ IsFiniteSet(Answered(r.id) \ {w})
          /\ Cardinality(Answered(r.id) \ {w}) = Cardinality(Answered(r.id)) - 1
      BY <1>2, <3>1, UnwrittenNat, FS_RemoveElement
    <3>3. Cardinality(Answered(r.id)') <= Cardinality(Answered(r.id) \ {w})
      BY <3>1, <3>2, FS_Subset
    <3> QED
      BY <1>2, <2>4, <3>2, <3>3 DEF Unwritten
  <2>6. r.attempts + Unwritten(r.id) <= posts[r.id]
        /\ (r.max = row[r.id].max \/ row[r.id].max + Unwritten(r.id) <= posts[r.id] + 1)
    BY <1>2 DEF IInv2, Counted, Limited
  <2>7. s # "none" /\ (s = "dead" => r.attempts + 1 >= r.max \/ answer[w] = "final")
    BY DEF Outcome
  <2>8. s = "dead" => posts[r.id] >= row[r.id].max \/ refused[r.id]
    BY <1>0, <1>2, <1>6, <2>4, <2>5, <2>6, <2>7 DEF IInv2, Refused
  <2>9. DeadHadItsTries'
    BY <1>1, <2>2, <2>3, <2>8 DEF IInv2, DeadHadItsTries
  <2>10. ASSUME NEW v \in Worker, NEW q \in Reads(v)'
         PROVE q \in Reads(v) /\ q.id \in Delivery /\ q.attempts \in Nat /\ q.max \in Nat
    BY <1>3 DEF TypeOK, InHand, Reads, Holding, Seen
  <2>11. \A d \in Delivery : row'[d].attempts + Unwritten(d)' <= posts'[d]
    BY <1>1, <1>2, <2>2, <2>3, <2>4, <2>5, <2>6 DEF IInv2, Counted
  <2>12. ASSUME NEW v \in Worker, NEW q \in Reads(v)'
         PROVE  /\ row'[q.id].status # "none"
                /\ q.attempts + Unwritten(q.id)' <= posts'[q.id]
                /\ q.max = row'[q.id].max \/ row'[q.id].max + Unwritten(q.id)' <= posts'[q.id] + 1
    <3>1. /\ row[q.id].status # "none" /\ q.attempts + Unwritten(q.id) <= posts[q.id]
          /\ q.max = row[q.id].max \/ row[q.id].max + Unwritten(q.id) <= posts[q.id] + 1
      BY <2>10 DEF IInv2, Exists, Counted, Limited
    <3>2. row'[q.id].status # "none" /\ row'[q.id].max = row[q.id].max
      BY <2>2, <2>3, <2>7, <3>1, <2>10
    <3> QED
      BY <1>1, <2>4, <2>10, <3>1, <3>2
  <2>13. Refused'
    BY <1>1, <1>4 DEF IInv2, Refused
  <2> QED
    BY <2>9, <2>11, <2>12, <2>13 DEF IInv2, Exists, Counted, Limited
<1> QED
  BY <1>1, <1>5, <1>6


\* A retry by hand: the limit becomes one attempt more than the row has had.
LEMMA RetryStep ==
  ASSUME TypeOK, InHand, IInv2, TypeOK', InHand', NEW w \in Worker, Retry(w)
  PROVE IInv2'
<1>0. PICK r : r = has[w]
  OBVIOUS
<1>1. pc[w] = "asked" /\ UNCHANGED <<due, answer, posts, refused>>
  BY DEF Retry, history
<1>2. r \in Seen /\ r.id \in Delivery /\ r.attempts \in Nat /\ r.max \in Nat /\ r \in Reads(w)
  BY <1>0, <1>1 DEF InHand, Holding, Seen, Reads
<1>3. CASE ~Unchanged(r)
  <2>1. /\ pc' = [pc EXCEPT ![w] = "idle"] /\ has' = [has EXCEPT ![w] = None] /\ row' = row
    BY <1>0, <1>3 DEF Retry
  <2>2. \A v \in Worker : Reads(v)' \subseteq Reads(v)
    BY <1>1, <2>1 DEF Reads, Holding, TypeOK
  <2>3. \A v \in Worker : pc'[v] = "answered" =>
          pc[v] = "answered" /\ answer'[v] = answer[v] /\ has'[v] = has[v]
    BY <1>1, <2>1 DEF TypeOK
  <2>4. \A d \in Delivery : Kept(d)
    BY <2>1 DEF Kept, TypeOK, Row
  <2> QED
    BY <1>1, <2>2, <2>3, <2>4, QuietStep
<1>4. CASE Unchanged(r)
  <2>1. /\ row' = [row EXCEPT ![r.id] = [status |-> "sending", attempts |-> r.attempts,
                                         max |-> r.attempts + 1, ripe |-> FALSE]]
        /\ has' = [has EXCEPT ![w] = [r EXCEPT !.max = r.attempts + 1]]
        /\ pc' = [pc EXCEPT ![w] = "claimed"]
    BY <1>0, <1>4 DEF Retry
  <2>2. \A d \in Delivery : d # r.id => row'[d] = row[d]
    BY <1>2, <2>1 DEF TypeOK
  <2>3. row'[r.id].status = "sending" /\ row'[r.id].attempts = r.attempts
        /\ row'[r.id].max = r.attempts + 1
    BY <1>2, <2>1 DEF TypeOK
  <2>4. \A d \in Delivery : /\ Unwritten(d) \in Nat /\ Unwritten(d)' \in Nat /\ Unwritten(d)' <= Unwritten(d)
                            /\ posts[d] \in Nat /\ row[d].attempts \in Nat /\ row[d].max \in Nat
    <3>1. \A d \in Delivery : Answered(d)' \subseteq Answered(d)
      BY <2>1 DEF Answered, TypeOK
    <3> QED
      BY <3>1, UnwrittenNat, Fewer DEF TypeOK, Row
  <2>5. r.attempts + Unwritten(r.id) <= posts[r.id]
    BY <1>2 DEF IInv2, Counted
  <2>6. \A d \in Delivery : row'[d].attempts + Unwritten(d)' <= posts'[d]
    BY <1>1, <1>2, <2>2, <2>3, <2>4, <2>5 DEF IInv2, Counted
  <2>7. [r EXCEPT !.max = r.attempts + 1].id = r.id
        /\ [r EXCEPT !.max = r.attempts + 1].attempts = r.attempts
        /\ [r EXCEPT !.max = r.attempts + 1].max = r.attempts + 1
    BY <1>2 DEF Seen
  <2>8. ASSUME NEW v \in Worker, NEW q \in Reads(v)'
        PROVE  /\ row'[q.id].status # "none"
               /\ q.attempts + Unwritten(q.id)' <= posts'[q.id]
               /\ q.max = row'[q.id].max \/ row'[q.id].max + Unwritten(q.id)' <= posts'[q.id] + 1
    <3>1. CASE q \in Reads(v)
      <4>1. q.id \in Delivery /\ q.attempts \in Nat /\ q.max \in Nat
        BY <3>1 DEF TypeOK, InHand, Reads, Holding, Seen
      <4>2. /\ row[q.id].status # "none" /\ q.attempts + Unwritten(q.id) <= posts[q.id]
            /\ q.max = row[q.id].max \/ row[q.id].max + Unwritten(q.id) <= posts[q.id] + 1
        BY <3>1, <4>1 DEF IInv2, Exists, Counted, Limited
      <4> QED
        BY <1>1, <1>2, <2>2, <2>3, <2>4, <2>5, <4>1, <4>2
    <3>2. CASE q = [r EXCEPT !.max = r.attempts + 1]
      BY <1>1, <1>2, <2>3, <2>4, <2>5, <2>7, <3>2
    <3>3. q \in Reads(v) \/ q = [r EXCEPT !.max = r.attempts + 1]
      BY <1>1, <2>1 DEF Reads, Holding, TypeOK
    <3> QED
      BY <3>1, <3>2, <3>3
  <2>9. Refused'
    BY <1>1, <2>1 DEF IInv2, Refused, TypeOK
  <2>10. DeadHadItsTries'
    BY <1>1, <2>2, <2>3 DEF IInv2, DeadHadItsTries
  <2> QED
    BY <2>6, <2>8, <2>9, <2>10 DEF IInv2, Exists, Counted, Limited
<1> QED
  BY <1>3, <1>4

\* A new row: nobody has read it before.
LEMMA FireStep ==
  ASSUME TypeOK, InHand, IInv2, TypeOK', InHand', NEW w \in Worker, NEW d \in Delivery, Fire(w, d)
  PROVE IInv2'
<1> DEFINE new == [id |-> d, status |-> "sending", attempts |-> 0, max |-> MaxAttempts]
<1>1. /\ row[d].status = "none" /\ row' = [row EXCEPT ![d] =
           [status |-> "sending", attempts |-> 0, max |-> MaxAttempts, ripe |-> FALSE]]
      /\ has' = [has EXCEPT ![w] = new] /\ pc' = [pc EXCEPT ![w] = "post"]
      /\ UNCHANGED <<due, answer, posts, refused>>
  BY DEF Fire, history
<1>2. \A x \in Delivery : x # d => row'[x] = row[x]
  BY <1>1 DEF TypeOK
<1>3. row'[d].status = "sending" /\ row'[d].attempts = 0 /\ row'[d].max = MaxAttempts
  BY <1>1 DEF TypeOK
<1>4. \A x \in Delivery : /\ Unwritten(x) \in Nat /\ Unwritten(x)' \in Nat /\ Unwritten(x)' <= Unwritten(x)
                          /\ posts[x] \in Nat /\ row[x].attempts \in Nat /\ row[x].max \in Nat
  <2>1. \A x \in Delivery : Answered(x)' \subseteq Answered(x)
    BY <1>1 DEF Answered, TypeOK
  <2> QED
    BY <2>1, UnwrittenNat, Fewer DEF TypeOK, Row
<1>5. \A x \in Delivery : row'[x].attempts + Unwritten(x)' <= posts'[x]
  BY <1>1, <1>2, <1>3, <1>4 DEF IInv2, Counted
<1>6. ASSUME NEW v \in Worker, NEW q \in Reads(v)'
      PROVE  /\ row'[q.id].status # "none"
             /\ q.attempts + Unwritten(q.id)' <= posts'[q.id]
             /\ q.max = row'[q.id].max \/ row'[q.id].max + Unwritten(q.id)' <= posts'[q.id] + 1
  <2>1. CASE q \in Reads(v)
    <3>1. q.id \in Delivery /\ q.attempts \in Nat /\ q.max \in Nat
      BY <2>1 DEF TypeOK, InHand, Reads, Holding, Seen
    <3>2. /\ row[q.id].status # "none" /\ q.attempts + Unwritten(q.id) <= posts[q.id]
          /\ q.max = row[q.id].max \/ row[q.id].max + Unwritten(q.id) <= posts[q.id] + 1
      BY <2>1, <3>1 DEF IInv2, Exists, Counted, Limited
    <3> QED
      BY <1>1, <1>2, <1>4, <3>1, <3>2
  <2>2. CASE q = new
    <3>1. 0 + Unwritten(d)' <= posts'[d]
      BY <1>3, <1>5
    <3> QED
      BY <1>3, <2>2, <3>1
  <2>3. q \in Reads(v) \/ q = new
    BY <1>1 DEF Reads, Holding, TypeOK
  <2> QED
    BY <2>1, <2>2, <2>3
<1>7. Refused'
  BY <1>1 DEF IInv2, Refused, TypeOK
<1>8. DeadHadItsTries'
  BY <1>1, <1>2, <1>3 DEF IInv2, DeadHadItsTries
<1> QED
  BY <1>5, <1>6, <1>7, <1>8 DEF IInv2, Exists, Counted, Limited

LEMMA CountStep == TypeOK /\ InHand /\ IInv2 /\ [Next]_vars => IInv2'
<1> SUFFICES ASSUME TypeOK, InHand, IInv2, [Next]_vars PROVE IInv2'
  OBVIOUS
<1>0. TypeOK' /\ InHand'
  BY TypeStep
<1> USE <1>0 DEF history, work, bounds
<1>1. CASE UNCHANGED vars
  <2>1. \A d \in Delivery : Kept(d)
    BY <1>1 DEF vars, Kept, TypeOK, Row
  <2> QED
    BY <1>1, <2>1, QuietStep DEF vars, Reads, Holding
<1>2. ASSUME NEW w \in Worker, Drain(w) \/ Load(w) \/ Crash(w) \/ \E r \in due[w] : Claim(w, r)
      PROVE IInv2'
  <2>1. posts' = posts /\ refused' = refused
    BY <1>2 DEF Drain, Load, Crash, Claim
  <2>2. \A v \in Worker : pc'[v] = "answered" =>
          pc[v] = "answered" /\ answer'[v] = answer[v] /\ has'[v] = has[v]
    <3>1. CASE Drain(w) \/ Load(w) \/ Crash(w)
      BY <3>1 DEF Drain, Load, Crash, TypeOK
    <3>2. ASSUME NEW r \in due[w], Claim(w, r), NEW v \in Worker, pc'[v] = "answered"
          PROVE pc[v] = "answered" /\ answer'[v] = answer[v] /\ has'[v] = has[v]
      BY <3>2 DEF Claim, After, TypeOK
    <3> QED
      BY <1>2, <3>1, <3>2
  <2>3. \A d \in Delivery : Kept(d)
    <3>1. CASE Drain(w) \/ Load(w) \/ Crash(w)
      BY <3>1 DEF Drain, Load, Crash, Kept, TypeOK, Row
    <3>2. ASSUME NEW r \in due[w], Claim(w, r) PROVE \A d \in Delivery : Kept(d)
      <4>1. r.id \in Delivery
        BY DEF TypeOK, Seen
      <4>2. \A d \in Delivery : /\ row'[d].attempts = row[d].attempts /\ row'[d].max = row[d].max
                                /\ row'[d].status \in {row[d].status, "sending"}
        BY <3>2, <4>1 DEF Claim, TypeOK, Row
      <4> QED
        BY <4>2 DEF Kept, TypeOK, Row
    <3> QED
      BY <1>2, <3>1, <3>2
  <2>4. \A v \in Worker : \A q \in Reads(v)' :
          q \in Reads(v) \/ \E d \in Delivery : q = Look(d) /\ row[d].status # "none"
    <3>1. CASE Drain(w)
      BY <3>1 DEF Drain, DueRows, Reads, Holding, TypeOK
    <3>2. CASE Load(w) \/ Crash(w)
      BY <3>2 DEF Load, Crash, Reads, Holding, TypeOK
    <3>3. CASE \E r \in due[w] : Claim(w, r)
      BY <3>3 DEF Claim, After, Reads, Holding, TypeOK
    <3> QED
      BY <1>2, <3>1, <3>2, <3>3
  <2> QED
    BY <2>1, <2>2, <2>3, <2>4, QuietStep
<1>3. ASSUME NEW w \in Worker, NEW x \in Delivery, AskRetry(w, x) PROVE IInv2'
  <2>1. \A d \in Delivery : Kept(d)
    BY <1>3 DEF AskRetry, Kept, TypeOK, Row
  <2>2. \A v \in Worker : \A q \in Reads(v)' : q \in Reads(v) \/ (q = Look(x) /\ row[x].status # "none")
    BY <1>3 DEF AskRetry, Reads, Holding, TypeOK
  <2>3. \A v \in Worker : pc'[v] = "answered" =>
          pc[v] = "answered" /\ answer'[v] = answer[v] /\ has'[v] = has[v]
    BY <1>3 DEF AskRetry, TypeOK
  <2> QED
    BY <1>3, <2>1, <2>2, <2>3, QuietStep DEF AskRetry
<1>4. ASSUME NEW d \in Delivery, Skip(d) \/ discardDelivery(d) \/ pruneDeliveries(d) \/ Ripen(d)
      PROVE IInv2'
  <2>1. posts' = posts /\ refused' = refused /\ UNCHANGED <<pc, has, due, answer>>
    BY <1>4 DEF Skip, discardDelivery, pruneDeliveries, Ripen
  <2>2. \A x \in Delivery : Kept(x)
    <3>1. CASE Skip(d)
      BY <3>1 DEF Skip, Kept, TypeOK, Row
    <3>2. CASE discardDelivery(d)
      BY <3>2 DEF discardDelivery, Kept, TypeOK, Row
    <3>3. CASE pruneDeliveries(d)
      BY <3>3 DEF pruneDeliveries, Absent, Kept, TypeOK, Row
    <3>4. CASE Ripen(d)
      BY <3>4 DEF Ripen, Kept, TypeOK, Row
    <3> QED
      BY <1>4, <3>1, <3>2, <3>3, <3>4
  <2> QED
    BY <2>1, <2>2, QuietStep DEF Reads, Holding
<1>5. CASE Disable
  <2>1. \A d \in Delivery : Kept(d)
    BY <1>5 DEF Disable, Kept, TypeOK, Row
  <2> QED
    BY <1>5, <2>1, QuietStep DEF Disable, Reads, Holding
<1> QED
  BY <1>1, <1>2, <1>3, <1>4, <1>5, PostStep, FinishStep, RetryStep, FireStep DEF Next, Step

-----------------------------------------------------------------------------

LEMMA Start == Init => IInv1 /\ IInv2
<1> SUFFICES ASSUME Init PROVE IInv1 /\ IInv2
  OBVIOUS
<1>1. TypeOK /\ InHand /\ Stale /\ Saw /\ Alone
  BY DEF Init, Absent, TypeOK, Row, Status, InHand, Holding, Stale, Saw, Alone, Senders
<1>2. \A d \in Delivery : Unwritten(d) = 0
  <2>1. \A d \in Delivery : Answered(d) = {}
    BY DEF Init, Answered
  <2> QED
    BY <2>1, FS_EmptySet DEF Unwritten
<1>3. IInv2
  BY <1>2 DEF Init, Absent, IInv2, Exists, Counted, Limited, Refused, DeadHadItsTries, Reads, Holding
<1> QED
  BY <1>1, <1>3 DEF IInv1

LEMMA Kernel == Spec => [](IInv1 /\ IInv2)
<1>1. IInv1 /\ IInv2 /\ [Next]_vars => (IInv1 /\ IInv2)'
  BY TypeStep, AloneStep, CountStep DEF IInv1
<1> QED
  BY <1>1, Start, PTL DEF Spec

\* Rows, workers and what they remember always have the declared types
\* (the row of agent-trigger-delivery.ts:57-76).
THEOREM TypesHold == Spec => []TypeOK
BY Kernel, PTL DEF IInv1

\* As long as no claim of a row has gone stale, one worker at most sends it, for any
\* number of processes, drains and retries by hand (the claims of
\* agent-trigger-delivery.ts:428-433 and 497-518).
THEOREM OneSenderHolds == Spec => []OneSender
<1>1. IInv1 => OneSender
  <2> SUFFICES ASSUME IInv1, NEW d \in Delivery, ~lapsed[d] PROVE Cardinality(Senders(d)) <= 1
    BY DEF OneSender
  <2>1. Senders(d) = {} \/ \E w \in Worker : Senders(d) = {w}
    BY DEF IInv1, Alone, Senders
  <2>2. Senders(d) = {} => Cardinality(Senders(d)) = 0
    BY FS_EmptySet
  <2>3. \A w \in Worker : Cardinality({w}) = 1
    BY FS_Singleton
  <2> QED
    BY <2>1, <2>2, <2>3
<1> QED
  BY <1>1, Kernel, PTL

\* A delivery is dead only after as many requests as its limit says, or a final
\* answer, whatever stale senders have written over each other
\* (agent-trigger-delivery.ts:358-399).
THEOREM DeadHadItsTriesHolds == Spec => []DeadHadItsTries
BY Kernel, PTL DEF IInv2

\* A row that was delivered or discarded is not sent again, and stays so until it is
\* pruned, unless a claim of it has gone stale (agent-trigger-delivery.ts:428-526).
THEOREM SettledIsQuietHolds == Spec => SettledIsQuiet
<1>1. IInv1 /\ IInv1' /\ [Next]_vars =>
        [\A d \in Delivery :
           row[d].status \in {"delivered", "discarded"} /\ ~lapsed[d]
           => Senders(d)' = {} /\ row'[d].status \in {row[d].status, "pruned"}]_vars
  <2> SUFFICES ASSUME IInv1, IInv1', Next, NEW d \in Delivery, ~lapsed[d],
                      row[d].status \in {"delivered", "discarded"}
               PROVE Senders(d)' = {} /\ row'[d].status \in {row[d].status, "pruned"}
    OBVIOUS
  <2>1. Senders(d) = {}
    BY DEF IInv1, Alone
  <2>2. TypeOK /\ Saw /\ InHand
    BY DEF IInv1
  <2> USE <2>1, <2>2 DEF TypeOK, Senders
  <2>3. ASSUME NEW w \in Worker, Drain(w) \/ Load(w) \/ Post(w) \/ Crash(w)
        PROVE Senders(d)' = {} /\ row'[d] = row[d]
    BY <2>3 DEF Drain, Load, Post, Crash
  <2>4. ASSUME NEW w \in Worker, Finish(w) PROVE Senders(d)' = {} /\ row'[d] = row[d]
    <3>1. has[w] \in Seen /\ has[w].id \in Delivery /\ has[w].id # d
      BY <2>4 DEF Finish, InHand, Holding, Seen
    <3>2. row'[d] = row[d]
      BY <2>4, <3>1 DEF Finish
    <3>3. Senders(d)' = {}
      BY <2>4 DEF Finish, After
    <3> QED
      BY <3>2, <3>3
  <2>5. ASSUME NEW w \in Worker, Retry(w) PROVE Senders(d)' = {} /\ row'[d] = row[d]
    <3>1. /\ has[w] \in Seen /\ has[w].id \in Delivery
          /\ has[w].status \in {"dead", "retrying"}
      BY <2>5 DEF Retry, InHand, Holding, Seen, Saw
    <3>2. CASE ~Unchanged(has[w])
      BY <2>5, <3>2 DEF Retry
    <3>3. CASE Unchanged(has[w])
      <4>1. has[w].id # d
        BY <3>1, <3>3 DEF Unchanged
      <4>2. has'[w].id = has[w].id /\ row'[d] = row[d]
        BY <2>5, <3>1, <3>3, <4>1 DEF Retry, Seen
      <4>3. \A v \in Worker : v # w => has'[v] = has[v] /\ pc'[v] = pc[v]
        BY <2>5 DEF Retry
      <4> QED
        BY <4>1, <4>2, <4>3
    <3> QED
      BY <3>2, <3>3
  <2>6. ASSUME NEW w \in Worker, NEW r \in due[w], Claim(w, r)
        PROVE Senders(d)' = {} /\ row'[d] = row[d]
    <3>1. r.id \in Delivery /\ (Unchanged(r) => r.id # d)
      BY DEF Seen, Saw, Unchanged
    <3>2. CASE Unchanged(r)
      <4>1. row' = [row EXCEPT ![r.id].status = "sending", ![r.id].ripe = FALSE]
            /\ has' = [has EXCEPT ![w] = r] /\ pc' = [pc EXCEPT ![w] = "claimed"]
        BY <2>6, <3>2 DEF Claim
      <4> QED
        BY <3>1, <3>2, <4>1
    <3>3. CASE ~Unchanged(r)
      BY <2>6, <3>3 DEF Claim, After
    <3> QED
      BY <3>2, <3>3
  <2>7. ASSUME NEW w \in Worker, NEW x \in Delivery, Fire(w, x) \/ AskRetry(w, x)
        PROVE Senders(d)' = {} /\ row'[d] = row[d]
    BY <2>7 DEF Fire, AskRetry
  <2>8. ASSUME NEW x \in Delivery, Skip(x) \/ discardDelivery(x) \/ pruneDeliveries(x) \/ Ripen(x)
        PROVE Senders(d)' = {} /\ row'[d].status \in {row[d].status, "pruned"}
    <3>1. UNCHANGED <<pc, has>>
      BY <2>8 DEF Skip, discardDelivery, pruneDeliveries, Ripen, work
    <3>2. row'[d].status \in {row[d].status, "pruned"}
      BY <2>8 DEF Skip, discardDelivery, pruneDeliveries, Ripen, Absent, Row
    <3> QED
      BY <3>1, <3>2
  <2>9. CASE Disable
    BY <2>9 DEF Disable, work
  <2> QED
    BY <2>3, <2>4, <2>5, <2>6, <2>7, <2>8, <2>9 DEF Next, Step
<1> QED
  BY <1>1, Kernel, PTL DEF Spec, SettledIsQuiet

====
