------------------------------- MODULE Outbox --------------------------------
(***************************************************************************)
(* The transactional outbox: src/api/src/services/outbox.ts.  Work that    *)
(* must not vanish is a row; a worker pass takes the due rows, calls the   *)
(* handler of each and records what happened.  A pass is one call of       *)
(* runOutboxPass: the minute job of the scheduler, or a run-now, on any    *)
(* process; nothing keeps two passes apart (the job is not labelled        *)
(* unsafe).  The pc of a pass names the await it stands at.  The rows with *)
(* a handler are notifications: notifyUser is both the only producer and   *)
(* the only handler of rows in this repository.                            *)
(***************************************************************************)
EXTENDS Integers, FiniteSets

CONSTANTS
  Row,          \* row ids, in insertion order: 1..n
  Unhandled,    \* rows of a kind without a handler in this image
  Pass,         \* passes that may run at the same time
  MAX_ATTEMPTS,
  Batch,        \* rows a pass reads at most: 100
  Faults        \* TRUE: an update of the outbox may fail, a process may die

ASSUME OutboxAssumption ==
  /\ Row \subseteq Nat /\ IsFiniteSet(Row)
  /\ Unhandled \subseteq Row
  /\ MAX_ATTEMPTS \in Nat \ {0} /\ Batch \in Nat \ {0}
  /\ Faults \in BOOLEAN

VARIABLES
  status,    \* of each row; "none" before the insert, "gone" after retention
  attempts,  \* the column of each row
  due,       \* next_attempt_at has come
  old,       \* created more than seven days ago
  pc,        \* of each pass: idle, next, call, mark, retry, sweep
  todo,      \* the rows a pass read and has not handled, as it read them
  faulty,    \* updates may fail and processes may die, for now
  sent,      \* ghost: rows whose delivery really happened
  tries      \* ghost: handler calls of each row, counted up to MaxTries

vars == <<status, attempts, due, old, pc, todo, faulty, sent, tries>>

\* Bound of the ghost counter: one more than any row should need.
MaxTries == MAX_ATTEMPTS + 1

TypeOK ==
  /\ status \in [Row -> {"none", "pending", "delivered", "dead", "gone"}]
  /\ attempts \in [Row -> 0..MAX_ATTEMPTS]
  /\ due \in [Row -> BOOLEAN] /\ old \in [Row -> BOOLEAN]
  /\ pc \in [Pass -> {"idle", "next", "call", "mark", "retry", "sweep"}]
  /\ todo \in [Pass -> SUBSET [id : Row, attempts : 0..MAX_ATTEMPTS]]
  /\ faulty \in BOOLEAN
  /\ sent \subseteq Row /\ tries \in [Row -> 0..MaxTries]

Init ==
  /\ status = [r \in Row |-> "none"]
  /\ attempts = [r \in Row |-> 0]
  /\ due = [r \in Row |-> FALSE] /\ old = [r \in Row |-> FALSE]
  /\ pc = [w \in Pass |-> "idle"]
  /\ todo = [w \in Pass |-> {}]
  /\ faulty = Faults
  /\ sent = {} /\ tries = [r \in Row |-> 0]

\* enqueueOutbox(): a pending row, due at once.
Enqueue(r) ==
  /\ status[r] = "none"
  /\ \A q \in Row : q < r => status[q] # "none"
  /\ status' = [status EXCEPT ![r] = "pending"]
  /\ due' = [due EXCEPT ![r] = TRUE]
  /\ UNCHANGED <<attempts, old, pc, todo, sent, tries, faulty>>

-----------------------------------------------------------------------------
(* One pass.                                                               *)

\* Mutant: the select does not look at the status.
DueAnyStatus == {r \in Row : status[r] \notin {"none", "gone"}}

\* The rows a pass sees: the first Batch of them, whatever their kind.
DueRows == {r \in Row : status[r] = "pending" /\ due[r]}
Due == {r \in DueRows : Cardinality({q \in DueRows : q < r}) < Batch}

\* The select; the rest of the pass works on what it returned.
Select(w) ==
  /\ pc[w] = "idle"
  /\ todo' = [todo EXCEPT ![w] = {[id |-> r, attempts |-> attempts[r]] : r \in Due}]
  /\ pc' = [pc EXCEPT ![w] = "next"]
  /\ UNCHANGED <<status, attempts, due, old, sent, tries, faulty>>

\* In the order of their ids.
Cur(w) == CHOOSE x \in todo[w] : \A y \in todo[w] : x.id <= y.id
Rest(w) == todo' = [todo EXCEPT ![w] = @ \ {Cur(w)}]
Goto(w, at) == pc' = [pc EXCEPT ![w] = at]

\* The ghost counts no further than its bound.
Tried(r) == tries' = [tries EXCEPT ![r] = IF @ < MaxTries THEN @ + 1 ELSE @]

\* Mutant: a row without a handler ends the pass.
NextRowStops(w) ==
  /\ pc[w] = "next"
  /\ \/ /\ todo[w] # {} => Cur(w).id \in Unhandled
        /\ todo' = [todo EXCEPT ![w] = {}]
        /\ Goto(w, "sweep") /\ UNCHANGED tries
     \/ /\ todo[w] # {} /\ Cur(w).id \notin Unhandled
        /\ Goto(w, "call")
        /\ Tried(Cur(w).id)
        /\ UNCHANGED todo
  /\ UNCHANGED <<status, attempts, due, old, sent, faulty>>

\* The loop: a row without a handler is passed over and waits.
NextRow(w) ==
  /\ pc[w] = "next"
  /\ \/ todo[w] = {} /\ Goto(w, "sweep") /\ UNCHANGED <<todo, tries>>
     \/ /\ todo[w] # {} /\ Cur(w).id \in Unhandled
        /\ Rest(w)
        /\ UNCHANGED <<pc, tries>>
     \/ /\ todo[w] # {} /\ Cur(w).id \notin Unhandled
        /\ Goto(w, "call")
        /\ Tried(Cur(w).id)
        /\ UNCHANGED todo
  /\ UNCHANGED <<status, attempts, due, old, sent, faulty>>

\* The handler, notifyUser with _retry: it delivers; it throws before its try
\* block (decideDelivery, the lane); or it swallows the failure of a delivery.
Outcomes ==
  {[sent |-> TRUE, at |-> "mark"], [sent |-> FALSE, at |-> "retry"], [sent |-> FALSE, at |-> "mark"]}

Call(w) ==
  /\ pc[w] = "call"
  /\ \E o \in Outcomes :
       /\ sent' = IF o.sent THEN sent \cup {Cur(w).id} ELSE sent
       /\ Goto(w, o.at)
  /\ UNCHANGED <<status, attempts, due, old, todo, tries, faulty>>

\* update by id; a row that is gone takes no update.
Update(r, s) == status' = IF status[r] = "gone" THEN status ELSE [status EXCEPT ![r] = s]

\* Marked delivered; an error of the update is treated like one of the handler.
Mark(w) ==
  /\ pc[w] = "mark"
  /\ \/ Update(Cur(w).id, "delivered") /\ Rest(w) /\ Goto(w, "next")
     \/ faulty /\ Goto(w, "retry") /\ UNCHANGED <<status, todo>>
  /\ UNCHANGED <<attempts, due, old, sent, tries, faulty>>

\* Mutant: dead one try early.
DeadEarly(n) == IF n + 1 >= MAX_ATTEMPTS THEN "dead" ELSE "pending"

AfterFailure(n) == IF n >= MAX_ATTEMPTS THEN "dead" ELSE "pending"

\* attempts counts from the row the pass read, not from the row as it is now.
Retry(w) ==
  /\ pc[w] = "retry"
  /\ LET r == Cur(w).id n == Cur(w).attempts + 1
     IN \/ /\ Update(r, AfterFailure(n))
           /\ attempts' = [attempts EXCEPT ![r] = n]
           /\ due' = [due EXCEPT ![r] = FALSE]
        \/ faulty /\ UNCHANGED <<status, attempts, due>>
  /\ Rest(w) /\ Goto(w, "next")
  /\ UNCHANGED <<old, sent, tries, faulty>>

\* Mutant: retention by age alone.
ExpiredRows == {r \in Row : status[r] # "none" /\ old[r]}

Swept == {r \in Row : status[r] = "delivered" /\ old[r]}

Sweep(w) ==
  /\ pc[w] = "sweep"
  /\ status' = [r \in Row |-> IF r \in Swept THEN "gone" ELSE status[r]]
  /\ Goto(w, "idle")
  /\ UNCHANGED <<attempts, due, old, todo, sent, tries, faulty>>

\* The process of a pass dies.
Crash(w) ==
  /\ faulty /\ pc[w] # "idle"
  /\ Goto(w, "idle") /\ todo' = [todo EXCEPT ![w] = {}]
  /\ UNCHANGED <<status, attempts, due, old, sent, tries, faulty>>

\* The faults end.
Calm == faulty /\ faulty' = FALSE /\ UNCHANGED <<status, attempts, due, old, pc, todo, sent, tries>>

\* The backoff of a row ends; a row grows old.
Ripen(r) ==
  /\ status[r] = "pending" /\ ~due[r]
  /\ due' = [due EXCEPT ![r] = TRUE]
  /\ UNCHANGED <<status, attempts, old, pc, todo, sent, tries, faulty>>

Age(r) ==
  /\ status[r] \notin {"none", "gone"} /\ ~old[r]
  /\ old' = [old EXCEPT ![r] = TRUE]
  /\ UNCHANGED <<status, attempts, due, pc, todo, sent, tries, faulty>>

Work(w) == Select(w) \/ NextRow(w) \/ Call(w) \/ Mark(w) \/ Retry(w) \/ Sweep(w)

Next ==
  \/ \E w \in Pass : Work(w) \/ Crash(w)
  \/ \E r \in Row : Enqueue(r) \/ Ripen(r) \/ Age(r)
  \/ Calm

Spec == Init /\ [][Next]_vars

\* The scheduler runs passes again and again, and they go on;
\* processes stop dying and updates failing at some time.
FairSpec ==
  /\ Spec
  /\ \A w \in Pass : WF_vars(Work(w))
  /\ \A r \in Row : WF_vars(Ripen(r))
  /\ WF_vars(Calm)

-----------------------------------------------------------------------------
(* Properties.                                                             *)

\* "a delivery failure lands in the outbox and retries with backoff instead of
\* vanishing" (notification-channels.ts:1296-1297): a row counts as delivered,
\* and is deleted, only when its delivery happened.  It does not hold: the handler
\* of a notification returns when the delivery has failed again.
DeliveredWasSent == \A r \in Row : status[r] \in {"delivered", "gone"} => r \in sent

\* A row is given up only after MAX_ATTEMPTS calls of its handler, whatever
\* passes overlap, die or fail to write.
DeadHadItsTries == \A r \in Row : status[r] = "dead" => tries[r] >= MAX_ATTEMPTS

\* No failed or unfinished row is lost to retention: for a row that is gone, or
\* counts as delivered, the handler was called.
GoneWasHandled == \A r \in Row : status[r] \in {"delivered", "gone"} => tries[r] > 0

\* A settled row that no running pass has read keeps its outcome and is never
\* taken up again.  Two passes that both read it may undo each other's outcomes,
\* one pass never its own.
Settled(r) == status[r] \in {"delivered", "dead", "gone"}
ReadBy(w) == {x.id : x \in todo[w]}
SettledStays ==
  [][\A r \in Row : Settled(r) /\ (\A w \in Pass : r \notin ReadBy(w))
       => Settled(r)' /\ \A w \in Pass : r \notin ReadBy(w)']_vars

\* The outbox is a store of durable work: every step of a pass, however many overlap, die
\* or fail to write, is one that whoever left the work expects, or none it can see.
Store == INSTANCE DurableWork WITH
  Item   <- Row,
  Worker <- Pass,
  Limit  <- MAX_ATTEMPTS,
  state  <- status,
  calls  <- tries,
  hands  <- [w \in Pass |-> ReadBy(w)]

StoreSpec == Store!Spec

\* "A crash between the write and the delivery loses nothing", "deliver every
\* due pending row" (outbox.ts:6, 40): a row with a handler is settled in the end.
RowsSettle == \A r \in Row \ Unhandled : status[r] = "pending" ~> Settled(r)

=============================================================================
