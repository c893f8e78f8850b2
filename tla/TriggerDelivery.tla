--------------------------- MODULE TriggerDelivery ---------------------------
(***************************************************************************)
(* Deliveries of agent triggers                                            *)
(* (src/api/src/services/agent-trigger-delivery.ts): a row for each        *)
(* wake-up, sent at once by the process that stored it, and again by the   *)
(* drains of any process until it is delivered, final or out of attempts.  *)
(* A claim that a dead process left behind is taken over once it is        *)
(* STALE_CLAIM_MS old.                                                     *)
(*                                                                         *)
(* A worker is one run of queueWakeUp, drainDueDeliveries or retryDelivery *)
(* in some process; a process that dies is Crash of its workers.  Every    *)
(* action is one statement of the database or one POST.                    *)
(***************************************************************************)
EXTENDS Naturals, FiniteSets

CONSTANTS
  Delivery, Worker,
  MaxAttempts,   \* max_attempts of the trigger
  Timely,        \* no worker is slower than STALE_CLAIM_MS
  MaxCrashes, MaxRetries,   \* bounds: crashes, retries by an administrator
  None

ASSUME DeliveryAssumption ==
  /\ MaxAttempts \in Nat \ {0} /\ Timely \in BOOLEAN
  /\ MaxCrashes \in Nat /\ MaxRetries \in Nat /\ None \notin Delivery
  /\ IsFiniteSet(Worker)

VARIABLES
  row,      \* the table
  enabled,  \* the trigger is there and turned on
  pc,       \* where a worker is
  has,      \* the row it works on, as it read it
  due,      \* rows a drain has read and not come to yet
  answer,   \* the answer to its POST
  posts,    \* requests sent (history)
  refused,  \* a request has been answered for good (history)
  lapsed,   \* a claim of the row has gone stale (history)
  crashes, retries

vars == <<row, enabled, pc, has, due, answer, posts, refused, lapsed, crashes, retries>>
work == <<pc, has, due, answer>>
history == <<posts, refused, lapsed>>
bounds == <<crashes, retries>>

Status == {"none", "skipped", "sending", "retrying", "delivered", "dead", "discarded", "pruned"}

\* ripe: next_attempt_at has come, or claimed_at is older than STALE_CLAIM_MS.
Row == [status : Status, attempts : Nat, max : Nat, ripe : BOOLEAN]

\* What a worker remembers of a row.
Seen == [id : Delivery, status : Status, attempts : Nat, max : Nat]

TypeOK ==
  /\ row \in [Delivery -> Row]
  /\ enabled \in BOOLEAN
  /\ pc \in [Worker -> {"idle", "drain", "asked", "claimed", "off", "post", "answered"}]
  /\ has \in [Worker -> Seen \cup {None}]
  /\ due \in [Worker -> SUBSET Seen]
  /\ answer \in [Worker -> {"ok", "again", "final", "none"}]
  /\ posts \in [Delivery -> Nat]
  /\ refused \in [Delivery -> BOOLEAN] /\ lapsed \in [Delivery -> BOOLEAN]
  /\ crashes \in Nat /\ retries \in Nat

Absent == [status |-> "none", attempts |-> 0, max |-> 0, ripe |-> FALSE]

Init ==
  /\ row = [d \in Delivery |-> Absent] /\ enabled = TRUE
  /\ pc = [w \in Worker |-> "idle"] /\ has = [w \in Worker |-> None]
  /\ due = [w \in Worker |-> {}] /\ answer = [w \in Worker |-> "none"]
  /\ posts = [d \in Delivery |-> 0]
  /\ refused = [d \in Delivery |-> FALSE] /\ lapsed = [d \in Delivery |-> FALSE]
  /\ crashes = 0 /\ retries = 0

-----------------------------------------------------------------------------

\* select('*')
Look(d) == [id |-> d, status |-> row[d].status, attempts |-> row[d].attempts, max |-> row[d].max]

\* The workers that send d, or are about to.
Senders(d) == {w \in Worker : pc[w] \in {"claimed", "off", "post", "answered"} /\ has[w].id = d}

\* A worker without rows left is done.
After(rest) == IF rest = {} THEN "idle" ELSE "drain"

\* queueWakeUp(): the row is stored as claimed and sent by this worker.
Fire(w, d) ==
  /\ pc[w] = "idle" /\ row[d].status = "none" /\ enabled
  /\ row' = [row EXCEPT ![d] = [status |-> "sending", attempts |-> 0,
                                max |-> MaxAttempts, ripe |-> FALSE]]
  /\ has' = [has EXCEPT ![w] = [id |-> d, status |-> "sending", attempts |-> 0,
                                max |-> MaxAttempts]]
  /\ pc' = [pc EXCEPT ![w] = "post"]
  /\ UNCHANGED <<enabled, due, answer, history, bounds>>

\* Nothing to send: the owner may not read the record, or a loop is held up.
Skip(d) ==
  /\ row[d].status = "none" /\ enabled
  /\ row' = [row EXCEPT ![d].status = "skipped"]
  /\ UNCHANGED <<enabled, work, history, bounds>>

\* Mutant: claims left behind are not looked for.
DueRetries == {Look(d) : d \in {x \in Delivery : row[x].status = "retrying" /\ row[x].ripe}}

\* Retries that are due and claims left behind.
DueRows == {Look(d) : d \in {x \in Delivery : row[x].status \in {"retrying", "sending"} /\ row[x].ripe}}

\* drainDueDeliveries(): the rows are read.
Drain(w) ==
  /\ pc[w] = "idle" /\ DueRows # {}
  /\ pc' = [pc EXCEPT ![w] = "drain"] /\ due' = [due EXCEPT ![w] = DueRows]
  /\ UNCHANGED <<row, enabled, has, answer, history, bounds>>

\* Mutant: only the attempts are compared.
UnchangedAttempts(r) == row[r.id].attempts = r.attempts

\* The WHERE of a claim: status and attempts as they were read.
Unchanged(r) == row[r.id].status = r.status /\ row[r.id].attempts = r.attempts

\* claim()
Claim(w, r) ==
  /\ pc[w] = "drain" /\ r \in due[w]
  /\ due' = [due EXCEPT ![w] = @ \ {r}]
  /\ IF Unchanged(r)
       THEN /\ row' = [row EXCEPT ![r.id].status = "sending", ![r.id].ripe = FALSE]
            /\ has' = [has EXCEPT ![w] = r]
            /\ pc' = [pc EXCEPT ![w] = "claimed"]
       ELSE pc' = [pc EXCEPT ![w] = After(due'[w])] /\ UNCHANGED <<row, has>>
  /\ UNCHANGED <<enabled, answer, history, bounds>>

\* attemptClaimed(): the trigger is read.
Load(w) ==
  /\ pc[w] = "claimed"
  /\ pc' = [pc EXCEPT ![w] = IF enabled THEN "post" ELSE "off"]
  /\ UNCHANGED <<row, enabled, has, due, answer, history, bounds>>

\* sendSigned(): 2xx, a failure worth another attempt (a timeout too), or one that
\* is final.
Post(w) ==
  /\ pc[w] = "post"
  /\ \E a \in {"ok", "again", "final"} :
       /\ answer' = [answer EXCEPT ![w] = a]
       /\ refused' = [refused EXCEPT ![has[w].id] = @ \/ a = "final"]
  /\ posts' = [posts EXCEPT ![has[w].id] = @ + 1]
  /\ pc' = [pc EXCEPT ![w] = "answered"]
  /\ UNCHANGED <<row, enabled, has, due, lapsed, bounds>>

\* Mutant: off by one.
OutcomeEarly(r, a) ==
  LET attempt == r.attempts + 1 IN
  CASE a = "ok" -> "delivered"
    [] a # "ok" /\ (attempt + 1 >= r.max \/ a = "final") -> "dead"
    [] OTHER -> "retrying"

Outcome(r, a) ==
  LET attempt == r.attempts + 1 IN
  CASE a = "ok" -> "delivered"
    [] a # "ok" /\ (attempt >= r.max \/ a = "final") -> "dead"
    [] OTHER -> "retrying"

\* finish(): an update by id, whatever the row has become; a pruned row is not found.
Finish(w) ==
  LET r == has[w] IN
  /\ pc[w] \in {"off", "answered"}
  /\ row' = IF row[r.id].status = "pruned" THEN row
            ELSE IF pc[w] = "off" THEN [row EXCEPT ![r.id].status = "discarded"]
            ELSE [row EXCEPT ![r.id] = [status |-> Outcome(r, answer[w]), attempts |-> r.attempts + 1,
                                        max |-> @.max, ripe |-> FALSE]]
  /\ pc' = [pc EXCEPT ![w] = After(due[w])] /\ has' = [has EXCEPT ![w] = None]
  /\ answer' = [answer EXCEPT ![w] = "none"]
  /\ UNCHANGED <<enabled, due, history, bounds>>

\* retryDelivery(): the administrator's click reads the row ...
AskRetry(w, d) ==
  /\ pc[w] = "idle" /\ row[d].status \in {"dead", "retrying"} /\ retries < MaxRetries
  /\ retries' = retries + 1
  /\ has' = [has EXCEPT ![w] = Look(d)] /\ pc' = [pc EXCEPT ![w] = "asked"]
  /\ UNCHANGED <<row, enabled, due, answer, history, crashes>>

\* ... and claims it for one attempt more, or answers 409.
Retry(w) ==
  LET r == has[w] IN
  /\ pc[w] = "asked"
  /\ IF Unchanged(r)
       THEN /\ row' = [row EXCEPT ![r.id] = [status |-> "sending", attempts |-> r.attempts,
                                             max |-> r.attempts + 1, ripe |-> FALSE]]
            /\ has' = [has EXCEPT ![w].max = r.attempts + 1]
            /\ pc' = [pc EXCEPT ![w] = "claimed"]
       ELSE /\ has' = [has EXCEPT ![w] = None] /\ pc' = [pc EXCEPT ![w] = "idle"]
            /\ UNCHANGED row
  /\ UNCHANGED <<enabled, due, answer, history, bounds>>

\* Mutant: whatever is not finished may be discarded.
discardDeliveryAny(d) ==
  /\ row[d].status \in {"dead", "retrying", "sending"}
  /\ row' = [row EXCEPT ![d].status = "discarded"]
  /\ UNCHANGED <<enabled, work, history, bounds>>

discardDelivery(d) ==
  /\ row[d].status \in {"dead", "retrying"}
  /\ row' = [row EXCEPT ![d].status = "discarded"]
  /\ UNCHANGED <<enabled, work, history, bounds>>

\* Old finished rows go.
pruneDeliveries(d) ==
  /\ row[d].status \in {"delivered", "discarded", "skipped", "dead"}
  /\ row' = [row EXCEPT ![d] = [Absent EXCEPT !.status = "pruned"]]
  /\ UNCHANGED <<enabled, work, history, bounds>>

\* The owner turns the trigger off or deletes it.
Disable ==
  /\ enabled' = FALSE /\ enabled
  /\ UNCHANGED <<row, work, history, bounds>>

\* Time passes: a retry comes due, a claim grows stale.
Ripen(d) ==
  /\ row[d].status \in {"retrying", "sending"} /\ ~row[d].ripe
  /\ row[d].status = "sending" /\ Timely => Senders(d) = {}
  /\ row' = [row EXCEPT ![d].ripe = TRUE]
  /\ lapsed' = [lapsed EXCEPT ![d] = @ \/ row[d].status = "sending"]
  /\ UNCHANGED <<enabled, work, posts, refused, bounds>>

Crash(w) ==
  /\ pc[w] # "idle" /\ crashes < MaxCrashes
  /\ crashes' = crashes + 1
  /\ pc' = [pc EXCEPT ![w] = "idle"] /\ has' = [has EXCEPT ![w] = None]
  /\ due' = [due EXCEPT ![w] = {}] /\ answer' = [answer EXCEPT ![w] = "none"]
  /\ UNCHANGED <<row, enabled, history, retries>>

\* What a worker does of itself once it has begun.
Step(w) == Load(w) \/ Post(w) \/ Finish(w) \/ Retry(w) \/ \E r \in due[w] : Claim(w, r)

Next ==
  \/ \E w \in Worker : \/ Drain(w) \/ Step(w) \/ Crash(w)
                       \/ \E d \in Delivery : Fire(w, d) \/ AskRetry(w, d)
  \/ \E d \in Delivery : Skip(d) \/ discardDelivery(d) \/ pruneDeliveries(d) \/ Ripen(d)
  \/ Disable

Spec == Init /\ [][Next]_vars

\* A worker goes on until it is done or dies; the cron and the local timers drain
\* again and again; time passes.
FairSpec ==
  /\ Spec
  /\ \A w \in Worker : WF_vars(Step(w)) /\ WF_vars(Drain(w))
  /\ \A d \in Delivery : WF_vars(Ripen(d))

-----------------------------------------------------------------------------
(* Properties.                                                             *)

\* As long as no claim of a row has gone stale, one worker at most sends it: first
\* attempts, the drains of any number of processes and retries by hand exclude each
\* other by the WHERE of their claims.
OneSender == \A d \in Delivery : ~lapsed[d] => Cardinality(Senders(d)) <= 1

\* "true = ours" (agent-trigger-delivery.ts:427): a worker that has claimed a row is
\* the only one that sends it.  It does not hold: two drains that have read the same
\* stale claim both take it over, for the first to do so changes neither status nor
\* attempts; and a sender slower than STALE_CLAIM_MS is joined by a drain.
ClaimIsOurs == \A d \in Delivery : Cardinality(Senders(d)) <= 1

\* A delivery is given up only after its attempts, or a final answer, whatever two
\* senders have written over each other.
DeadHadItsTries ==
  \A d \in Delivery : row[d].status = "dead" => posts[d] >= row[d].max \/ refused[d]

Settled == {"none", "skipped", "delivered", "dead", "discarded", "pruned"}

\* A row that was delivered or discarded, and no claim of which has gone stale, is
\* never sent again and stays what it is until it is pruned: no drain that read it
\* while it waited and no retry finds it.
SettledIsQuiet ==
  [][\A d \in Delivery :
       row[d].status \in {"delivered", "discarded"} /\ ~lapsed[d]
       => Senders(d)' = {} /\ row'[d].status \in {row[d].status, "pruned"}]_vars

\* Every wake-up comes to an end, in spite of processes that die with their claims.
RowsSettle == \A d \in Delivery : row[d].status \notin Settled ~> row[d].status \in Settled

=============================================================================
