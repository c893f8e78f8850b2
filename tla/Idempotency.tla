----------------------------- MODULE Idempotency -----------------------------
(***************************************************************************)
(* Inbound idempotency keys: src/api/src/services/idempotency.ts.          *)
(* Requests of one caller that carry one Idempotency-Key (keys share       *)
(* nothing) reach several processes.  A request claims the key before its  *)
(* handler runs and stores its answer, or releases the key, when the answer*)
(* is sent.  The pc of a request names the await it stands at.             *)
(***************************************************************************)
EXTENDS FiniteSets

CONSTANTS
  Req,          \* requests with this key
  Fingerprint,  \* fingerprints of method, path and body
  None,
  Crashes,      \* TRUE: a process may die with requests under way
  Outages,      \* TRUE: Redis may be unreachable
  SlowWrites,   \* TRUE: a request may outlast PENDING_TTL_S
  Resends       \* the commands ioredis may send again after a lost answer

ASSUME IdempotencyAssumption ==
  /\ None \notin Req \cup Fingerprint
  /\ None \notin [state : {"pending", "done"}, by : Req, fp : Fingerprint]
  /\ {Crashes, Outages, SlowWrites} \subseteq BOOLEAN
  /\ Resends \subseteq {"claim", "store", "release"}

VARIABLES
  entry,  \* the Redis key: None, or [state, by, fp]: who wrote it
  pc,     \* where each request is
  fp,     \* its fingerprint
  claim,  \* req.idempotency: the request holds a claim
  wrote,  \* requests whose write landed and whose answer is 2xx
  answer, \* what each request was answered
  down    \* Redis is unreachable

vars == <<entry, pc, fp, claim, wrote, answer, down>>

Pending(r) == [state |-> "pending", by |-> r, fp |-> fp[r]]
Done(r) == [state |-> "done", by |-> r, fp |-> fp[r]]

\* An answer of its own, or the answer of another request again.
Answer(a) == [is |-> a, of |-> None]
Replay(s) == [is |-> "replay", of |-> s]

TypeOK ==
  /\ entry \in {None} \cup [state : {"pending", "done"}, by : Req, fp : Fingerprint]
  /\ pc \in [Req -> {"new", "claim", "get", "again", "run", "send", "sent", "over", "dead"}]
  /\ fp \in [Req -> Fingerprint \cup {None}]
  /\ claim \in [Req -> BOOLEAN]
  /\ wrote \subseteq Req
  /\ answer \in [Req -> [is : {"none", "ok", "failed", "409", "422", "replay"},
                        of : Req \cup {None}]]
  /\ down \in BOOLEAN

Init ==
  /\ entry = None
  /\ pc = [r \in Req |-> "new"]
  /\ fp = [r \in Req |-> None]
  /\ claim = [r \in Req |-> FALSE]
  /\ wrote = {}
  /\ answer = [r \in Req |-> Answer("none")]
  /\ down = FALSE

Goto(r, at) == pc' = [pc EXCEPT ![r] = at]

Reply(r, a) == Goto(r, "over") /\ answer' = [answer EXCEPT ![r] = a]

-----------------------------------------------------------------------------
(* beginIdempotency().                                                     *)

Arrive(r) ==
  /\ pc[r] = "new"
  /\ \E f \in Fingerprint : fp' = [fp EXCEPT ![r] = f]
  /\ Goto(r, "claim")
  /\ UNCHANGED <<entry, claim, wrote, answer, down>>

\* SET NX answered OK: the handler runs with a claim.
Claimed(r) ==
  /\ entry = None
  /\ entry' = Pending(r)
  /\ claim' = [claim EXCEPT ![r] = TRUE]
  /\ Goto(r, "run")
  /\ UNCHANGED answer

Claim(r) ==
  /\ pc[r] = "claim" /\ ~down
  /\ \/ Claimed(r)
     \/ entry # None /\ Goto(r, "get") /\ UNCHANGED <<entry, claim, answer>>
  /\ UNCHANGED <<fp, wrote, down>>

\* The stored value decides the reply: another request's key, a request still
\* running, or the answer again.
Existing(r) ==
  /\ entry # None
  /\ Reply(r, IF entry.fp # fp[r] THEN Answer("422")
              ELSE IF entry.state = "pending" THEN Answer("409") ELSE Replay(entry.by))

\* Mutant: the fingerprint is not compared.
LookupAnyBody(r) ==
  /\ pc[r] = "get" /\ ~down
  /\ \/ entry # None /\ Reply(r, IF entry.state = "pending" THEN Answer("409") ELSE Replay(entry.by))
     \/ entry = None /\ Goto(r, "again") /\ UNCHANGED answer
  /\ UNCHANGED <<entry, fp, claim, wrote, down>>

Lookup(r) ==
  /\ pc[r] = "get" /\ ~down
  /\ Existing(r) \/ (entry = None /\ Goto(r, "again") /\ UNCHANGED answer)
  /\ UNCHANGED <<entry, fp, claim, wrote, down>>

\* The key expired between the two calls: claim again, once.
ClaimAgain(r) ==
  /\ pc[r] = "again" /\ ~down
  /\ \/ Claimed(r)
     \/ entry # None /\ Reply(r, Answer("409")) /\ UNCHANGED <<entry, claim>>
  /\ UNCHANGED <<fp, wrote, down>>

\* The SET NX was done but its answer lost with the connection; sent again, it
\* finds the request's own claim, which nobody holds.
ClaimTwice(r) ==
  /\ "claim" \in Resends /\ ~down
  /\ entry = None /\ entry' = Pending(r)
  /\ \/ pc[r] = "claim" /\ Goto(r, "get") /\ UNCHANGED answer
     \/ pc[r] = "again" /\ Reply(r, Answer("409"))
  /\ UNCHANGED <<fp, claim, wrote, down>>

\* Redis fails: the request runs without the key.  A SET that failed may have
\* been done.
FailOpen(r) ==
  /\ down
  /\ pc[r] \in {"claim", "get", "again"}
  /\ \/ UNCHANGED entry
     \/ pc[r] # "get" /\ entry = None /\ entry' = Pending(r)
  /\ Goto(r, "run")
  /\ UNCHANGED <<fp, claim, wrote, answer, down>>

-----------------------------------------------------------------------------
(* The handler and the onSend hook.                                        *)

\* The handler ends; a write that landed counts when its answer is 2xx (no route
\* that claims a key streams its answer).
Handle(r) ==
  /\ pc[r] = "run"
  /\ \E a \in {"ok", "failed"} :
       /\ answer' = [answer EXCEPT ![r] = Answer(a)]
       /\ wrote' = IF a = "ok" THEN wrote \cup {r} ELSE wrote
  /\ Goto(r, "send")
  /\ UNCHANGED <<entry, fp, claim, down>>

\* What the key becomes: a 2xx answer (without its body when that is too big), or
\* free for a retry.
Stored(r) == IF answer[r].is = "ok" THEN Done(r) ELSE None

Send(r) ==
  /\ pc[r] = "send"
  /\ entry' = IF claim[r] /\ ~down THEN Stored(r) ELSE entry
  /\ claim' = [claim EXCEPT ![r] = FALSE]
  /\ \/ Goto(r, "over")
     \/ /\ claim[r] /\ ~down
        /\ (IF answer[r].is = "ok" THEN "store" ELSE "release") \in Resends
        /\ Goto(r, "sent")
  /\ UNCHANGED <<fp, wrote, answer, down>>

\* The answer of that SET or DEL was lost: the same command runs again, whatever
\* the key holds by now; or Redis fails and the request gives up.
SendTwice(r) ==
  /\ pc[r] = "sent"
  /\ entry' = IF down THEN entry ELSE Stored(r)
  /\ Goto(r, "over")
  /\ UNCHANGED <<fp, claim, wrote, answer, down>>

-----------------------------------------------------------------------------
(* Expiry and failures.                                                    *)

InHandler(r) == pc[r] \in {"run", "send"} /\ claim[r]

\* Mutants: a claim lives no longer than a quick request; it has no expiry.
LapsesNever(e) == FALSE
LapsesEarly(e) == e.state = "pending"

\* PENDING_TTL_S is longer than any real write; DONE_TTL_S is the promise itself.
Lapses(e) == e.state = "pending" /\ (SlowWrites \/ ~InHandler(e.by))

Expire ==
  /\ entry # None
  /\ Lapses(entry)
  /\ entry' = None
  /\ UNCHANGED <<pc, fp, claim, wrote, answer, down>>

\* The process of r dies; the write may have landed before.
Die(r) ==
  /\ Crashes
  /\ pc[r] \in {"claim", "get", "again", "run", "send", "sent"}
  /\ wrote' \in IF pc[r] = "run" THEN {wrote, wrote \cup {r}} ELSE {wrote}
  /\ Goto(r, "dead")
  /\ UNCHANGED <<entry, fp, claim, answer, down>>

RedisDown == Outages /\ ~down /\ down' = TRUE /\ UNCHANGED <<entry, pc, fp, claim, wrote, answer>>
RedisUp == down /\ down' = FALSE /\ UNCHANGED <<entry, pc, fp, claim, wrote, answer>>

Step(r) ==
  \/ Claim(r) \/ Lookup(r) \/ ClaimAgain(r) \/ ClaimTwice(r) \/ FailOpen(r)
  \/ Handle(r) \/ Send(r) \/ SendTwice(r)

Next == (\E r \in Req : Arrive(r) \/ Step(r) \/ Die(r)) \/ Expire \/ RedisDown \/ RedisUp

Spec == Init /\ [][Next]_vars

FairSpec == Spec /\ WF_vars(Expire) /\ WF_vars(RedisUp) /\ \A r \in Req : WF_vars(Step(r))

-----------------------------------------------------------------------------
(* Properties.                                                             *)

\* "it never runs the write a second time" (idempotency.ts:21): two handlers
\* never run at once under the key.
OneHandler == \A r, s \in Req : InHandler(r) /\ InHandler(s) => r = s

\* A replay is the answer to the same request, which did write; a failed
\* answer is never replayed.
ReplayIsTheAnswer ==
  \A r, s \in Req : answer[r] = Replay(s) => s \in wrote /\ fp[s] = fp[r]

\* onSend writes or deletes the key without looking whether it still carries its
\* own claim: an answer kept for the caller's retries must survive that.
AnswerStays == [][entry # None /\ entry.state = "done" => entry' = entry]_vars

\* Seen by its caller, the key is a kept answer: at most one handler runs under it
\* and none once an answer is kept, which is that of a write that landed, stays, and
\* is told to the same request only.
KeptBy == IF entry # None /\ entry.state = "done" THEN entry.by ELSE None

Key == INSTANCE KeptAnswer WITH
  Request <- Req,
  Body    <- Fingerprint,
  asked   <- fp,
  running <- {r \in Req : InHandler(r)},
  landed  <- wrote,
  kept    <- KeptBy,
  told    <- [r \in Req |-> IF answer[r].is = "replay" THEN answer[r].of ELSE None]

KeySpec == Key!Spec

\* A failed or dead request does not block its caller for ever: a claim
\* becomes an answer or is gone.
ClaimsEnd ==
  \A r \in Req : (entry # None /\ entry = Pending(r)) ~> ~(entry # None /\ entry = Pending(r))

=============================================================================
