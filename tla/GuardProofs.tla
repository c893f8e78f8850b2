----------------------------- MODULE GuardProofs -----------------------------
(***************************************************************************)
(* Theorems about the two guards that keep one request from acting twice,  *)
(* each a SET NX in Redis with an expiry: inbound idempotency keys         *)
(* (Idempotency) and the double-fire guard of workflow transitions         *)
(* (Workflow, as the instance W), for every number of requests, workers,   *)
(* processes and transitions, with any crashes and outages.                *)
(*                                                                         *)
(* The keys.  OneHandler is not inductive: onSend writes or deletes the    *)
(* key without looking at it, so the proof carries what makes that         *)
(* harmless.  The key is the claim of the handler that runs (Owned), and   *)
(* an answer that is about to be stored again is there already (Repeated). *)
(* Two things the code relies on are assumed (Prompt): a write is shorter  *)
(* than its claim, and no release is sent twice.  Every step is then one   *)
(* of KeptAnswer, which says what the caller is promised, or none.         *)
(*                                                                         *)
(* The moves.  A request past the guard is the holder of its claim         *)
(* (Owner), so that DEL, which does not look either, deletes its own; and  *)
(* a request that was beaten still stands before a guard that is shut      *)
(* (Beaten).  The claim outlives its request, and only its expiry, which   *)
(* Timely keeps away from requests under way, opens the guard again.       *)
(***************************************************************************)
EXTENDS Idempotency, WorkflowState, FiniteSetTheorems, TLAPS

Entry == [state : {"pending", "done"}, by : Req, fp : Fingerprint]
Answers == [is : {"none", "ok", "failed", "409", "422", "replay"}, of : Req \cup {None}]

\* A request has a fingerprint as soon as it asks for the key, and not before.
Known == \A r \in Req : IF pc[r] = "new" THEN fp[r] = None ELSE fp[r] \in Fingerprint

\* A claim is held from the SET NX to the answer.
Held == \A r \in Req : claim[r] => pc[r] \in {"run", "send", "dead"}

\* The key belongs to the handler that runs with a claim.
Owned == \A r \in Req : InHandler(r) => entry = Pending(r)

\* What is kept is the answer of a request that wrote, under its own body.
Kept == entry # None /\ entry.state = "done" => entry.by \in wrote /\ entry.fp = fp[entry.by]

\* A write has been answered, and an answer "ok" was a write.
Wrote ==
  /\ \A r \in wrote : pc[r] \in {"send", "sent", "over", "dead"}
  /\ \A r \in Req : pc[r] \in {"send", "sent"} /\ answer[r].is = "ok" => r \in wrote

\* A request that stores again finds its own answer.
Repeated == \A r \in Req : pc[r] = "sent" => answer[r].is = "ok" /\ entry = Done(r)

\* A replayed answer came from a request that wrote, with the same body.
Replayed ==
  \A r \in Req : answer[r].is = "replay" =>
    /\ pc[r] = "over"
    /\ answer[r].of \in wrote
    /\ fp[answer[r].of] = fp[r]

IInv == Known /\ Held /\ Owned /\ Kept /\ Wrote /\ Repeated /\ Replayed

\* Writes are shorter than PENDING_TTL_S, and releases are sent once.
Prompt == ~SlowWrites /\ "release" \notin Resends

-----------------------------------------------------------------------------

\* What a request writes under the key is an entry of its own, not "no entry".
LEMMA Entries ==
  ASSUME NEW r \in Req, fp[r] \in Fingerprint
  PROVE  /\ Pending(r) \in Entry /\ Pending(r) # None
         /\ Pending(r).state = "pending" /\ Pending(r).by = r /\ Pending(r).fp = fp[r]
         /\ Done(r) \in Entry /\ Done(r) # None
         /\ Done(r).state = "done" /\ Done(r).by = r /\ Done(r).fp = fp[r]
         /\ Stored(r) \in Entry \cup {None}
<1>1. Pending(r) \in Entry /\ Done(r) \in Entry
  BY DEF Pending, Done, Entry
<1>2. Pending(r) # None /\ Done(r) # None
  BY <1>1, IdempotencyAssumption DEF Entry
<1> QED
  BY <1>1, <1>2 DEF Pending, Done, Stored

\* The state is always one of the declared types, and a request that asked for
\* the key has a fingerprint.
LEMMA TypeStep == TypeOK /\ Known /\ [Next]_vars => (TypeOK /\ Known)'
<1> SUFFICES ASSUME TypeOK, Known, [Next]_vars PROVE (TypeOK /\ Known)'
  OBVIOUS
<1> USE DEF TypeOK, Known, Goto
<1>1. ASSUME NEW r \in Req, Arrive(r) PROVE (TypeOK /\ Known)'
  BY <1>1 DEF Arrive
<1>2. ASSUME NEW r \in Req, Claim(r) PROVE (TypeOK /\ Known)'
  <2>1. CASE Claimed(r)
    BY <1>2, <2>1, Entries DEF Claim, Claimed, Entry
  <2>2. CASE entry # None /\ Goto(r, "get") /\ UNCHANGED <<entry, claim, answer>>
    BY <1>2, <2>2 DEF Claim
  <2> QED BY <1>2, <2>1, <2>2 DEF Claim
<1>3. ASSUME NEW r \in Req, Lookup(r) PROVE (TypeOK /\ Known)'
  BY <1>3 DEF Lookup, Existing, Reply, Answer, Replay
<1>4. ASSUME NEW r \in Req, ClaimAgain(r) PROVE (TypeOK /\ Known)'
  <2>1. CASE Claimed(r)
    BY <1>4, <2>1, Entries DEF ClaimAgain, Claimed, Entry
  <2>2. CASE entry # None /\ Reply(r, Answer("409")) /\ UNCHANGED <<entry, claim>>
    BY <1>4, <2>2 DEF ClaimAgain, Reply, Answer
  <2> QED BY <1>4, <2>1, <2>2 DEF ClaimAgain
<1>5. ASSUME NEW r \in Req, ClaimTwice(r) PROVE (TypeOK /\ Known)'
  BY <1>5, Entries DEF ClaimTwice, Reply, Answer, Entry
<1>6. ASSUME NEW r \in Req, FailOpen(r) PROVE (TypeOK /\ Known)'
  BY <1>6, Entries DEF FailOpen, Entry
<1>7. ASSUME NEW r \in Req, Handle(r) PROVE (TypeOK /\ Known)'
  BY <1>7 DEF Handle, Answer
<1>8. ASSUME NEW r \in Req, Send(r) PROVE (TypeOK /\ Known)'
  BY <1>8, Entries DEF Send, Entry
<1>9. ASSUME NEW r \in Req, SendTwice(r) PROVE (TypeOK /\ Known)'
  BY <1>9, Entries DEF SendTwice, Entry
<1>10. ASSUME NEW r \in Req, Die(r) PROVE (TypeOK /\ Known)'
  BY <1>10 DEF Die
<1>11. CASE Expire \/ RedisDown \/ RedisUp
  BY <1>11 DEF Expire, RedisDown, RedisUp
<1>12. CASE UNCHANGED vars
  BY <1>12 DEF vars
<1> QED
  BY <1>1, <1>2, <1>3, <1>4, <1>5, <1>6, <1>7, <1>8, <1>9, <1>10, <1>11, <1>12 DEF Next, Step

LEMMA TypedAndKnown == Spec => [](TypeOK /\ Known)
<1>1. Init => TypeOK /\ Known
  <2> SUFFICES ASSUME Init PROVE TypeOK /\ Known
    OBVIOUS
  <2> USE DEF Init
  <2>1. Answer("none") \in [is : {"none", "ok", "failed", "409", "422", "replay"}, of : Req \cup {None}]
    BY DEF Answer
  <2>2. TypeOK
    BY <2>1 DEF TypeOK
  <2>3. Known
    BY DEF Known
  <2> QED BY <2>2, <2>3
<1>2. TypeOK /\ Known /\ [Next]_vars => TypeOK' /\ Known'
  BY TypeStep
<1> QED
  BY <1>1, <1>2, PTL DEF Spec

\* The state is always a state of the declared types.
THEOREM TypeCorrect == Spec => []TypeOK
BY TypedAndKnown, PTL

-----------------------------------------------------------------------------

\* What is kept and replayed is genuine; that needs no assumption.
Genuine == Held /\ Kept /\ Wrote /\ Replayed

LEMMA GenuineStep == TypeOK /\ Known /\ Genuine /\ [Next]_vars => Genuine'
<1> SUFFICES ASSUME TypeOK, Known, Genuine, [Next]_vars PROVE Genuine'
  OBVIOUS
<1> USE DEF TypeOK, Genuine, Goto
<1>0. ASSUME NEW q \in Req, pc[q] # "new"
      PROVE  /\ Pending(q) # None /\ Pending(q).state = "pending" /\ Pending(q).by = q
             /\ Done(q) # None /\ Done(q).state = "done" /\ Done(q).by = q /\ Done(q).fp = fp[q]
  BY <1>0, Entries DEF Known
<1>1. ASSUME NEW r \in Req, Arrive(r) PROVE Genuine'
  <2> USE <1>1, <1>0 DEF Arrive
  <2>1. Held'
    BY DEF Held
  <2>2. Kept'
    BY DEF Kept, Wrote
  <2>3. Wrote'
    BY DEF Wrote
  <2>4. Replayed'
    BY DEF Replayed, Wrote
  <2> QED BY <2>1, <2>2, <2>3, <2>4 DEF Genuine
<1>2. ASSUME NEW r \in Req, Claim(r) PROVE Genuine'
  <2> USE <1>2, <1>0 DEF Claim, Claimed
  <2>1. Held'
    BY DEF Held
  <2>2. Kept'
    BY DEF Kept, Pending, Done
  <2>3. Wrote'
    BY DEF Wrote
  <2>4. Replayed'
    BY DEF Replayed
  <2> QED BY <2>1, <2>2, <2>3, <2>4 DEF Genuine
<1>3. ASSUME NEW r \in Req, Lookup(r) PROVE Genuine'
  <2> USE <1>3, <1>0 DEF Lookup, Existing, Reply, Answer, Replay
  <2>1. Held'
    BY DEF Held
  <2>2. Kept'
    BY DEF Kept, Pending, Done
  <2>3. Wrote'
    BY DEF Wrote
  <2>4. Replayed'
    BY DEF Replayed, Kept
  <2> QED BY <2>1, <2>2, <2>3, <2>4 DEF Genuine
<1>4. ASSUME NEW r \in Req, ClaimAgain(r) PROVE Genuine'
  <2> USE <1>4, <1>0 DEF ClaimAgain, Claimed, Reply, Answer
  <2>1. Held'
    BY DEF Held
  <2>2. Kept'
    BY DEF Kept, Pending, Done
  <2>3. Wrote'
    BY DEF Wrote
  <2>4. Replayed'
    BY DEF Replayed
  <2> QED BY <2>1, <2>2, <2>3, <2>4 DEF Genuine
<1>5. ASSUME NEW r \in Req, ClaimTwice(r) PROVE Genuine'
  <2> USE <1>5, <1>0 DEF ClaimTwice, Reply, Answer
  <2>1. Held'
    BY DEF Held
  <2>2. Kept'
    BY DEF Kept, Pending, Done
  <2>3. Wrote'
    BY DEF Wrote
  <2>4. Replayed'
    BY DEF Replayed
  <2> QED BY <2>1, <2>2, <2>3, <2>4 DEF Genuine
<1>6. ASSUME NEW r \in Req, FailOpen(r) PROVE Genuine'
  <2> USE <1>6, <1>0 DEF FailOpen
  <2>1. Held'
    BY DEF Held
  <2>2. Kept'
    BY DEF Kept, Pending, Done
  <2>3. Wrote'
    BY DEF Wrote
  <2>4. Replayed'
    BY DEF Replayed
  <2> QED BY <2>1, <2>2, <2>3, <2>4 DEF Genuine
<1>7. ASSUME NEW r \in Req, Handle(r) PROVE Genuine'
  <2> USE <1>7, <1>0 DEF Handle, Answer
  <2>1. Held'
    BY DEF Held
  <2>2. Kept'
    BY DEF Kept, Pending, Done
  <2>3. Wrote'
    BY DEF Wrote
  <2>4. Replayed'
    BY DEF Replayed
  <2> QED BY <2>1, <2>2, <2>3, <2>4 DEF Genuine
<1>8. ASSUME NEW r \in Req, Send(r) PROVE Genuine'
  <2> USE <1>8, <1>0 DEF Send
  <2>1. Held'
    BY DEF Held
  <2>2. Kept'
    BY DEF Kept, Wrote, Stored
  <2>3. Wrote'
    BY DEF Wrote
  <2>4. Replayed'
    BY DEF Replayed
  <2> QED BY <2>1, <2>2, <2>3, <2>4 DEF Genuine
<1>9. ASSUME NEW r \in Req, SendTwice(r) PROVE Genuine'
  <2> USE <1>9, <1>0 DEF SendTwice
  <2>1. Held'
    BY DEF Held
  <2>2. Kept'
    BY DEF Kept, Wrote, Stored, Done
  <2>3. Wrote'
    BY DEF Wrote
  <2>4. Replayed'
    BY DEF Replayed
  <2> QED BY <2>1, <2>2, <2>3, <2>4 DEF Genuine
<1>10. ASSUME NEW r \in Req, Die(r) PROVE Genuine'
  <2> USE <1>10, <1>0 DEF Die
  <2>1. Held'
    BY DEF Held
  <2>2. Kept'
    BY DEF Kept, Pending, Done
  <2>3. Wrote'
    BY DEF Wrote
  <2>4. Replayed'
    BY DEF Replayed
  <2> QED BY <2>1, <2>2, <2>3, <2>4 DEF Genuine
<1>11. CASE Expire
  BY <1>11 DEF Expire, Held, Kept, Wrote, Replayed
<1>12. CASE RedisDown \/ RedisUp
  BY <1>12 DEF RedisDown, RedisUp, Held, Kept, Wrote, Replayed
<1>13. CASE UNCHANGED vars
  BY <1>13 DEF vars, Held, Kept, Wrote, Replayed
<1> QED
  BY <1>1, <1>2, <1>3, <1>4, <1>5, <1>6, <1>7, <1>8, <1>9, <1>10, <1>11, <1>12, <1>13 DEF Next, Step

\* Handlers are apart, and a second store finds the first, with prompt writes.
Apart == Owned /\ Repeated

LEMMA ApartStep == TypeOK /\ IInv /\ Prompt /\ [Next]_vars => Apart'
<1> SUFFICES ASSUME TypeOK, IInv, Prompt, [Next]_vars PROVE Apart'
  OBVIOUS
<1> USE DEF TypeOK, IInv, Goto
<1>0. ASSUME NEW q \in Req, pc[q] # "new"
      PROVE  /\ Pending(q) # None /\ Pending(q).state = "pending" /\ Pending(q).by = q
             /\ Done(q) # None /\ Done(q).state = "done" /\ Done(q).by = q /\ Done(q).fp = fp[q]
  BY <1>0, Entries DEF Known
<1>1. ASSUME NEW r \in Req, Arrive(r) PROVE Apart'
  <2> USE <1>1, <1>0 DEF Arrive
  <2>1. Owned'
    BY DEF Owned, InHandler, Pending
  <2>2. Repeated'
    BY DEF Repeated, Done
  <2> QED BY <2>1, <2>2 DEF Apart
<1>2. ASSUME NEW r \in Req, Claim(r) PROVE Apart'
  <2> USE <1>2, <1>0 DEF Claim, Claimed
  <2>1. Owned'
    BY DEF Owned, InHandler, Pending
  <2>2. Repeated'
    BY DEF Repeated, Done
  <2> QED BY <2>1, <2>2 DEF Apart
<1>3. ASSUME NEW r \in Req, Lookup(r) PROVE Apart'
  <2> USE <1>3, <1>0 DEF Lookup, Existing, Reply, Answer, Replay
  <2>1. Owned'
    BY DEF Owned, InHandler, Pending
  <2>2. Repeated'
    BY DEF Repeated, Done
  <2> QED BY <2>1, <2>2 DEF Apart
<1>4. ASSUME NEW r \in Req, ClaimAgain(r) PROVE Apart'
  <2> USE <1>4, <1>0 DEF ClaimAgain, Claimed, Reply, Answer
  <2>1. Owned'
    BY DEF Owned, InHandler, Pending
  <2>2. Repeated'
    BY DEF Repeated, Done
  <2> QED BY <2>1, <2>2 DEF Apart
<1>5. ASSUME NEW r \in Req, ClaimTwice(r) PROVE Apart'
  <2> USE <1>5, <1>0 DEF ClaimTwice, Reply, Answer
  <2>1. Owned'
    BY DEF Owned, InHandler, Pending
  <2>2. Repeated'
    BY DEF Repeated, Done
  <2> QED BY <2>1, <2>2 DEF Apart
<1>6. ASSUME NEW r \in Req, FailOpen(r) PROVE Apart'
  <2> USE <1>6, <1>0 DEF FailOpen
  <2>1. Owned'
    BY DEF Held, Owned, InHandler, Pending
  <2>2. Repeated'
    BY DEF Repeated, Done
  <2> QED BY <2>1, <2>2 DEF Apart
<1>7. ASSUME NEW r \in Req, Handle(r) PROVE Apart'
  <2> USE <1>7, <1>0 DEF Handle, Answer
  <2>1. Owned'
    BY DEF Owned, InHandler, Pending
  <2>2. Repeated'
    BY DEF Repeated, Done
  <2> QED BY <2>1, <2>2 DEF Apart
<1>8. ASSUME NEW r \in Req, Send(r) PROVE Apart'
  <2> USE <1>8, <1>0 DEF Send
  <2>1. Owned'
    BY DEF Owned, InHandler, Pending
  <2>2. Repeated'
    BY DEF Repeated, Owned, InHandler, Stored, Done, Prompt
  <2> QED BY <2>1, <2>2 DEF Apart
<1>9. ASSUME NEW r \in Req, SendTwice(r) PROVE Apart'
  <2> USE <1>9, <1>0 DEF SendTwice
  <2>1. Owned'
    BY DEF Owned, InHandler, Repeated, Stored, Done, Pending
  <2>2. Repeated'
    BY DEF Repeated, Done
  <2> QED BY <2>1, <2>2 DEF Apart
<1>10. ASSUME NEW r \in Req, Die(r) PROVE Apart'
  <2> USE <1>10, <1>0 DEF Die
  <2>1. Owned'
    BY DEF Owned, InHandler, Pending
  <2>2. Repeated'
    BY DEF Repeated, Done
  <2> QED BY <2>1, <2>2 DEF Apart
<1>11. CASE Expire
  <2> USE <1>11, <1>0 DEF Expire, Lapses
  <2>1. Owned'
    BY DEF Owned, InHandler, Pending, Prompt
  <2>2. Repeated'
    BY DEF Repeated
  <2> QED BY <2>1, <2>2 DEF Apart
<1>12. CASE RedisDown \/ RedisUp
  BY <1>12 DEF RedisDown, RedisUp, Apart, Owned, InHandler, Pending, Repeated, Done
<1>13. CASE UNCHANGED vars
  BY <1>13 DEF vars, Apart, Owned, InHandler, Pending, Repeated, Done
<1> QED
  BY <1>1, <1>2, <1>3, <1>4, <1>5, <1>6, <1>7, <1>8, <1>9, <1>10, <1>11, <1>12, <1>13 DEF Next, Step

\* No step breaks the strengthening.
LEMMA Inductive == TypeOK /\ IInv /\ Prompt /\ [Next]_vars => IInv'
<1> SUFFICES ASSUME TypeOK, IInv, Prompt, [Next]_vars PROVE IInv'
  OBVIOUS
<1>1. Known' /\ Genuine'
  BY TypeStep, GenuineStep DEF IInv, Genuine
<1>2. Apart'
  BY ApartStep
<1> QED
  BY <1>1, <1>2 DEF IInv, Genuine, Apart

\* What is assumed of the constants is assumed for good.
LEMMA PromptStays == Prompt => []Prompt
<1>1. Prompt => Prompt'
  BY DEF Prompt
<1> QED
  BY <1>1, PTL

\* Every state has its type and the strengthening.
LEMMA InvariantHolds == Prompt /\ Spec => [](TypeOK /\ IInv)
<1>1. Init => IInv
  BY DEF Init, IInv, Known, Held, Owned, InHandler, Kept, Wrote, Repeated, Replayed, Answer
<1>2. Prompt /\ TypeOK /\ IInv /\ [Next]_vars => IInv'
  BY Inductive
<1> QED
  BY <1>1, <1>2, PromptStays, TypeCorrect, PTL DEF Spec

\* Two handlers never run with a claim on the same key.
THEOREM NoTwoHandlers == Prompt /\ Spec => []OneHandler
<1>1. TypeOK /\ IInv => OneHandler
  <2> SUFFICES ASSUME TypeOK, IInv, NEW r \in Req, NEW s \in Req, InHandler(r), InHandler(s) PROVE r = s
    BY DEF OneHandler
  <2>1. Pending(r) = Pending(s)
    BY DEF IInv, Owned
  <2> QED BY <2>1 DEF Pending
<1> QED
  BY <1>1, InvariantHolds, PTL

\* A replay is the answer of the same request, which wrote: also when a write outlasts
\* its claim and whatever the client sends twice.
THEOREM ReplayIsGenuine == Spec => []ReplayIsTheAnswer
<1>1. Init => Genuine
  BY DEF Init, Genuine, Held, Kept, Wrote, Replayed, Answer
<1>2. TypeOK /\ Known /\ Genuine /\ [Next]_vars => Genuine'
  BY GenuineStep
<1>3. TypeOK /\ Genuine => ReplayIsTheAnswer
  BY DEF TypeOK, Genuine, Replayed, ReplayIsTheAnswer, Replay
<1> QED
  BY <1>1, <1>2, <1>3, TypedAndKnown, PTL DEF Spec

\* A kept answer stays as it is, whatever arrives, dies or is stored late.
THEOREM KeptAnswerStays == Prompt /\ Spec => AnswerStays
<1>1. TypeOK /\ IInv /\ Prompt /\ [Next]_vars => [entry # None /\ entry.state = "done" => entry' = entry]_vars
  <2> SUFFICES ASSUME TypeOK, IInv, Prompt, Next, entry # None, entry.state = "done" PROVE entry' = entry
    OBVIOUS
  <2>1. \A q \in Req : pc[q] # "new" => Pending(q).state = "pending"
    BY DEF Pending
  <2>2. ASSUME NEW r \in Req, Send(r) PROVE entry' = entry
    BY <2>1, <2>2 DEF Send, IInv, Owned, InHandler, TypeOK
  <2>3. ASSUME NEW r \in Req, SendTwice(r) PROVE entry' = entry
    BY <2>3 DEF SendTwice, IInv, Repeated, Stored, TypeOK
  <2>4. CASE Expire
    BY <2>4 DEF Expire, Lapses
  <2> QED
    BY <2>2, <2>3, <2>4 DEF Next, Step, Arrive, Claim, Claimed, Lookup, ClaimAgain, ClaimTwice, FailOpen,
       Handle, Die, RedisDown, RedisUp
<1> QED
  BY <1>1, InvariantHolds, PromptStays, PTL DEF Spec, AnswerStays

-----------------------------------------------------------------------------
(* What the caller sees is KeptAnswer.                                     *)

Running == {r \in Req : InHandler(r)}
Told == [r \in Req |-> IF answer[r].is = "replay" THEN answer[r].of ELSE None]

\* A step of the kept answer, or none.
KeyStep == [Key!Next]_(Key!keyVars)

LEMMA NothingSeen ==
  ASSUME fp' = fp, Running' = Running, wrote' = wrote, KeptBy' = KeptBy, Told' = Told
  PROVE  KeyStep
BY DEF KeyStep, Key!keyVars, Running, Told

\* What a step of request r does to Running and Told, by what it does to r.
LEMMA Seen ==
  ASSUME TypeOK, NEW r \in Req,
         \A q \in Req : q # r => pc'[q] = pc[q] /\ claim'[q] = claim[q] /\ answer'[q] = answer[q]
  PROVE  /\ InHandler(r)' /\ ~InHandler(r) => Running' = Running \cup {r}
         /\ ~InHandler(r)' /\ InHandler(r) => Running' = Running \ {r}
         /\ (InHandler(r)' <=> InHandler(r)) => Running' = Running
         /\ answer[r].is # "replay" /\ answer'[r].is # "replay" => Told' = Told
         /\ answer'[r] = answer[r] => Told' = Told
<1>1. \A q \in Req : q # r => (InHandler(q)' <=> InHandler(q))
  BY DEF InHandler
<1>2. /\ InHandler(r)' /\ ~InHandler(r) => Running' = Running \cup {r}
      /\ ~InHandler(r)' /\ InHandler(r) => Running' = Running \ {r}
      /\ (InHandler(r)' <=> InHandler(r)) => Running' = Running
  BY <1>1 DEF Running
<1>3. /\ answer[r].is # "replay" /\ answer'[r].is # "replay" => Told' = Told
      /\ answer'[r] = answer[r] => Told' = Told
  BY DEF Told
<1> QED
  BY <1>2, <1>3

\* Every step of the code is one of the kept answer, or none.
LEMMA KeySteps == TypeOK /\ IInv /\ Prompt /\ [Next]_vars => KeyStep
<1> SUFFICES ASSUME TypeOK, IInv, Prompt, [Next]_vars PROVE KeyStep
  OBVIOUS
<1>0. /\ Known /\ Held /\ Owned /\ Kept /\ Wrote /\ Repeated /\ Replayed
      /\ \A q \in Req : answer[q].is = "replay" => pc[q] = "over"
  BY DEF IInv, Replayed
<1>1. ASSUME NEW q \in Req, pc[q] # "new"
      PROVE  /\ Pending(q) # None /\ Pending(q).state = "pending" /\ Pending(q).by = q
             /\ Done(q) # None /\ Done(q).state = "done" /\ Done(q).by = q /\ Done(q).fp = fp[q]
  BY <1>0, <1>1, Entries DEF Known
<1>2. \A q \in Req : InHandler(q) => pc[q] # "new" /\ entry = Pending(q) /\ KeptBy = None
  BY <1>0, <1>1 DEF Owned, InHandler, KeptBy
<1>3. ASSUME NEW r \in Req, pc' = [pc EXCEPT ![r] = pc'[r]],
             claim' = [claim EXCEPT ![r] = claim'[r]], answer' = [answer EXCEPT ![r] = answer'[r]]
      PROVE  \A q \in Req : q # r =>
               pc'[q] = pc[q] /\ claim'[q] = claim[q] /\ answer'[q] = answer[q]
  BY <1>3 DEF TypeOK
<1>4. ASSUME NEW r \in Req, Arrive(r)
      PROVE  KeyStep
  <2>1. /\ pc[r] = "new" /\ pc' = [pc EXCEPT ![r] = "claim"] /\ claim' = claim /\ answer' = answer
        /\ wrote' = wrote /\ entry' = entry /\ fp[r] = None
        /\ \E f \in Fingerprint : fp' = [fp EXCEPT ![r] = f]
    BY <1>0, <1>4 DEF Arrive, Goto, Known
  <2>2. Running' = Running /\ Told' = Told /\ KeptBy' = KeptBy
    BY <2>1, Seen DEF InHandler, KeptBy, TypeOK
  <2>3. Key!Ask(r)
    BY <2>1, <2>2 DEF Key!Ask, Running, Told
  <2> QED
    BY <2>3 DEF KeyStep, Key!Next
<1>5. ASSUME NEW r \in Req, Claimed(r), pc[r] \in {"claim", "again"},
             fp' = fp, wrote' = wrote
      PROVE  KeyStep
  <2>1. /\ entry = None /\ entry' = Pending(r) /\ pc' = [pc EXCEPT ![r] = "run"]
        /\ claim' = [claim EXCEPT ![r] = TRUE] /\ answer' = answer
    BY <1>5 DEF Claimed, Goto
  <2>2. Running = {} /\ KeptBy = None
    BY <1>1, <1>2, <2>1 DEF Running, KeptBy
  <2>3. Pending(r)' = Pending(r) /\ KeptBy' = None
    BY <1>1, <1>5, <2>1 DEF KeptBy, Pending
  <2>4. Running' = {r} /\ Told' = Told
    BY <1>5, <2>1, <2>2, Seen DEF InHandler, TypeOK, Running
  <2>5. Key!Begin(r)
    BY <1>5, <2>2, <2>3, <2>4 DEF Key!Begin, Running, Told
  <2> QED
    BY <2>5 DEF KeyStep, Key!Next
<1>6. ASSUME NEW r \in Req, NEW a, Reply(r, a), a.is # "replay", pc[r] \in {"get", "again", "claim"},
             fp' = fp, wrote' = wrote, claim' = claim, KeptBy' = KeptBy
      PROVE  KeyStep
  <2>1. pc' = [pc EXCEPT ![r] = "over"] /\ answer' = [answer EXCEPT ![r] = a]
    BY <1>6 DEF Reply, Goto
  <2>2. ~InHandler(r) /\ ~InHandler(r)' /\ answer[r].is # "replay" /\ answer'[r].is # "replay"
    BY <1>0, <1>6, <2>1 DEF InHandler, TypeOK
  <2>3. Running' = Running /\ Told' = Told
    BY <1>6, <2>1, <2>2, Seen DEF TypeOK
  <2> QED
    BY <1>6, <2>3, NothingSeen
<1>7. ASSUME NEW r \in Req, pc' = [pc EXCEPT ![r] = pc'[r]], claim' = claim, answer' = answer,
             InHandler(r)' <=> InHandler(r), fp' = fp, wrote' = wrote, KeptBy' = KeptBy
      PROVE  KeyStep
  <2>1. Running' = Running /\ Told' = Told
    BY <1>7, Seen DEF TypeOK
  <2> QED
    BY <1>7, <2>1, NothingSeen
<1>8. ASSUME NEW r \in Req, Claim(r)
      PROVE  KeyStep
  <2>1. CASE entry # None /\ Goto(r, "get") /\ UNCHANGED <<entry, claim, answer>>
    BY <1>7, <1>8, <2>1 DEF Claim, Goto, InHandler, KeptBy, TypeOK
  <2> QED
    BY <1>5, <1>8, <2>1 DEF Claim
<1>9. ASSUME NEW r \in Req, Lookup(r)
      PROVE  KeyStep
  <2>1. /\ pc[r] = "get" /\ UNCHANGED <<entry, fp, claim, wrote>> /\ KeptBy' = KeptBy
    BY <1>9 DEF Lookup, KeptBy
  <2>2. CASE entry = None /\ Goto(r, "again") /\ UNCHANGED answer
    BY <1>7, <2>1, <2>2 DEF Goto, InHandler, TypeOK
  <2>3. ASSUME NEW a, Reply(r, a), a = Answer("422") \/ a = Answer("409")
        PROVE  KeyStep
    <3>1. a.is # "replay"
      BY <2>3 DEF Answer
    <3> QED
      BY <1>6, <2>1, <2>3, <3>1
  <2>4. CASE entry # None /\ entry.fp = fp[r] /\ entry.state # "pending" /\ Reply(r, Replay(entry.by))
    <3>1. /\ entry.state = "done" /\ entry.by \in Req /\ KeptBy = entry.by /\ entry.by # None
          /\ fp[r] = fp[entry.by]
      BY <1>0, <2>4, IdempotencyAssumption DEF TypeOK, Kept, KeptBy
    <3>2. /\ pc' = [pc EXCEPT ![r] = "over"]
          /\ answer' = [answer EXCEPT ![r] = [is |-> "replay", of |-> entry.by]]
      BY <2>4 DEF Reply, Goto, Replay
    <3>3. Running' = Running
      BY <2>1, <3>2, Seen DEF InHandler, TypeOK
    <3>4. Told[r] = None /\ Told' = [Told EXCEPT ![r] = KeptBy]
      BY <1>0, <2>1, <3>1, <3>2 DEF Told, TypeOK
    <3>5. Key!Tell(r)
      BY <2>1, <3>1, <3>3, <3>4 DEF Key!Tell, Running, Told
    <3> QED
      BY <3>5 DEF KeyStep, Key!Next
  <2> QED
    BY <1>9, <2>2, <2>3, <2>4 DEF Lookup, Existing
<1>10. ASSUME NEW r \in Req, ClaimAgain(r)
       PROVE  KeyStep
  <2>1. CASE entry # None /\ Reply(r, Answer("409")) /\ UNCHANGED <<entry, claim>>
    <3>1. Answer("409").is # "replay"
      BY DEF Answer
    <3> QED
      BY <1>6, <1>10, <2>1, <3>1 DEF ClaimAgain, KeptBy
  <2> QED
    BY <1>5, <1>10, <2>1 DEF ClaimAgain
<1>11. ASSUME NEW r \in Req, ClaimTwice(r)
       PROVE  KeyStep
  <2>1. /\ entry = None /\ entry' = Pending(r) /\ pc[r] \in {"claim", "again"}
        /\ UNCHANGED <<fp, claim, wrote>>
    BY <1>11 DEF ClaimTwice
  <2>2. KeptBy' = KeptBy
    BY <1>1, <2>1 DEF KeptBy
  <2>3. CASE Goto(r, "get") /\ UNCHANGED answer
    BY <1>7, <2>1, <2>2, <2>3 DEF Goto, InHandler, TypeOK
  <2>4. CASE Reply(r, Answer("409"))
    <3>1. Answer("409").is # "replay"
      BY DEF Answer
    <3> QED
      BY <1>6, <2>1, <2>2, <2>4, <3>1
  <2> QED
    BY <1>11, <2>3, <2>4 DEF ClaimTwice
<1>12. ASSUME NEW r \in Req, FailOpen(r)
       PROVE  KeyStep
  <2>1. /\ pc[r] \in {"claim", "get", "again"} /\ pc' = [pc EXCEPT ![r] = "run"]
        /\ entry' = entry \/ (entry = None /\ entry' = Pending(r))
        /\ UNCHANGED <<fp, claim, wrote, answer>>
    BY <1>12 DEF FailOpen, Goto
  <2>2. KeptBy' = KeptBy
    BY <1>1, <2>1 DEF KeptBy
  <2>3. ~claim[r]
    BY <1>0, <2>1 DEF Held
  <2> QED
    BY <1>7, <2>1, <2>2, <2>3 DEF InHandler, TypeOK
<1>13. ASSUME NEW r \in Req, Handle(r)
       PROVE  KeyStep
  <2>1. PICK a \in {"ok", "failed"} :
          /\ answer' = [answer EXCEPT ![r] = Answer(a)]
          /\ wrote' = IF a = "ok" THEN wrote \cup {r} ELSE wrote
    BY <1>13 DEF Handle
  <2>2. /\ pc[r] = "run" /\ pc' = [pc EXCEPT ![r] = "send"] /\ UNCHANGED <<entry, fp, claim>>
        /\ KeptBy' = KeptBy
    BY <1>13 DEF Handle, Goto, KeptBy
  <2>3. Running' = Running /\ Told' = Told
    <3>1. answer[r].is # "replay" /\ answer'[r].is # "replay"
      BY <1>0, <2>1, <2>2 DEF Answer, TypeOK
    <3> QED
      BY <2>1, <2>2, <3>1, Seen DEF InHandler, TypeOK
  <2>4. CASE a = "ok"
    <3>1. Key!Land(r)
      BY <2>1, <2>2, <2>3, <2>4 DEF Key!Land, Running, Told
    <3> QED
      BY <3>1 DEF KeyStep, Key!Next
  <2>5. CASE a # "ok"
    BY <2>1, <2>2, <2>3, <2>5, NothingSeen
  <2> QED
    BY <2>4, <2>5
<1>14. ASSUME NEW r \in Req, Send(r)
       PROVE  KeyStep
  <2>1. /\ pc[r] = "send" /\ pc' = [pc EXCEPT ![r] = pc'[r]] /\ pc'[r] \in {"over", "sent"}
        /\ claim' = [claim EXCEPT ![r] = FALSE] /\ UNCHANGED <<fp, wrote, answer>>
        /\ entry' = IF claim[r] /\ ~down THEN Stored(r) ELSE entry
    BY <1>14 DEF Send, Goto, TypeOK
  <2>2. CASE ~claim[r]
    <3>1. Running' = Running /\ Told' = Told /\ KeptBy' = KeptBy
      BY <2>1, <2>2, Seen DEF InHandler, KeptBy, TypeOK
    <3> QED
      BY <2>1, <3>1, NothingSeen
  <2>3. CASE claim[r]
    <3>1. InHandler(r) /\ KeptBy = None /\ r \in Running
      BY <1>2, <2>1, <2>3 DEF InHandler, Running
    <3>2. Running' = Running \ {r} /\ Told' = Told
      BY <2>1, <3>1, Seen DEF InHandler, TypeOK
    <3>3. CASE ~down /\ answer[r].is = "ok"
      <4>1. r \in wrote
        BY <1>0, <2>1, <3>3 DEF Wrote
      <4>2. KeptBy' = r
        BY <1>1, <2>1, <2>3, <3>3 DEF KeptBy, Stored
      <4>3. Key!Keep(r)
        BY <2>1, <3>1, <3>2, <4>1, <4>2 DEF Key!Keep, Running, Told
      <4> QED
        BY <4>3 DEF KeyStep, Key!Next
    <3>4. CASE down \/ answer[r].is # "ok"
      <4>1. KeptBy' = KeptBy
        BY <2>1, <2>3, <3>1, <3>4 DEF KeptBy, Stored
      <4>2. Key!Drop(r)
        BY <2>1, <3>1, <3>2, <4>1 DEF Key!Drop, Running, Told
      <4> QED
        BY <4>2 DEF KeyStep, Key!Next
    <3> QED
      BY <3>3, <3>4
  <2> QED
    BY <2>2, <2>3
<1>15. ASSUME NEW r \in Req, SendTwice(r)
       PROVE  KeyStep
  <2>1. /\ pc[r] = "sent" /\ pc' = [pc EXCEPT ![r] = "over"] /\ entry' = entry
        /\ UNCHANGED <<fp, claim, wrote, answer>>
    BY <1>0, <1>15 DEF SendTwice, Goto, Repeated, Stored
  <2> QED
    BY <1>7, <2>1 DEF InHandler, KeptBy, TypeOK
<1>16. ASSUME NEW r \in Req, Die(r)
       PROVE  KeyStep
  <2>1. /\ pc[r] # "new" /\ pc' = [pc EXCEPT ![r] = "dead"] /\ UNCHANGED <<entry, fp, claim, answer>>
        /\ wrote' \in {wrote, wrote \cup {r}} /\ KeptBy' = KeptBy /\ ~InHandler(r)'
    BY <1>16 DEF Die, Goto, KeptBy, InHandler, TypeOK
  <2>2. CASE InHandler(r)
    <3>1. Running' = Running \ {r} /\ Told' = Told /\ r \in Running
      BY <2>1, <2>2, Seen DEF Running
    <3>2. Key!Drop(r)
      BY <2>1, <3>1 DEF Key!Drop, Running, Told
    <3> QED
      BY <3>2 DEF KeyStep, Key!Next
  <2>3. CASE ~InHandler(r)
    <3>1. Running' = Running /\ Told' = Told
      BY <2>1, <2>3, Seen DEF TypeOK
    <3>2. CASE wrote' = wrote
      BY <2>1, <3>1, <3>2, NothingSeen
    <3>3. CASE wrote' = wrote \cup {r}
      <4>1. Key!Land(r)
        BY <2>1, <3>1, <3>3 DEF Key!Land, Running, Told
      <4> QED
        BY <4>1 DEF KeyStep, Key!Next
    <3> QED
      BY <2>1, <3>2, <3>3
  <2> QED
    BY <2>2, <2>3
<1>17. CASE Expire \/ RedisDown \/ RedisUp \/ UNCHANGED vars
  <2>1. UNCHANGED <<pc, fp, claim, wrote, answer>> /\ KeptBy' = KeptBy
    BY <1>17 DEF Expire, Lapses, RedisDown, RedisUp, KeptBy, vars
  <2>2. Running' = Running /\ Told' = Told
    BY <2>1 DEF Running, Told, InHandler
  <2> QED
    BY <2>1, <2>2, NothingSeen
<1> QED
  BY <1>4, <1>8, <1>9, <1>10, <1>11, <1>12, <1>13, <1>14, <1>15, <1>16, <1>17 DEF Next, Step

\* Seen by its callers the key is a kept answer (idempotency.ts:4-26): every step of the
\* code is one of the abstract specification's, or none.
THEOREM ImplementsKeptAnswer == Prompt /\ Spec => KeySpec
<1>1. Init => Key!Init
  BY DEF Init, Key!Init, InHandler, KeptBy, Answer
<1>2. TypeOK /\ IInv /\ Prompt /\ [Next]_vars => [Key!Next]_(Key!keyVars)
  BY KeySteps DEF KeyStep
<1> QED
  BY <1>1, <1>2, InvariantHolds, PromptStays, PTL DEF Spec, KeySpec, Key!Spec
-----------------------------------------------------------------------------
(* The double-fire guard: moves of one record.                             *)

W == INSTANCE Workflow

\* What a worker has to do with a move, by where it is.
Fit ==
  \A w \in Worker :
    /\ at[w] \in {"gated", "claimed", "release"} => move[w] \in W!Manual
    /\ at[w] = "record" => move[w] \in Automatic
    /\ at[w] \in W!Flying => move[w] \in Transition
    /\ at[w] \in {"idle", "look", "match"} => move[w] = Nil

\* A request past the guard holds its claim until it is done.
Past == {"claimed", "release"} \cup W!Flying

Owner == \A w \in Worker : at[w] \in Past /\ move[w] \in W!Manual => claims[move[w]] = w

\* A request that was beaten stands before the guard, which is shut, and whoever beat
\* it has made the move.
Beaten ==
  \A w \in Worker : beaten[w] =>
    /\ at[w] = "gated" /\ claims[move[w]] # Nil
    /\ \A x \in Worker : at[x] \in Past /\ move[x] = move[w] => at[x] \in {"clear", "history"}

Flights(p) == {w \in Worker : Home[w] = p /\ at[w] \in W!Flying}

MInv == W!TypeOK /\ Fit /\ W!FlightsCounted

\* The instance counts as this module does.
LEMMA Counts == \A S : W!Cardinality(S) = Cardinality(S) /\ (W!IsFiniteSet(S) <=> IsFiniteSet(S))
BY DEF W!Cardinality, Cardinality, W!IsFiniteSet, IsFiniteSet

LEMMA AssumedHere == W!WorkflowAssumption
BY WorkflowAssumption, Counts DEF W!WorkflowAssumption

LEMMA CountIs ==
  W!FlightsCounted <=> \A p \in Process : inFlight[p] = Cardinality(Flights(p))
BY Counts DEF W!FlightsCounted, Flights

LEMMA CountNext ==
  W!FlightsCounted' <=> \A p \in Process : inFlight'[p] = Cardinality(Flights(p)')
BY Counts DEF W!FlightsCounted, Flights

\* What an action that moves one worker on leaves alone.
LEMMA AtIs ==
  ASSUME W!TypeOK, NEW w \in Worker, NEW a, NEW t, NEW s, NEW h, W!At(w, a, t, s, h),
         a \in {"idle", "gated", "claimed", "release", "look", "match", "record"} \cup W!Flying,
         t \in Transition \cup {Nil}, s \in State \cup {Nil}, h \in 0 .. Hops
  PROVE  /\ at' = [at EXCEPT ![w] = a] /\ move' = [move EXCEPT ![w] = t]
         /\ at' \in [Worker -> {"idle", "gated", "claimed", "release", "look", "match", "record"}
                                 \cup W!Flying]
         /\ move' \in [Worker -> Transition \cup {Nil}]
         /\ seen' \in [Worker -> State \cup {Nil}] /\ hops' \in [Worker -> 0 .. Hops]
         /\ at'[w] = a /\ move'[w] = t
         /\ \A x \in Worker : x # w => at'[x] = at[x] /\ move'[x] = move[x]
BY DEF W!TypeOK, W!At

\* Fit is about each worker alone.
LEMMA FitKept ==
  ASSUME Fit, NEW w \in Worker, at'[w] \in {"idle", "look", "match"} => move'[w] = Nil,
         at'[w] \in {"gated", "claimed", "release"} => move'[w] \in W!Manual,
         at'[w] = "record" => move'[w] \in Automatic,
         at'[w] \in W!Flying => move'[w] \in Transition,
         \A x \in Worker : x # w => at'[x] = at[x] /\ move'[x] = move[x]
  PROVE  Fit'
BY DEF Fit, W!Manual, W!Flying

\* The count, as a worker takes off, lands, or does neither.
LEMMA Counting ==
  ASSUME W!WorkflowAssumption, W!TypeOK, W!FlightsCounted, NEW w \in Worker,
         \A x \in Worker : x # w => at'[x] = at[x],
         \/ inFlight' = inFlight /\ (at[w] \in W!Flying <=> at'[w] \in W!Flying)
         \/ /\ inFlight' = [inFlight EXCEPT ![Home[w]] = @ + 1]
            /\ at[w] \notin W!Flying /\ at'[w] \in W!Flying
         \/ W!Land(w) /\ at[w] \in W!Flying /\ at'[w] \notin W!Flying
  PROVE  W!FlightsCounted' /\ inFlight' \in [Process -> Nat]
<1>1. /\ inFlight \in [Process -> Nat] /\ Home[w] \in Process
      /\ \A p \in Process : inFlight[p] = Cardinality(Flights(p)) /\ IsFiniteSet(Flights(p))
  <2>1. \A p \in Process : Flights(p) \subseteq Worker
    BY DEF Flights
  <2> QED
    BY <2>1, FS_Subset, Counts, CountIs DEF W!WorkflowAssumption, W!TypeOK
<1>2. \A p \in Process : p # Home[w] => Flights(p)' = Flights(p)
  BY DEF Flights
<1>3. CASE inFlight' = inFlight /\ (at[w] \in W!Flying <=> at'[w] \in W!Flying)
  <2>1. \A p \in Process : Flights(p)' = Flights(p)
    BY <1>3 DEF Flights
  <2> QED
    BY <1>1, <1>3, <2>1, CountNext
<1>4. CASE /\ inFlight' = [inFlight EXCEPT ![Home[w]] = @ + 1]
           /\ at[w] \notin W!Flying /\ at'[w] \in W!Flying
  <2>1. Flights(Home[w])' = Flights(Home[w]) \cup {w} /\ w \notin Flights(Home[w])
    BY <1>4 DEF Flights
  <2>2. Cardinality(Flights(Home[w])') = Cardinality(Flights(Home[w])) + 1
    BY <1>1, <2>1, FS_AddElement
  <2> QED
    BY <1>1, <1>2, <1>4, <2>2, CountNext, FS_CardinalityType
<1>5. CASE W!Land(w) /\ at[w] \in W!Flying /\ at'[w] \notin W!Flying
  <2>1. Flights(Home[w])' = Flights(Home[w]) \ {w} /\ w \in Flights(Home[w])
    BY <1>5 DEF Flights
  <2>2. /\ Cardinality(Flights(Home[w])') = Cardinality(Flights(Home[w])) - 1
        /\ Cardinality(Flights(Home[w])') \in Nat
    BY <1>1, <2>1, FS_RemoveElement, FS_CardinalityType
  <2>3. inFlight' = [inFlight EXCEPT ![Home[w]] = @ - 1] /\ inFlight[Home[w]] - 1 \in Nat
    <3>1. PICK n \in Nat : n = inFlight[Home[w]] /\ n = Cardinality(Flights(Home[w]))
      BY <1>1
    <3>2. n - 1 \in Nat
      BY <2>2, <3>1
    <3>3. n > 0
      BY <3>1, <3>2
    <3>4. inFlight' = [inFlight EXCEPT ![Home[w]] = IF @ > 0 THEN @ - 1 ELSE 0]
      BY <1>5 DEF W!Land
    <3> QED
      BY <1>1, <3>1, <3>2, <3>3, <3>4
  <2> QED
    BY <1>1, <1>2, <2>2, <2>3, CountNext
<1> QED
  BY <1>3, <1>4, <1>5

Places == {"idle", "gated", "claimed", "release", "look", "match", "record"} \cup W!Flying

Suits(a, t) ==
  /\ a \in {"idle", "look", "match"} => t = Nil
  /\ a \in {"gated", "claimed", "release"} => t \in W!Manual
  /\ a = "record" => t \in Automatic
  /\ a \in W!Flying => t \in Transition

\* One worker moves on; the rest of the state keeps its types.
LEMMA Advance ==
  ASSUME W!WorkflowAssumption, MInv, NEW w \in Worker,
         NEW a \in Places, NEW t \in Transition \cup {Nil}, NEW s \in State \cup {Nil},
         NEW h \in 0 .. Hops, W!At(w, a, t, s, h), Suits(a, t),
         \/ inFlight' = inFlight /\ (at[w] \in W!Flying <=> a \in W!Flying)
         \/ /\ inFlight' = [inFlight EXCEPT ![Home[w]] = @ + 1]
            /\ at[w] \notin W!Flying /\ a \in W!Flying
         \/ W!Land(w) /\ at[w] \in W!Flying /\ a \notin W!Flying,
         state' \in State, value' \in Value, claims' \in [W!Manual -> Worker \cup {Nil}],
         memory' \in [Automatic -> W!Refusal \cup {Nil}], beaten' \in [Worker -> BOOLEAN],
         asks' \in Nat, events' \in Nat
  PROVE  MInv'
<1>1. /\ at'[w] = a /\ move'[w] = t
      /\ at' \in [Worker -> Places] /\ move' \in [Worker -> Transition \cup {Nil}]
      /\ seen' \in [Worker -> State \cup {Nil}] /\ hops' \in [Worker -> 0 .. Hops]
      /\ \A x \in Worker : x # w => at'[x] = at[x] /\ move'[x] = move[x]
  BY DEF MInv, W!TypeOK, W!At, Places
<1>2. Fit'
  BY <1>1, FitKept DEF MInv, Suits
<1>3. W!FlightsCounted' /\ inFlight' \in [Process -> Nat]
  BY <1>1, Counting DEF MInv
<1>4. W!TypeOK'
  BY <1>1, <1>3 DEF W!TypeOK, Places
<1> QED
  BY <1>2, <1>3, <1>4 DEF MInv

\* Types, places and the count survive every step.
LEMMA MovesTyped ==
  ASSUME W!WorkflowAssumption, MInv, [W!Next]_W!vars
  PROVE  MInv'
<1>1. /\ W!TypeOK /\ Fit /\ Hops \in Nat \ {0} /\ 0 \in 0 .. Hops /\ Hops \in 0 .. Hops
      /\ Failed \in [Value -> Value] /\ To \in [Transition -> State] /\ Nil \notin Transition
      /\ Automatic \subseteq Transition
      /\ Home \in [Worker -> Process]
  BY DEF MInv, W!WorkflowAssumption
<1>2. ASSUME NEW w \in Worker, NEW t \in Transition, W!Ask(w, t)
      PROVE  MInv'
  <2>1. W!At(w, "gated", t, Nil, 0) /\ Suits("gated", t) /\ at[w] = "idle"
    BY <1>2 DEF W!Ask, Suits, W!Flying
  <2>2. "gated" \notin W!Flying /\ at[w] \notin W!Flying /\ "gated" \in Places /\ asks' \in Nat
    BY <1>1, <1>2, <2>1 DEF W!Ask, W!TypeOK, Places, W!Flying
  <2> QED
    BY <1>1, <1>2, <2>1, <2>2, Advance DEF W!Ask, W!TypeOK
<1>3. ASSUME NEW w \in Worker, W!claimTransition(w)
      PROVE  MInv'
  <2>1. at[w] = "gated" /\ move[w] \in W!Manual /\ move[w] \in Transition /\ hops[w] \in 0 .. Hops
    BY <1>1, <1>3 DEF W!claimTransition, Fit, W!Manual, W!TypeOK
  <2>2. CASE claims[move[w]] = Nil
    <3>1. W!At(w, "claimed", move[w], Nil, hops[w]) /\ Suits("claimed", move[w])
      BY <1>3, <2>1, <2>2 DEF W!claimTransition, W!Goto, Suits, W!Flying
    <3>2. claims' \in [W!Manual -> Worker \cup {Nil}]
      BY <1>1, <1>3, <2>1, <2>2 DEF W!claimTransition, W!TypeOK
    <3>3. "claimed" \notin W!Flying /\ "gated" \notin W!Flying /\ "claimed" \in Places
      BY DEF W!Flying, Places
    <3> QED
      BY <1>1, <1>3, <2>1, <2>2, <3>1, <3>2, <3>3, Advance DEF W!claimTransition, W!bounds, W!TypeOK
  <2>3. CASE claims[move[w]] # Nil
    <3>1. W!At(w, "idle", Nil, Nil, 0) /\ Suits("idle", Nil)
      BY <1>3, <2>3 DEF W!claimTransition, W!Done, Suits, W!Flying
    <3> QED
      BY <1>1, <1>3, <2>1, <2>3, <3>1, Advance
         DEF W!claimTransition, W!bounds, W!TypeOK, Places, W!Flying
  <2> QED
    BY <2>2, <2>3
<1>4. ASSUME NEW w \in Worker, NEW t \in Transition, W!TakeOff(w, t), at[w] \notin W!Flying,
             memory' \in [Automatic -> W!Refusal \cup {Nil}],
             UNCHANGED <<state, value, claims, beaten, asks, events>>
      PROVE  MInv'
  <2>1. PICK a \in {"send", "move"} : W!At(w, a, t, Nil, hops[w])
    BY <1>4 DEF W!TakeOff
  <2>2. Suits(a, t) /\ a \in W!Flying /\ a \in Places
    BY <2>1 DEF Suits, W!Flying, Places
  <2>3. hops[w] \in 0 .. Hops /\ inFlight' = [inFlight EXCEPT ![Home[w]] = @ + 1]
    BY <1>1, <1>4 DEF W!TypeOK, W!TakeOff
  <2> QED
    BY <1>1, <1>4, <2>1, <2>2, <2>3, Advance DEF W!TypeOK
<1>5. ASSUME NEW w \in Worker, W!clearAutoFailures(w)
      PROVE  MInv'
  <2>1. at[w] \notin W!Flying /\ move[w] \in Transition /\ W!TakeOff(w, move[w])
    BY <1>1, <1>5 DEF W!clearAutoFailures, W!Flying, Fit, W!Manual
  <2> QED
    BY <1>4, <1>5, <2>1 DEF W!clearAutoFailures, W!bounds
<1>6. ASSUME NEW w \in Worker, W!Match(w)
      PROVE  MInv'
  <2>1. at[w] \notin W!Flying
    BY <1>6 DEF W!Match, W!Flying
  <2>2. CASE W!Done(w) /\ UNCHANGED <<memory, inFlight>>
    <3>1. W!At(w, "idle", Nil, Nil, 0) /\ Suits("idle", Nil)
      BY <2>2 DEF W!Done, Suits, W!Flying
    <3> QED
      BY <1>1, <1>6, <2>1, <2>2, <3>1, Advance DEF W!Match, W!bounds, W!TypeOK, Places, W!Flying
  <2>3. ASSUME NEW t \in W!Candidate(seen[w], value), W!TakeOff(w, t),
               memory' = IF W!Waits(t, value) THEN memory ELSE [memory EXCEPT ![t] = Nil]
        PROVE  MInv'
    <3>1. t \in Transition
      BY <1>1 DEF W!Candidate, W!Passing
    <3>2. memory' \in [Automatic -> W!Refusal \cup {Nil}]
      BY <1>1, <2>3 DEF W!TypeOK
    <3> QED
      BY <1>4, <1>6, <2>1, <2>3, <3>1, <3>2 DEF W!Match, W!bounds
  <2> QED
    BY <1>6, <2>2, <2>3 DEF W!Match
<1>7. ASSUME NEW w \in Worker, W!Accepted(w) \/ W!Move(w) \/ W!Clear(w)
      PROVE  MInv'
  <2>1. at[w] \in W!Flying /\ move[w] \in Transition /\ hops[w] \in 0 .. Hops
    BY <1>1, <1>7 DEF W!Accepted, W!Move, W!Clear, W!Flying, Fit, W!TypeOK
  <2>2. PICK a \in {"move", "clear", "history"} : W!At(w, a, move[w], Nil, hops[w])
    BY <1>7 DEF W!Accepted, W!Move, W!Clear, W!Goto
  <2>3. Suits(a, move[w]) /\ a \in W!Flying /\ a \in Places
    BY <2>1, <2>2 DEF Suits, W!Flying, Places
  <2>4. /\ inFlight' = inFlight /\ state' \in State
        /\ UNCHANGED <<value, claims, asks, events>>
        /\ beaten' \in [Worker -> BOOLEAN]
        /\ memory' \in [Automatic -> W!Refusal \cup {Nil}]
    <3>1. CASE W!Accepted(w) \/ W!Clear(w)
      BY <1>1, <3>1 DEF W!Accepted, W!Clear, W!bounds, W!TypeOK
    <3>2. CASE W!Move(w)
      <4>1. \A x \in Worker : beaten[x] \in BOOLEAN
        BY <1>1 DEF W!TypeOK
      <4> QED
        BY <1>1, <2>1, <3>2, <4>1 DEF W!Move, W!bounds, W!TypeOK
    <3> QED
      BY <1>7, <3>1, <3>2
  <2> QED
    BY <1>1, <2>1, <2>2, <2>3, <2>4, Advance DEF W!TypeOK
<1>8. ASSUME NEW w \in Worker, W!Blocked(w)
      PROVE  MInv'
  <2>1. at[w] \in W!Flying /\ move[w] \in Transition /\ hops[w] \in 0 .. Hops
    BY <1>1, <1>8 DEF W!Blocked, W!Flying, Fit, W!TypeOK
  <2>2. PICK a \in {"record", "release"} : /\ W!At(w, a, move[w], Nil, hops[w])
                                           /\ a = "record" <=> move[w] \in Automatic
    BY <1>8 DEF W!Blocked, W!Goto
  <2>3. Suits(a, move[w]) /\ a \notin W!Flying /\ a \in Places
    BY <2>1, <2>2 DEF Suits, W!Flying, Places, W!Manual
  <2> QED
    BY <1>1, <1>8, <2>1, <2>2, <2>3, Advance DEF W!Blocked, W!bounds, W!TypeOK
<1>9. ASSUME NEW w \in Worker, W!Finish(w)
      PROVE  MInv'
  <2>1. at[w] \in W!Flying /\ hops[w] \in 0 .. Hops /\ W!Land(w)
    BY <1>1, <1>9 DEF W!Finish, W!Flying, W!TypeOK
  <2>2. PICK a \in {"idle", "look"}, h \in 0 .. Hops : W!At(w, a, Nil, Nil, h)
    <3>1. \/ W!At(w, "idle", Nil, Nil, 0) \/ W!At(w, "look", Nil, Nil, Hops)
          \/ hops[w] > 1 /\ W!At(w, "look", Nil, Nil, hops[w] - 1)
      BY <1>9 DEF W!Finish, W!Evaluate, W!Done
    <3>2. hops[w] > 1 => hops[w] - 1 \in 0 .. Hops
      BY <1>1, <2>1
    <3> QED
      BY <1>1, <3>1, <3>2
  <2>3. Suits(a, Nil) /\ a \notin W!Flying /\ a \in Places
    BY <2>2 DEF Suits, W!Flying, Places
  <2> QED
    BY <1>1, <1>9, <2>1, <2>2, <2>3, Advance DEF W!Finish, W!bounds, W!TypeOK
<1>10. ASSUME NEW w \in Worker, W!Release(w)
       PROVE  MInv'
  <2>1. /\ at[w] = "release" /\ W!At(w, "idle", Nil, Nil, 0) /\ Suits("idle", Nil)
        /\ at[w] \notin W!Flying /\ "idle" \notin W!Flying
    BY <1>10 DEF W!Release, W!Done, Suits, W!Flying
  <2> QED
    BY <1>1, <1>10, <2>1, Advance DEF W!Release, W!bounds, W!TypeOK, Places
<1>11. ASSUME NEW w \in Worker, W!Look(w)
       PROVE  MInv'
  <2>1. PICK a \in {"idle", "match"}, s \in State \cup {Nil}, h \in 0 .. Hops :
          W!At(w, a, Nil, s, h)
    BY <1>1, <1>11 DEF W!Look, W!Done, W!TypeOK
  <2>2. Suits(a, Nil) /\ a \notin W!Flying /\ a \in Places /\ at[w] \notin W!Flying
    BY <1>11, <2>1 DEF W!Look, Suits, W!Flying, Places
  <2> QED
    BY <1>1, <1>11, <2>1, <2>2, Advance DEF W!Look, W!bounds, W!TypeOK
<1>12. ASSUME NEW w \in Worker, W!recordAutoFailure(w)
       PROVE  MInv'
  <2>1. /\ at[w] = "record" /\ W!At(w, "idle", Nil, Nil, 0) /\ Suits("idle", Nil)
        /\ at[w] \notin W!Flying /\ "idle" \notin W!Flying /\ move[w] \in Automatic
    BY <1>1, <1>12 DEF W!recordAutoFailure, W!Done, Suits, W!Flying, Fit
  <2>2. memory' \in [Automatic -> W!Refusal \cup {Nil}]
    <3>1. PICK m : m = memory[move[w]] /\ m \in W!Refusal \cup {Nil}
      BY <1>1, <2>1 DEF W!TypeOK
    <3>2. PICK n \in Nat : n = IF m = Nil THEN 1 ELSE m.tries + 1
      BY <3>1 DEF W!Refusal
    <3>3. [value |-> value, tries |-> n] \in W!Refusal
      BY <1>1 DEF W!TypeOK, W!Refusal
    <3>4. memory' = [memory EXCEPT ![move[w]] = [value |-> value, tries |-> n]]
      BY <1>12, <3>1, <3>2 DEF W!recordAutoFailure
    <3> QED
      BY <1>1, <3>3, <3>4 DEF W!TypeOK
  <2> QED
    BY <1>1, <1>12, <2>1, <2>2, Advance DEF W!recordAutoFailure, W!bounds, W!TypeOK, Places
<1>13. ASSUME NEW w \in Worker, NEW v \in Value, W!sweepAutoTransitions(w) \/ W!Edit(w, v)
       PROVE  MInv'
  <2>1. /\ at[w] = "idle" /\ inFlight' = inFlight /\ value' \in Value /\ events' \in Nat
        /\ UNCHANGED <<state, claims, memory, beaten, asks>>
    BY <1>1, <1>13 DEF W!sweepAutoTransitions, W!Edit, W!bounds, W!TypeOK
  <2>2. PICK a \in {"idle", "look"}, h \in 0 .. Hops : W!At(w, a, Nil, Nil, h)
    BY <1>1, <1>13 DEF W!sweepAutoTransitions, W!Edit, W!Evaluate, W!Done
  <2>3. Suits(a, Nil) /\ a \notin W!Flying /\ a \in Places /\ at[w] \notin W!Flying
    BY <2>1, <2>2 DEF Suits, W!Flying, Places
  <2> QED
    BY <1>1, <2>1, <2>2, <2>3, Advance DEF W!TypeOK
<1>14. ASSUME NEW t \in W!Manual, W!Expire(t)
       PROVE  MInv'
  <2>1. /\ at' = at /\ move' = move /\ inFlight' = inFlight /\ state' = state /\ value' = value
        /\ memory' = memory /\ seen' = seen /\ hops' = hops /\ beaten' = beaten
        /\ asks' = asks /\ events' = events
        /\ claims' = [claims EXCEPT ![t] = Nil]
    BY <1>14 DEF W!Expire, W!bounds
  <2>2. W!TypeOK' /\ Fit'
    BY <1>1, <2>1 DEF W!TypeOK, Fit
  <2>3. W!FlightsCounted'
    BY <2>1, CountIs, CountNext DEF MInv, Flights
  <2> QED
    BY <2>2, <2>3 DEF MInv
<1>15. ASSUME NEW p \in Process, W!Crash(p)
       PROVE  MInv'
  <2>1. /\ inFlight' = [inFlight EXCEPT ![p] = 0]
        /\ at' = [w \in Worker |-> IF Home[w] = p THEN "idle" ELSE at[w]]
        /\ move' = [w \in Worker |-> IF Home[w] = p THEN Nil ELSE move[w]]
        /\ seen' = [w \in Worker |-> IF Home[w] = p THEN Nil ELSE seen[w]]
        /\ hops' = [w \in Worker |-> IF Home[w] = p THEN 0 ELSE hops[w]]
        /\ beaten' = [w \in Worker |-> Home[w] # p /\ beaten[w]]
        /\ events' = events + 1 /\ UNCHANGED <<state, value, claims, memory, asks>>
    BY <1>15 DEF W!Crash
  <2>2. W!TypeOK'
    <3>1. \A w \in Worker : (Home[w] # p /\ beaten[w]) \in BOOLEAN
      OBVIOUS
    <3> QED
      BY <1>1, <2>1, <3>1 DEF W!TypeOK
  <2>3. Fit'
    BY <1>1, <2>1 DEF Fit, W!Flying
  <2>4. W!FlightsCounted'
    <3>1. Flights(p)' = {}
      BY <1>1, <2>1 DEF Flights, W!Flying
    <3>2. \A q \in Process : q # p => Flights(q)' = Flights(q)
      BY <1>1, <2>1 DEF Flights
    <3>3. Cardinality({}) = 0
      BY FS_EmptySet
    <3>4. inFlight \in [Process -> Nat]
      BY <1>1 DEF W!TypeOK
    <3> QED
      BY <2>1, <3>1, <3>2, <3>3, <3>4, CountIs, CountNext DEF MInv
  <2> QED
    BY <2>2, <2>3, <2>4 DEF MInv
<1>16. CASE UNCHANGED W!vars
  <2>1. W!TypeOK' /\ Fit'
    BY <1>1, <1>16 DEF W!vars, W!TypeOK, Fit
  <2>2. W!FlightsCounted'
    BY <1>16, CountIs, CountNext DEF MInv, Flights, W!vars
  <2> QED
    BY <2>1, <2>2 DEF MInv
<1> QED
  BY <1>1, <1>2, <1>3, <1>5, <1>6, <1>7, <1>8, <1>9, <1>10, <1>11, <1>12, <1>13, <1>14, <1>15, <1>16
     DEF W!Next, W!Step, W!TypeOK

\* One worker moves on, and neither the guard nor who is beaten changes; a worker past the
\* guard goes no way back, and one that comes past it makes an automatic move.
LEMMA Passes ==
  ASSUME W!WorkflowAssumption, MInv, Owner, Beaten, NEW w \in Worker, MInv', claims' = claims,
         beaten' = beaten \/ beaten' = [beaten EXCEPT ![w] = FALSE],
         \A x \in Worker : x # w => at'[x] = at[x] /\ move'[x] = move[x],
         at[w] # "gated" \/ ~beaten'[w],
         at'[w] \in Past =>
           \/ move'[w] \in Automatic
           \/ at[w] \in Past /\ move'[w] = move[w] /\ at[w] # "clear"
              /\ (at[w] # "history")
           \/ at'[w] = "history" /\ at[w] = "clear" /\ move'[w] = move[w]
  PROVE  Owner' /\ Beaten'
<1>1. /\ beaten \in [Worker -> BOOLEAN] /\ Fit /\ Automatic \subseteq Transition
  BY DEF MInv, W!TypeOK, W!WorkflowAssumption
<1>2. Owner'
  BY DEF Owner, W!Manual, Past, W!Flying
<1>3. \A x \in Worker : beaten'[x] => beaten[x] /\ x # w
  BY <1>1 DEF Beaten
<1>4. Beaten'
  <2> SUFFICES ASSUME NEW x \in Worker, beaten'[x]
               PROVE  /\ at'[x] = "gated" /\ claims'[move'[x]] # Nil
                      /\ \A y \in Worker : at'[y] \in Past /\ move'[y] = move'[x]
                                           => at'[y] \in {"clear", "history"}
    BY DEF Beaten
  <2>1. /\ beaten[x] /\ x # w /\ at'[x] = at[x] /\ move'[x] = move[x] /\ at[x] = "gated"
        /\ move[x] \in W!Manual /\ claims[move[x]] # Nil
    BY <1>1, <1>3 DEF Beaten, Fit
  <2>2. ASSUME NEW y \in Worker, at'[y] \in Past, move'[y] = move'[x]
        PROVE  at'[y] \in {"clear", "history"}
    <3>1. CASE y = w
      BY <2>1, <2>2, <3>1 DEF Beaten, W!Manual
    <3>2. CASE y # w
      BY <2>1, <2>2, <3>2 DEF Beaten
    <3> QED
      BY <3>1, <3>2
  <2> QED
    BY <2>1, <2>2
<1> QED
  BY <1>2, <1>4

\* As long as no request outlives its claim, the guard tells twins apart.
LEMMA Guarded ==
  ASSUME W!WorkflowAssumption, Timely, MInv, Owner, Beaten, [W!Next]_W!vars
  PROVE  Owner' /\ Beaten'
<1>1. /\ W!TypeOK /\ Fit /\ Nil \notin Transition /\ Nil \notin Worker /\ MInv'
      /\ Automatic \subseteq Transition
      /\ \A x \in Worker : beaten[x] => at[x] = "gated"
      /\ at \in [Worker -> Places] /\ move \in [Worker -> Transition \cup {Nil}]
      /\ beaten \in [Worker -> BOOLEAN] /\ claims \in [W!Manual -> Worker \cup {Nil}]
  BY MovesTyped DEF MInv, W!WorkflowAssumption, Beaten, W!TypeOK, Places
<1>2. ASSUME NEW w \in Worker, NEW t \in Transition, W!Ask(w, t)
      PROVE  Owner' /\ Beaten'
  <2>1. /\ at' = [at EXCEPT ![w] = "gated"] /\ move' = [move EXCEPT ![w] = t]
        /\ at[w] = "idle" /\ claims' = claims /\ beaten' = beaten
    BY <1>2 DEF W!Ask, W!At
  <2> QED
    BY <1>1, <2>1, Passes DEF Past, W!Flying
<1>3. ASSUME NEW w \in Worker, W!claimTransition(w)
      PROVE  Owner' /\ Beaten'
  <2>1. at[w] = "gated" /\ move[w] \in W!Manual
    BY <1>1, <1>3 DEF W!claimTransition, Fit
  <2>2. CASE claims[move[w]] = Nil
    <3>1. /\ at' = [at EXCEPT ![w] = "claimed"] /\ move' = [move EXCEPT ![w] = move[w]]
          /\ claims' = [claims EXCEPT ![move[w]] = w] /\ beaten' = beaten
      BY <1>3, <2>2 DEF W!claimTransition, W!Goto, W!At
    <3>2. \A x \in Worker : x # w /\ at[x] \in Past => move[x] # move[w]
      BY <1>1, <2>1, <2>2 DEF Owner
    <3>3. Owner'
      BY <1>1, <2>1, <3>1, <3>2 DEF Owner
    <3>4. \A x \in Worker : beaten[x] => x # w /\ move[x] # move[w] /\ move[x] \in W!Manual
      BY <1>1, <2>2 DEF Beaten, Fit
    <3>5. Beaten'
      BY <1>1, <2>1, <3>1, <3>4 DEF Beaten
    <3> QED
      BY <3>3, <3>5
  <2>3. CASE claims[move[w]] # Nil
    <3>1. /\ at' = [at EXCEPT ![w] = "idle"] /\ move' = [move EXCEPT ![w] = Nil]
          /\ claims' = claims /\ beaten' = [beaten EXCEPT ![w] = FALSE]
      BY <1>3, <2>3 DEF W!claimTransition, W!Done, W!At
    <3> QED
      BY <1>1, <3>1, Passes DEF Past, W!Flying
  <2> QED
    BY <2>2, <2>3
<1>4. ASSUME NEW w \in Worker, W!clearAutoFailures(w) \/ W!Accepted(w) \/ W!Clear(w)
      PROVE  Owner' /\ Beaten'
  <2>1. PICK a \in {"send", "move", "history"} :
          /\ at' = [at EXCEPT ![w] = a] /\ move' = [move EXCEPT ![w] = move[w]]
          /\ at[w] \in {"claimed", "send", "clear"} /\ (a = "history" <=> at[w] = "clear")
          /\ claims' = claims /\ beaten' = beaten
    BY <1>4 DEF W!clearAutoFailures, W!Accepted, W!Clear, W!TakeOff, W!Goto, W!At
  <2> QED
    BY <1>1, <2>1, Passes DEF Past, W!Flying
<1>5. ASSUME NEW w \in Worker, W!Match(w)
      PROVE  Owner' /\ Beaten'
  <2>1. PICK a \in {"idle", "send", "move"}, t \in Automatic \cup {Nil} :
          /\ at' = [at EXCEPT ![w] = a] /\ move' = [move EXCEPT ![w] = t] /\ at[w] = "match"
          /\ (a # "idle" => t \in Automatic) /\ claims' = claims /\ beaten' = beaten
    <3>1. CASE W!Done(w)
      BY <1>5, <3>1 DEF W!Match, W!Done, W!At
    <3>2. ASSUME NEW t \in W!Candidate(seen[w], value), W!TakeOff(w, t)
          PROVE  \E a \in {"send", "move"} :
                   /\ t \in Automatic /\ at' = [at EXCEPT ![w] = a] /\ move' = [move EXCEPT ![w] = t]
                   /\ at[w] = "match" /\ claims' = claims /\ beaten' = beaten
      BY <1>5, <3>2 DEF W!Match, W!Candidate, W!Passing, W!TakeOff, W!At
    <3> QED
      BY <1>5, <3>1, <3>2 DEF W!Match
  <2> QED
    BY <1>1, <2>1, Passes DEF Past, W!Flying
<1>6. ASSUME NEW w \in Worker, W!Blocked(w)
      PROVE  Owner' /\ Beaten'
  <2>1. PICK a \in {"record", "release"} :
          /\ at' = [at EXCEPT ![w] = a] /\ move' = [move EXCEPT ![w] = move[w]] /\ at[w] = "send"
          /\ claims' = claims /\ beaten' = [beaten EXCEPT ![w] = FALSE]
    BY <1>6 DEF W!Blocked, W!Goto, W!At
  <2> QED
    BY <1>1, <2>1, Passes DEF Past, W!Flying
<1>7. ASSUME NEW w \in Worker, W!Move(w)
      PROVE  Owner' /\ Beaten'
  <2>1. /\ at' = [at EXCEPT ![w] = "clear"] /\ move' = [move EXCEPT ![w] = move[w]]
        /\ at[w] = "move" /\ claims' = claims
        /\ beaten' = [x \in Worker |-> IF x = w THEN FALSE
                                       ELSE beaten[x] \/ x \in W!Twins(w, move[w])]
    BY <1>7 DEF W!Move, W!Goto, W!At
  <2>2. Owner'
    BY <1>1, <2>1 DEF Owner, Past, W!Flying
  <2>3. \A x \in Worker : (at'[x] \in Past /\ at[x] \in Past) \/ at'[x] = at[x]
    BY <1>1, <2>1 DEF Past, W!Flying
  <2>4. Beaten'
    <3> SUFFICES ASSUME NEW x \in Worker, beaten'[x]
                 PROVE  /\ at'[x] = "gated" /\ claims'[move'[x]] # Nil
                        /\ \A y \in Worker : at'[y] \in Past /\ move'[y] = move'[x]
                                             => at'[y] \in {"clear", "history"}
      BY DEF Beaten
    <3>1. x # w /\ at'[x] = at[x] /\ move'[x] = move[x]
      BY <1>1, <2>1
    <3>2. CASE beaten[x]
      BY <1>1, <2>1, <3>1, <3>2 DEF Beaten, Past
    <3>3. CASE x \in W!Twins(w, move[w])
      <4>1. at[x] # "idle" /\ move[x] = move[w] /\ move[w] \in W!Manual /\ claims[move[w]] = w
        BY <2>1, <3>3 DEF W!Twins, Owner, Past, W!Flying
      <4>2. at[x] \notin Past
        BY <3>1, <4>1 DEF Owner
      <4>3. at[x] = "gated"
        BY <1>1, <4>1, <4>2 DEF Fit, Past, Places, W!Manual
      <4>4. \A y \in Worker : at[y] \in Past /\ move[y] = move[w] => y = w
        BY <4>1 DEF Owner
      <4> QED
        BY <1>1, <2>1, <3>1, <4>1, <4>3, <4>4 DEF Past, W!Flying
    <3> QED
      BY <2>1, <3>1, <3>2, <3>3
  <2> QED
    BY <2>2, <2>4
<1>8. ASSUME NEW w \in Worker, NEW v \in Value,
             \/ W!Finish(w) \/ W!Look(w) \/ W!recordAutoFailure(w)
             \/ W!sweepAutoTransitions(w) \/ W!Edit(w, v)
      PROVE  Owner' /\ Beaten'
  <2>1. PICK a \in {"idle", "look", "match"} :
          /\ at' = [at EXCEPT ![w] = a] /\ move' = [move EXCEPT ![w] = Nil] /\ at[w] # "gated"
          /\ claims' = claims /\ (beaten' = beaten \/ beaten' = [beaten EXCEPT ![w] = FALSE])
    BY <1>8 DEF W!Finish, W!Look, W!recordAutoFailure, W!sweepAutoTransitions, W!Edit, W!Evaluate,
                W!Done, W!At
  <2> QED
    BY <1>1, <2>1, Passes DEF Past, W!Flying
<1>9. ASSUME NEW w \in Worker, W!Release(w)
      PROVE  Owner' /\ Beaten'
  <2>1. /\ at' = [at EXCEPT ![w] = "idle"] /\ move' = [move EXCEPT ![w] = Nil]
        /\ at[w] = "release" /\ claims' = [claims EXCEPT ![move[w]] = Nil] /\ beaten' = beaten
    BY <1>9 DEF W!Release, W!Done, W!At
  <2>2. move[w] \in W!Manual /\ "release" \in Past /\ "idle" \notin Past
    BY <1>1, <2>1 DEF Fit, Past, W!Flying
  <2>3. \A x \in Worker : x # w /\ at[x] \in Past => move[x] # move[w]
    BY <2>1, <2>2 DEF Owner
  <2>4. Owner'
    BY <1>1, <2>1, <2>2, <2>3 DEF Owner
  <2>5. \A x \in Worker : beaten[x] => x # w /\ move[x] # move[w] /\ move[x] \in W!Manual
    BY <1>1, <2>1, <2>2 DEF Beaten, Fit
  <2>6. Beaten'
    BY <1>1, <2>1, <2>2, <2>5 DEF Beaten
  <2> QED
    BY <2>4, <2>6
<1>10. ASSUME NEW t \in W!Manual, W!Expire(t)
       PROVE  Owner' /\ Beaten'
  <2>1. /\ \A x \in Worker : move[x] # t
        /\ claims' = [claims EXCEPT ![t] = Nil] /\ at' = at /\ move' = move /\ beaten' = beaten
    BY <1>10 DEF W!Expire
  <2>2. \A x \in Worker : move[x] \in W!Manual => claims'[move[x]] = claims[move[x]]
    BY <1>1, <2>1
  <2>3. Owner'
    BY <2>1, <2>2 DEF Owner
  <2>4. \A x \in Worker : beaten[x] => move[x] \in W!Manual
    BY <1>1 DEF Fit
  <2> QED
    BY <2>1, <2>2, <2>3, <2>4 DEF Beaten
<1>11. ASSUME NEW p \in Process, W!Crash(p)
       PROVE  Owner' /\ Beaten'
  <2>1. /\ at' = [w \in Worker |-> IF Home[w] = p THEN "idle" ELSE at[w]]
        /\ move' = [w \in Worker |-> IF Home[w] = p THEN Nil ELSE move[w]]
        /\ beaten' = [w \in Worker |-> Home[w] # p /\ beaten[w]] /\ claims' = claims
    BY <1>11 DEF W!Crash
  <2> QED
    BY <1>1, <2>1 DEF Owner, Beaten, Past, W!Flying
<1>12. CASE UNCHANGED W!vars
  BY <1>12 DEF W!vars, Owner, Beaten
<1>13. value \in Value
  BY <1>1 DEF W!TypeOK
<1> QED
  BY <1>2, <1>3, <1>4, <1>5, <1>6, <1>7, <1>8, <1>9, <1>10, <1>11, <1>12, <1>13 DEF W!Next, W!Step

LEMMA MovesStart == ASSUME W!WorkflowAssumption, W!Init PROVE MInv /\ Owner /\ Beaten
<1>1. /\ state = Start /\ value = First /\ inFlight = [p \in Process |-> 0]
      /\ claims = [t \in W!Manual |-> Nil] /\ memory = [t \in Automatic |-> Nil]
      /\ at = [w \in Worker |-> "idle"] /\ move = [w \in Worker |-> Nil]
      /\ seen = [w \in Worker |-> Nil] /\ hops = [w \in Worker |-> 0]
      /\ beaten = [w \in Worker |-> FALSE] /\ asks = 0 /\ events = 0
  BY DEF W!Init
<1>2. Start \in State /\ First \in Value /\ Hops \in Nat \ {0}
  BY DEF W!WorkflowAssumption
<1>3. W!TypeOK
  BY <1>1, <1>2 DEF W!TypeOK
<1>4. Fit /\ Owner /\ Beaten
  BY <1>1 DEF Fit, Owner, Beaten, Past, W!Flying
<1>5. \A p \in Process : Flights(p) = {}
  BY <1>1 DEF Flights, W!Flying
<1>6. W!FlightsCounted
  BY <1>1, <1>5, FS_EmptySet, CountIs
<1> QED
  BY <1>3, <1>4, <1>6 DEF MInv

LEMMA MovesKernel == ASSUME W!WorkflowAssumption PROVE W!Spec => []MInv
<1>1. W!Init => MInv
  BY MovesStart
<1>2. MInv /\ [W!Next]_W!vars => MInv'
  BY MovesTyped
<1> QED
  BY <1>1, <1>2, PTL DEF W!Spec

\* The record, its claims and its workers always have the declared types.
THEOREM MovesTypeCorrect == W!Spec => []W!TypeOK
BY AssumedHere, MovesKernel, PTL DEF MInv

\* The count of moves in flight is right in every process, whatever partners refuse and
\* processes die (workflow-transitions.ts:1070-1101).
THEOREM FlightsAddUp == W!Spec => []FlightsCounted
<1>1. MInv => FlightsCounted
  BY CountIs DEF MInv, FlightsCounted, Flights, Flying, W!Flying
<1> QED
  BY <1>1, AssumedHere, MovesKernel, PTL

\* No request makes a move that another has made since it read the instance, if none
\* outlives its claim (transition-guard.ts:7-11).
THEOREM TwinsMoveOnce == Timely /\ W!Spec => TwinMovesOnce
<1> SUFFICES ASSUME Timely PROVE W!Spec => TwinMovesOnce
  OBVIOUS
<1>1. W!Init => MInv /\ Owner /\ Beaten
  BY AssumedHere, MovesStart
<1>2. (MInv /\ Owner /\ Beaten) /\ [W!Next]_W!vars => (MInv /\ Owner /\ Beaten)'
  BY AssumedHere, MovesTyped, Guarded
<1>3. Beaten => [\A w \in Worker : at[w] = "move" /\ at'[w] = "clear" => ~beaten[w]]_<<at, beaten>>
  BY DEF Beaten
<1> QED
  BY <1>1, <1>2, <1>3, PTL DEF W!Spec, TwinMovesOnce

=============================================================================
