--------------------------- MODULE CronLeaseProofs ---------------------------
(***************************************************************************)
(* The scheduler lease, for every number of replicas and all durations:    *)
(* CronLease is type correct, a replica's belief ends before its key can,  *)
(* and therefore no two replicas believe they lead at once.                *)
(*                                                                         *)
(* A belief is set from an answer that may have waited for long, so        *)
(* BeliefEndsBeforeKey is not inductive: the answers still unread have to  *)
(* promise as much as the belief does, and nothing in flight may take the  *)
(* key away (Good).                                                        *)
(*                                                                         *)
(* That a leader keeps leading is about the time between two rounds: with  *)
(* Redis answering within the tick (Paced), a leader's next round is due   *)
(* before its belief ends, or is under way and will extend it (Round).     *)
(***************************************************************************)
EXTENDS CronLease, TLAPS, SequenceTheorems

\* The key is q's and will outlive the next n ticks by the margin.
Holds(q, n) == key.holder = q /\ key.ttl >= n + MARGIN

\* What is true of one replica: its belief and every unread "yes" that would
\* set one speak of a key that is its own and lives long enough, and none of
\* its commands in flight gives the key up.
Good(q) ==
  /\ proc[q] = "new" => held[q] = 0
  /\ Undisturbed(q) =>
       /\ isLeader(q) => Holds(q, held[q])
       /\ \A i \in 1..Len(pipe[q]) :
            /\ pipe[q][i].cmd \in {"renew", "set"}
            /\ pipe[q][i].st = "yes" /\ pipe[q][i].left > 0 => Holds(q, pipe[q][i].left)

IInv == \A q \in Proc : Good(q)

-----------------------------------------------------------------------------

\* What Redis answers is a key and a yes or no, whoever asks.
LEMMA AnswerType ==
  ASSUME NEW p \in Proc, NEW c \in {"renew", "set", "drop", "release"},
         key \in [holder : Proc \cup {None}, ttl : 0..LEASE]
  PROVE  /\ Answer(p, c).k \in [holder : Proc \cup {None}, ttl : 0..LEASE]
         /\ Answer(p, c).ok \in {"yes", "no"}
BY LeaseAssumption DEF Answer, SetNX, RENEW_LUA, RELEASE_LUA, NoKey

LEMMA SentType ==
  ASSUME NEW c \in {"renew", "set", "drop", "release"}, NEW l \in 0..Belief
  PROVE  Sent(c, l) \in Command
BY DEF Sent, Command

LEMMA BeliefType == Belief \in Nat /\ Belief + MARGIN = LEASE /\ 0 \in 0..Belief
BY LeaseAssumption DEF Belief

\* The state is always a state of the declared types.
THEOREM TypeCorrect == Spec => []TypeOK
<1>1. Init => TypeOK
  BY LeaseAssumption, BeliefType DEF Init, TypeOK, NoKey, NoDrill
<1>2. TypeOK /\ [Next]_vars => TypeOK'
  <2> SUFFICES ASSUME TypeOK, [Next]_vars PROVE TypeOK'
    OBVIOUS
  <2> USE LeaseAssumption, BeliefType
  <2>0. Belief \in 0..Belief
    OBVIOUS
  <2>1. ASSUME NEW p \in Proc, Start(p) PROVE TypeOK'
    <3>1. Sent("set", Belief) \in Command
      BY <2>0, SentType
    <3> QED BY <2>1, <3>1 DEF Start, TypeOK
  <2>2. ASSUME NEW p \in Proc, Renew(p) PROVE TypeOK'
    <3>1. CASE Compete(p)
      <4>1. Sent(IF isLeader(p) THEN "renew" ELSE "set", Belief) \in Command
        BY <2>0, SentType
      <4> QED BY <2>2, <3>1, <4>1 DEF Renew, Compete, TypeOK
    <3>2. CASE ChaosLapse(p)
      <4>1. Sent("drop", 0) \in Command
        BY SentType
      <4>2. held' \in [Proc -> 0..(Belief + DRILL)]
        <5>1. PICK n \in {held[p], drill[p].left, 0} :
                held' = held \/ held' = [held EXCEPT ![p] = n]
          BY <3>2 DEF ChaosLapse
        <5>2. n \in 0..(Belief + DRILL)
          BY <5>1 DEF TypeOK
        <5> QED
          BY <5>1, <5>2 DEF TypeOK
      <4>3. Append(pipe[p], Sent("drop", 0)) \in Seq(Command)
        BY <4>1 DEF TypeOK
      <4>4. pipe' \in [Proc -> Seq(Command)]
        BY <3>2, <4>3 DEF ChaosLapse, TypeOK
      <4>5. gap' \in [Proc -> BOOLEAN]
        BY <3>2 DEF ChaosLapse, TypeOK
      <4>6. due' \in [Proc -> 0..RENEW] /\ UNCHANGED <<key, proc, drill>>
        BY <2>2 DEF Renew, TypeOK
      <4> QED BY <4>2, <4>4, <4>5, <4>6 DEF TypeOK
    <3> QED BY <2>2, <3>1, <3>2 DEF Renew
  <2>3. ASSUME NEW p \in Proc, Execute(p) PROVE TypeOK'
    <3>1. PICK i \in 1..Len(pipe[p]) :
            /\ key' = Answer(p, pipe[p][i].cmd).k
            /\ pipe' = [pipe EXCEPT ![p] = [pipe[p] EXCEPT ![i] =
                 [cmd |-> pipe[p][i].cmd, left |-> pipe[p][i].left,
                  st |-> Answer(p, pipe[p][i].cmd).ok]]]
      BY <2>3 DEF Execute
    <3> DEFINE c == pipe[p][i]
               d == [cmd |-> c.cmd, left |-> c.left, st |-> Answer(p, c.cmd).ok]
    <3>2. pipe[p] \in Seq(Command) /\ c \in Command
      BY ElementOfSeq DEF TypeOK
    <3>3. c.cmd \in {"renew", "set", "drop", "release"} /\ c.left \in 0..Belief
      BY <3>2 DEF Command
    <3>4. key' \in [holder : Proc \cup {None}, ttl : 0..LEASE] /\ Answer(p, c.cmd).ok \in {"yes", "no"}
      BY <3>1, <3>3, AnswerType DEF TypeOK
    <3>5. d \in Command
      BY <3>3, <3>4 DEF Command
    <3>6. [pipe[p] EXCEPT ![i] = d] \in Seq(Command)
      BY <3>2, <3>5, ExceptSeq
    <3>7. pipe' = [pipe EXCEPT ![p] = [pipe[p] EXCEPT ![i] = d]]
      BY <3>1
    <3>8. pipe' \in [Proc -> Seq(Command)]
      BY <3>6, <3>7 DEF TypeOK
    <3> QED BY <2>3, <3>4, <3>8 DEF Execute, TypeOK
  <2>4. ASSUME NEW p \in Proc, Resend(p) PROVE TypeOK'
    <3> DEFINE e(i) == Sent(pipe[p][i].cmd, pipe[p][i].left)
    <3>1. \A i \in 1..Len(pipe[p]) : e(i) \in Command
      <4> TAKE i \in 1..Len(pipe[p])
      <4>1. pipe[p][i] \in Command
        BY ElementOfSeq DEF TypeOK
      <4> QED BY <4>1, SentType DEF Command
    <3>2. [i \in 1..Len(pipe[p]) |-> e(i)] \in Seq(Command)
      BY <3>1 DEF TypeOK
    <3> QED BY <2>4, <3>2 DEF Resend, TypeOK
  <2>5. ASSUME NEW p \in Proc, Unreachable(p) PROVE TypeOK'
    BY <2>5, EmptySeq DEF Unreachable, TypeOK
  <2>6. ASSUME NEW p \in Proc, Reply(p) PROVE TypeOK'
    <3> DEFINE c == Head(pipe[p])
    <3>1. pipe[p] \in Seq(Command) /\ c \in Command /\ Tail(pipe[p]) \in Seq(Command)
      BY <2>6, HeadTailProperties DEF Reply, TypeOK
    <3>2. c.left \in 0..Belief
      BY <3>1 DEF Command
    <3>3. Sent("set", c.left) \in Command
      BY <3>2, SentType
    <3>4. Append(Tail(pipe[p]), Sent("set", c.left)) \in Seq(Command)
      BY <3>1, <3>3
    <3>5. CASE AfterRenew(p, c)
      <4>1. pipe' \in [Proc -> Seq(Command)]
        BY <3>1, <3>4, <3>5 DEF AfterRenew, TypeOK
      <4>2. held' \in [Proc -> 0..(Belief + DRILL)]
        BY <3>2, <3>5 DEF AfterRenew, TypeOK
      <4> QED BY <2>6, <3>5, <4>1, <4>2 DEF Reply, AfterRenew, TypeOK
    <3>6. CASE AfterSet(p, c)
      <4>1. pipe' \in [Proc -> Seq(Command)]
        BY <3>1, <3>6 DEF AfterSet, TypeOK
      <4>2. held' \in [Proc -> 0..(Belief + DRILL)]
        BY <3>2, <3>6 DEF AfterSet, TypeOK
      <4> QED BY <2>6, <3>6, <4>1, <4>2 DEF Reply, AfterSet, TypeOK
    <3>7. CASE AfterRelease(p, c)
      BY <2>6, <3>1, <3>7 DEF Reply, AfterRelease, TypeOK
    <3> QED BY <2>6, <3>5, <3>6, <3>7 DEF Reply
  <2>7. ASSUME NEW p \in Proc, Stop(p) PROVE TypeOK'
    <3>1. Sent("release", 0) \in Command
      BY SentType
    <3>2. Append(pipe[p], Sent("release", 0)) \in Seq(Command)
      BY <3>1 DEF TypeOK
    <3>3. pipe' \in [Proc -> Seq(Command)]
      BY <2>7, <3>2 DEF Stop, TypeOK
    <3>4. held' \in [Proc -> 0..(Belief + DRILL)]
      BY <2>7 DEF Stop, TypeOK
    <3>5. proc' \in [Proc -> {"new", "up", "closing", "closed", "dead"}]
      BY <2>7 DEF Stop, TypeOK
    <3> QED BY <2>7, <3>3, <3>4, <3>5 DEF Stop, TypeOK
  <2>8. ASSUME NEW p \in Proc, Die(p) PROVE TypeOK'
    <3>1. PICK n \in 0..Len(pipe[p]) : pipe' = [pipe EXCEPT ![p] = SubSeq(@, 1, n)]
      BY <2>8 DEF Die
    <3>2. \A i \in 1..n : pipe[p][i] \in Command
      BY ElementOfSeq, LenProperties DEF TypeOK
    <3>3. SubSeq(pipe[p], 1, n) \in Seq(Command)
      BY <3>2, LenProperties, SubSeqProperties DEF TypeOK
    <3>4. pipe' \in [Proc -> Seq(Command)]
      BY <3>1, <3>3 DEF TypeOK
    <3>5. held' \in [Proc -> 0..(Belief + DRILL)]
      BY <2>8 DEF Die, TypeOK
    <3> QED BY <2>8, <3>4, <3>5 DEF Die, TypeOK, NoDrill
  <2>9. ASSUME NEW p \in Proc, BeginDrill(p) PROVE TypeOK'
    BY <2>9 DEF BeginDrill, TypeOK
  <2>10. ASSUME Tick PROVE TypeOK'
    <3> DEFINE e(p, i) == [cmd |-> pipe[p][i].cmd, left |-> Less(pipe[p][i].left), st |-> pipe[p][i].st]
    <3>1. \A p \in Proc : \A i \in 1..Len(pipe[p]) : e(p, i) \in Command
      <4> TAKE p \in Proc
      <4> TAKE i \in 1..Len(pipe[p])
      <4>1. pipe[p][i] \in Command
        BY ElementOfSeq DEF TypeOK
      <4> QED BY <4>1 DEF Command, Less
    <3>2. \A p \in Proc : [i \in 1..Len(pipe[p]) |-> e(p, i)] \in Seq(Command)
      BY <3>1, LenProperties DEF TypeOK
    <3>3. pipe' = [p \in Proc |-> [i \in 1..Len(pipe[p]) |-> e(p, i)]]
      BY <2>10 DEF Tick
    <3>4. pipe' \in [Proc -> Seq(Command)]
      BY <3>2, <3>3
    <3>5. key' \in [holder : Proc \cup {None}, ttl : 0..LEASE]
      BY <2>10 DEF Tick, Elapsed, NoKey, TypeOK
    <3>6. drill' \in [Proc -> [mode : {"none", "expire", "drop", "split"}, left : 0..DRILL]]
      BY <2>10 DEF Tick, NoDrill, TypeOK
    <3>7. \A n \in Nat : \A m \in 0..n : Less(m) \in 0..n
      BY DEF Less
    <3>8. held' = [p \in Proc |-> Less(held[p])] /\ due' = [p \in Proc |-> Less(due[p])]
      BY <2>10 DEF Tick
    <3>9. \A p \in Proc : Less(held[p]) \in 0..(Belief + DRILL)
      BY <3>7 DEF TypeOK
    <3>10. \A p \in Proc : Less(due[p]) \in 0..RENEW
      BY <3>7 DEF TypeOK
    <3>11. held' \in [Proc -> 0..(Belief + DRILL)] /\ due' \in [Proc -> 0..RENEW]
      BY <3>8, <3>9, <3>10, Zenon
    <3>12. UNCHANGED <<proc, gap>>
      BY <2>10 DEF Tick
    <3> QED BY <3>4, <3>5, <3>6, <3>11, <3>12 DEF TypeOK
  <2>11. CASE UNCHANGED vars
    BY <2>11 DEF vars, TypeOK
  <2> QED
    BY <2>1, <2>2, <2>3, <2>4, <2>5, <2>6, <2>7, <2>8, <2>9, <2>10, <2>11 DEF Next
<1> QED
  BY <1>1, <1>2, PTL DEF Spec

-----------------------------------------------------------------------------

\* A replica that a step leaves alone stays good if its key does too.
LEMMA Untouched ==
  ASSUME NEW q \in Proc, Good(q), held'[q] = held[q], pipe'[q] = pipe[q], key' = key,
         proc'[q] = proc[q], gap'[q] = gap[q]
  PROVE  Good(q)'
BY DEF Good, Undisturbed, isLeader, Holds

\* What Redis does for p does not touch the key of q.
LEMMA AnswerLeavesOthers ==
  ASSUME NEW p \in Proc, NEW q \in Proc, p # q, NEW c, key.holder = q
  PROVE  Answer(p, c).k = key
BY LeaseAssumption DEF Answer, SetNX, RENEW_LUA, RELEASE_LUA

\* A yes to a renew or a set means that the key is p's for LEASE from now.
LEMMA YesMeansHeld ==
  ASSUME NEW p \in Proc, NEW c \in {"renew", "set"}, Answer(p, c).ok = "yes"
  PROVE  Answer(p, c).k = [holder |-> p, ttl |-> LEASE]
BY DEF Answer, SetNX, RENEW_LUA

\* A renew or a set never takes p's own key away, nor shortens its life.
LEMMA OwnKeyStays ==
  ASSUME NEW p \in Proc, NEW c \in {"renew", "set"}, key.holder = p,
         key \in [holder : Proc \cup {None}, ttl : 0..LEASE]
  PROVE  Answer(p, c).k.holder = p /\ Answer(p, c).k.ttl >= key.ttl
BY LeaseAssumption DEF Answer, SetNX, RENEW_LUA

LEMMA InitGood == Init => IInv
BY DEF Init, IInv, Good, Undisturbed

LEMMA RenewKeeps ==
  ASSUME TypeOK, IInv, NEW p \in Proc, Renew(p)
  PROVE  Good(p)'
<1> USE LeaseAssumption, BeliefType
<1>1. Good(p) /\ proc[p] = "up" /\ proc'[p] = "up" /\ key' = key
  BY DEF IInv, Renew
<1>2. pipe[p] \in Seq(Command) /\ held[p] \in 0..(Belief + DRILL) /\ gap[p] \in BOOLEAN
  BY DEF TypeOK
<1>3. CASE Compete(p)
  <2> DEFINE e == Sent(IF isLeader(p) THEN "renew" ELSE "set", Belief)
  <2>1. pipe'[p] = Append(pipe[p], e) /\ held'[p] = held[p]
    BY <1>3 DEF Compete, TypeOK
  <2>2. e.cmd \in {"renew", "set"} /\ e.st # "yes"
    BY DEF Sent
  <2>3. gap'[p] = (gap[p] /\ ~(held[p] = 0 /\ pipe[p] = <<>>))
    BY <1>3 DEF Compete, TypeOK
  <2>4. CASE held[p] = 0 /\ pipe[p] = <<>>
    <3>1. Len(pipe'[p]) = 1 /\ pipe'[p][1] = e
      BY <2>1, <2>4
    <3> QED BY <1>1, <2>1, <2>2, <2>4, <3>1 DEF Good, Undisturbed, isLeader
  <2>5. CASE ~(held[p] = 0 /\ pipe[p] = <<>>)
    <3>1. SUFFICES ASSUME Undisturbed(p)' PROVE Good(p)'
      BY <1>1 DEF Good
    <3>2. Undisturbed(p)
      BY <1>1, <1>2, <2>3, <2>5, <3>1 DEF Undisturbed
    <3>3. \A i \in 1..Len(pipe'[p]) : pipe'[p][i] = e \/ (i \in 1..Len(pipe[p]) /\ pipe'[p][i] = pipe[p][i])
      BY <1>2, <2>1
    <3> QED BY <1>1, <2>1, <2>2, <3>2, <3>3 DEF Good, isLeader, Holds
  <2> QED BY <2>4, <2>5
<1>4. CASE ChaosLapse(p)
  <2>1. CASE drill[p].mode = "expire" \/ ~isLeader(p)
    <3>1. pipe'[p] = pipe[p] /\ gap'[p] = gap[p] /\ held'[p] = held[p]
      BY <1>2, <1>4, <2>1 DEF ChaosLapse, TypeOK, isLeader
    <3> QED BY <1>1, <3>1, Untouched
  <2>2. CASE drill[p].mode # "expire" /\ isLeader(p)
    <3>1. gap'[p] = TRUE
      BY <1>4, <2>2 DEF ChaosLapse, TypeOK
    <3> QED BY <1>1, <3>1 DEF Good, Undisturbed
  <2> QED BY <2>1, <2>2
<1> QED BY <1>3, <1>4 DEF Renew

LEMMA ExecuteKeeps ==
  ASSUME TypeOK, IInv, NEW p \in Proc, Execute(p), NEW q \in Proc
  PROVE  Good(q)'
<1> USE LeaseAssumption, BeliefType
<1>1. PICK i \in 1..Len(pipe[p]) :
        /\ pipe[p][i].st = "sent"
        /\ key' = Answer(p, pipe[p][i].cmd).k
        /\ pipe' = [pipe EXCEPT ![p] = [pipe[p] EXCEPT ![i] =
             [cmd |-> pipe[p][i].cmd, left |-> pipe[p][i].left,
              st |-> Answer(p, pipe[p][i].cmd).ok]]]
  BY DEF Execute
<1>2. UNCHANGED <<proc, held, gap>> /\ Good(q)
  BY DEF Execute, IInv
<1>3. CASE q # p
  <2>1. pipe'[q] = pipe[q]
    BY <1>1, <1>3 DEF TypeOK
  <2>2. CASE key.holder = q
    <3>1. key' = key
      BY <1>1, <1>3, <2>2, AnswerLeavesOthers
    <3> QED BY <1>2, <2>1, <3>1, Untouched
  <2>3. CASE key.holder # q
    BY <1>2, <2>1, <2>3 DEF Good, Undisturbed, isLeader, Holds
  <2> QED BY <2>2, <2>3
<1>4. CASE q = p
  <2> DEFINE c == pipe[p][i]
             d == [cmd |-> c.cmd, left |-> c.left, st |-> Answer(p, c.cmd).ok]
  <2>1. SUFFICES ASSUME Undisturbed(p)' PROVE Good(p)'
    BY <1>2, <1>4 DEF Good
  <2>2. Undisturbed(p) /\ Good(p)
    BY <1>2, <1>4, <2>1 DEF Undisturbed
  <2>3. pipe[p] \in Seq(Command) /\ c \in Command
    BY ElementOfSeq DEF TypeOK
  <2>4. c.cmd \in {"renew", "set"} /\ c.left \in 0..Belief
    BY <2>2, <2>3 DEF Good, Command
  <2>5. pipe'[p] = [pipe[p] EXCEPT ![i] = d]
    BY <1>1 DEF TypeOK
  <2>6. Len(pipe'[p]) = Len(pipe[p])
    BY <2>3, <2>5, LenProperties
  <2>7. \A j \in 1..Len(pipe[p]) : pipe'[p][j] = IF j = i THEN d ELSE pipe[p][j]
    BY <2>3, <2>5, LenProperties
  <2>8. key' = Answer(p, c.cmd).k
    BY <1>1
  <2>9. key.holder = p => key'.holder = p /\ key'.ttl >= key.ttl
    BY <2>4, <2>8, OwnKeyStays DEF TypeOK
  <2>0. key.ttl \in Nat /\ key'.ttl \in Nat
    <3>1. key \in [holder : Proc \cup {None}, ttl : 0..LEASE]
      BY DEF TypeOK
    <3>2. Answer(p, c.cmd).k \in [holder : Proc \cup {None}, ttl : 0..LEASE]
      BY <2>4, <3>1, AnswerType
    <3>3. Answer(p, c.cmd).k.ttl \in Nat
      BY <3>2
    <3> QED BY <2>8, <3>1, <3>3
  <2>10. d.st = "yes" => key'.holder = p /\ key'.ttl >= c.left + MARGIN
    <3>1. SUFFICES ASSUME d.st = "yes" PROVE key'.holder = p /\ key'.ttl >= c.left + MARGIN
      OBVIOUS
    <3>2. key' = [holder |-> p, ttl |-> LEASE]
      BY <2>4, <2>8, <3>1, YesMeansHeld
    <3> QED BY <2>4, <3>2
  <2>11. isLeader(p)' => Holds(p, held[p])'
    <3>1. held'[p] = held[p] /\ held[p] \in Nat
      BY <1>2 DEF TypeOK
    <3> QED BY <2>0, <2>2, <2>9, <3>1 DEF Good, isLeader, Holds
  <2>12. ASSUME NEW j \in 1..Len(pipe[p])
         PROVE  /\ pipe'[p][j].cmd \in {"renew", "set"}
                /\ pipe'[p][j].st = "yes" /\ pipe'[p][j].left > 0
                     => key'.holder = p /\ key'.ttl >= pipe'[p][j].left + MARGIN
    <3>1. CASE j = i
      BY <2>4, <2>7, <2>10, <3>1
    <3>2. CASE j # i
      <4>1. pipe'[p][j] = pipe[p][j]
        BY <2>7, <3>2
      <4>2. pipe[p][j] \in Command
        BY <2>3, ElementOfSeq
      <4>3. pipe[p][j].left \in Nat
        BY <4>2 DEF Command
      <4> QED BY <2>0, <2>2, <2>9, <4>1, <4>3 DEF Good, Holds
    <3> QED BY <3>1, <3>2
  <2> QED BY <1>2, <1>4, <2>2, <2>6, <2>11, <2>12 DEF Good, Holds
<1> QED BY <1>3, <1>4

LEMMA ReplyKeeps ==
  ASSUME TypeOK, IInv, NEW p \in Proc, Reply(p)
  PROVE  Good(p)'
<1> USE LeaseAssumption, BeliefType
<1> DEFINE c == Head(pipe[p])
<1>1. pipe[p] \in Seq(Command) /\ pipe[p] # <<>> /\ c = pipe[p][1] /\ 1 \in 1..Len(pipe[p])
  BY DEF Reply, TypeOK
<1>2. /\ Len(Tail(pipe[p])) = Len(pipe[p]) - 1 /\ Tail(pipe[p]) \in Seq(Command)
      /\ \A i \in 1..Len(Tail(pipe[p])) : i + 1 \in 1..Len(pipe[p]) /\ Tail(pipe[p])[i] = pipe[p][i + 1]
  BY <1>1, HeadTailProperties
<1>3. c.left \in 0..Belief
  <2>1. c \in Command
    BY <1>1, ElementOfSeq
  <2> QED BY <2>1 DEF Command
<1>4. Good(p) /\ key' = key /\ proc[p] # "new" /\ held[p] \in Nat
  BY DEF IInv, Reply, Running, TypeOK
<1>5. proc'[p] # "new" /\ (proc'[p] = "up" => proc[p] = "up")
  BY <1>4 DEF Reply, AfterRenew, AfterSet, AfterRelease, TypeOK
<1>0. CASE gap'[p] # gap[p]
  <2>1. held'[p] = 0 /\ pipe'[p] = Append(Tail(pipe[p]), Sent("set", c.left)) /\ Tail(pipe[p]) = <<>>
    BY <1>0, <1>3 DEF Reply, AfterRenew, AfterSet, AfterRelease, TypeOK
  <2>2. Sent("set", c.left) \in Command /\ Tail(pipe[p]) \in Seq(Command) /\ Len(Tail(pipe[p])) = 0
    BY <1>2, <1>3, <2>1, SentType
  <2> DEFINE e == Sent("set", c.left)
             t == Tail(pipe[p])
  <2>3. Len(Append(t, e)) = Len(t) + 1 /\ Append(t, e)[Len(t) + 1] = e
    BY <2>2, AppendProperties
  <2>4. Len(pipe'[p]) = 1 /\ pipe'[p][1] = e
    BY <2>1, <2>2, <2>3
  <2> QED BY <2>4, <1>5, <2>1, <2>2 DEF Good, isLeader, Sent
<1>6. SUFFICES ASSUME Undisturbed(p)', gap'[p] = gap[p] PROVE Good(p)'
  BY <1>5, <1>0 DEF Good
<1>7. Undisturbed(p)
  BY <1>5, <1>6 DEF Undisturbed
<1>8. c.cmd \in {"renew", "set"}
  BY <1>1, <1>4, <1>7 DEF Good
<1>9. isLeader(p)' => Holds(p, held[p])'
  <2>1. CASE AfterRenew(p, c)
    <3>1. held'[p] = IF c.st = "yes" THEN c.left ELSE 0
      BY <2>1 DEF AfterRenew, TypeOK
    <3> QED BY <1>1, <1>3, <1>4, <1>7, <3>1 DEF Good, isLeader, Holds
  <2>2. CASE AfterSet(p, c)
    <3>1. held'[p] = IF c.st = "yes" THEN c.left ELSE held[p]
      BY <2>2 DEF AfterSet, TypeOK
    <3> QED BY <1>1, <1>3, <1>4, <1>7, <3>1 DEF Good, isLeader, Holds
  <2> QED BY <1>8, <2>1, <2>2 DEF Reply
<1>10. ASSUME NEW i \in 1..Len(pipe'[p])
       PROVE  \/ pipe'[p][i] = Sent("set", c.left)
              \/ \E j \in 1..Len(pipe[p]) : pipe'[p][i] = pipe[p][j]
  <2>1. CASE pipe'[p] = Tail(pipe[p])
    BY <1>2, <2>1
  <2>2. CASE pipe'[p] = Append(Tail(pipe[p]), Sent("set", c.left))
    <3>1. Len(pipe'[p]) = Len(Tail(pipe[p])) + 1
      BY <1>2, <2>2
    <3>2. CASE i = Len(pipe'[p])
      BY <1>2, <2>2, <3>1, <3>2
    <3>3. CASE i \in 1..Len(Tail(pipe[p]))
      <4>1. pipe'[p][i] = Tail(pipe[p])[i]
        BY <1>2, <2>2, <3>3
      <4> QED BY <1>2, <3>3, <4>1
    <3> QED BY <1>2, <3>1, <3>2, <3>3
  <2>3. pipe'[p] \in {Tail(pipe[p]), Append(Tail(pipe[p]), Sent("set", c.left))}
    BY <1>8 DEF Reply, AfterRenew, AfterSet, TypeOK
  <2> QED BY <2>1, <2>2, <2>3
<1>11. ASSUME NEW i \in 1..Len(pipe'[p])
       PROVE  /\ pipe'[p][i].cmd \in {"renew", "set"}
              /\ pipe'[p][i].st = "yes" /\ pipe'[p][i].left > 0
                   => key'.holder = p /\ key'.ttl >= pipe'[p][i].left + MARGIN
  <2>1. CASE pipe'[p][i] = Sent("set", c.left)
    BY <2>1 DEF Sent
  <2>2. CASE \E j \in 1..Len(pipe[p]) : pipe'[p][i] = pipe[p][j]
    BY <1>4, <1>7, <2>2 DEF Good, Holds
  <2> QED BY <1>10, <2>1, <2>2
<1> QED BY <1>5, <1>9, <1>11 DEF Good, Holds

LEMMA TickKeeps ==
  ASSUME TypeOK, IInv, Tick, NEW q \in Proc
  PROVE  Good(q)'
<1> USE LeaseAssumption, BeliefType
<1>1. held'[q] = Less(held[q]) /\ proc' = proc /\ gap' = gap /\ key' = Elapsed(key)
  BY DEF Tick, TypeOK
<1>2. /\ pipe'[q] = [i \in 1..Len(pipe[q]) |->
           [cmd |-> pipe[q][i].cmd, left |-> Less(pipe[q][i].left), st |-> pipe[q][i].st]]
      /\ pipe[q] \in Seq(Command)
  BY DEF Tick, TypeOK
<1>3. Len(pipe'[q]) = Len(pipe[q])
  BY <1>2, LenProperties
<1>4. Good(q) /\ held[q] \in Nat /\ key.ttl \in Nat
  BY DEF IInv, TypeOK
<1>5. ASSUME NEW n \in Nat, Less(n) > 0, Holds(q, n)
      PROVE  key'.holder = q /\ key'.ttl >= Less(n) + MARGIN
  BY <1>1, <1>4, <1>5 DEF Less, Holds, Elapsed
<1>6. SUFFICES ASSUME Undisturbed(q)' PROVE Good(q)'
  BY <1>1, <1>4 DEF Good, Less
<1>7. Undisturbed(q)
  BY <1>1, <1>6 DEF Undisturbed
<1>8. isLeader(q)' => Holds(q, held[q])'
  <2>1. SUFFICES ASSUME Less(held[q]) > 0 PROVE key'.holder = q /\ key'.ttl >= Less(held[q]) + MARGIN
    BY <1>1 DEF isLeader, Holds
  <2>2. Holds(q, held[q])
    BY <1>4, <1>7, <2>1 DEF Good, isLeader, Less
  <2> QED BY <1>4, <1>5, <2>1, <2>2
<1>9. ASSUME NEW i \in 1..Len(pipe[q])
      PROVE  /\ pipe'[q][i].cmd \in {"renew", "set"}
             /\ pipe'[q][i].st = "yes" /\ pipe'[q][i].left > 0
                  => key'.holder = q /\ key'.ttl >= pipe'[q][i].left + MARGIN
  <2>1. pipe'[q][i] = [cmd |-> pipe[q][i].cmd, left |-> Less(pipe[q][i].left), st |-> pipe[q][i].st]
    BY <1>2
  <2>2. pipe[q][i].left \in Nat
    <3>1. pipe[q][i] \in Command
      BY <1>2, ElementOfSeq
    <3> QED BY <3>1 DEF Command
  <2>3. pipe[q][i].cmd \in {"renew", "set"}
    BY <1>4, <1>7 DEF Good
  <2>4. SUFFICES ASSUME pipe[q][i].st = "yes", Less(pipe[q][i].left) > 0
                 PROVE  key'.holder = q /\ key'.ttl >= Less(pipe[q][i].left) + MARGIN
    BY <2>1, <2>3
  <2>5. pipe[q][i].left > 0
    BY <2>2, <2>4 DEF Less
  <2>6. Holds(q, pipe[q][i].left)
    BY <1>4, <1>7, <2>4, <2>5 DEF Good
  <2> QED BY <1>5, <2>2, <2>4, <2>6
<1> QED BY <1>1, <1>3, <1>4, <1>8, <1>9 DEF Good, Holds, Less

-----------------------------------------------------------------------------

LEMMA StepGood == TypeOK /\ IInv /\ [Next]_vars => IInv'
<1> SUFFICES ASSUME TypeOK, IInv, [Next]_vars, NEW q \in Proc PROVE Good(q)'
  BY DEF IInv
<1> USE LeaseAssumption
<1>0. Good(q)
  BY DEF IInv
<1>2. ASSUME NEW p \in Proc, Start(p) PROVE Good(q)'
  <2>1. key' = key /\ held' = held /\ gap' = gap
    BY <1>2 DEF Start
  <2>2. CASE q = p
    <3>1. pipe'[q] = <<Sent("set", Belief)>> /\ proc'[q] = "up" /\ held[q] = 0
      BY <1>0, <1>2, <2>2 DEF Start, TypeOK, Good
    <3>2. Len(pipe'[q]) = 1 /\ pipe'[q][1] = Sent("set", Belief)
      BY <3>1
    <3> QED BY <2>1, <3>1, <3>2 DEF Good, Undisturbed, isLeader, Sent
  <2>3. CASE q # p
    BY <1>0, <1>2, <2>1, <2>3, Untouched DEF Start, TypeOK
  <2> QED BY <2>2, <2>3
<1>3. ASSUME NEW p \in Proc, Renew(p) PROVE Good(q)'
  <2>1. CASE q = p
    BY <1>3, <2>1, RenewKeeps
  <2>2. CASE q # p
    <3>1. held'[q] = held[q] /\ pipe'[q] = pipe[q] /\ gap'[q] = gap[q]
      BY <1>3, <2>2 DEF Renew, Compete, ChaosLapse, TypeOK
    <3> QED BY <1>0, <1>3, <3>1, Untouched DEF Renew
  <2> QED BY <2>1, <2>2
<1>4. ASSUME NEW p \in Proc, Execute(p) PROVE Good(q)'
  BY <1>4, ExecuteKeeps
<1>5. ASSUME NEW p \in Proc, Resend(p) PROVE Good(q)'
  <2>1. UNCHANGED <<key, proc, held, gap>>
    BY <1>5 DEF Resend
  <2>2. CASE q = p
    <3>1. pipe'[q] = [i \in 1..Len(pipe[q]) |-> Sent(pipe[q][i].cmd, pipe[q][i].left)]
      BY <1>5, <2>2 DEF Resend, TypeOK
    <3>2. Len(pipe'[q]) = Len(pipe[q])
      BY <3>1, LenProperties DEF TypeOK
    <3>3. \A i \in 1..Len(pipe[q]) : pipe'[q][i].st = "sent" /\ pipe'[q][i].cmd = pipe[q][i].cmd
      BY <3>1 DEF Sent
    <3> QED BY <1>0, <2>1, <3>2, <3>3 DEF Good, Undisturbed, isLeader, Holds
  <2>3. CASE q # p
    BY <1>0, <1>5, <2>1, <2>3, Untouched DEF Resend, TypeOK
  <2> QED BY <2>2, <2>3
<1>6. ASSUME NEW p \in Proc, Unreachable(p) PROVE Good(q)'
  <2>1. UNCHANGED <<key, held, gap>> /\ proc[p] # "new"
    BY <1>6 DEF Unreachable, Running
  <2>2. CASE q = p
    <3>1. pipe'[q] = <<>> /\ (proc'[q] = "up" => proc[q] = "up") /\ proc'[q] # "new"
      BY <1>6, <2>1, <2>2 DEF Unreachable, TypeOK
    <3> QED BY <1>0, <2>1, <3>1 DEF Good, Undisturbed, isLeader, Holds
  <2>3. CASE q # p
    BY <1>0, <1>6, <2>1, <2>3, Untouched DEF Unreachable, TypeOK
  <2> QED BY <2>2, <2>3
<1>7. ASSUME NEW p \in Proc, Reply(p) PROVE Good(q)'
  <2>1. CASE q = p
    BY <1>7, <2>1, ReplyKeeps
  <2>2. CASE q # p
    <3>1. held'[q] = held[q] /\ pipe'[q] = pipe[q] /\ proc'[q] = proc[q] /\ gap'[q] = gap[q]
      BY <1>7, <2>2 DEF Reply, AfterRenew, AfterSet, AfterRelease, TypeOK
    <3> QED BY <1>0, <1>7, <3>1, Untouched DEF Reply
  <2> QED BY <2>1, <2>2
<1>8. ASSUME NEW p \in Proc, Stop(p) PROVE Good(q)'
  <2>1. CASE q = p
    BY <1>8, <2>1 DEF Stop, Good, Undisturbed, TypeOK
  <2>2. CASE q # p
    <3>1. held'[q] = held[q] /\ pipe'[q] = pipe[q] /\ proc'[q] = proc[q]
      BY <1>8, <2>2 DEF Stop, TypeOK
    <3> QED BY <1>0, <1>8, <3>1, Untouched DEF Stop
  <2> QED BY <2>1, <2>2
<1>9. ASSUME NEW p \in Proc, Die(p) PROVE Good(q)'
  <2>1. CASE q = p
    BY <1>9, <2>1 DEF Die, Good, Undisturbed, TypeOK
  <2>2. CASE q # p
    <3>1. held'[q] = held[q] /\ pipe'[q] = pipe[q] /\ proc'[q] = proc[q]
      BY <1>9, <2>2 DEF Die, TypeOK
    <3> QED BY <1>0, <1>9, <3>1, Untouched DEF Die
  <2> QED BY <2>1, <2>2
<1>10. ASSUME NEW p \in Proc, BeginDrill(p) PROVE Good(q)'
  BY <1>0, <1>10, Untouched DEF BeginDrill
<1>11. ASSUME Tick PROVE Good(q)'
  BY <1>11, TickKeeps
<1>12. CASE UNCHANGED vars
  BY <1>0, <1>12, Untouched DEF vars
<1> QED
  BY <1>2, <1>3, <1>4, <1>5, <1>6, <1>7, <1>8, <1>9, <1>10, <1>11, <1>12 DEF Next

\* For any number of replicas and any durations: while a replica that no drill
\* or shutdown disturbs believes it leads, the key is its own and outlives the
\* belief by the margin.
THEOREM BeliefIsSafe == Spec => []BeliefEndsBeforeKey
<1>1. IInv => BeliefEndsBeforeKey
  BY DEF IInv, Good, Holds, BeliefEndsBeforeKey
<1> QED
  BY <1>1, InitGood, StepGood, TypeCorrect, PTL DEF Spec

\* Two replicas never both believe they lead: each would hold the one key.
THEOREM OneLeader == Spec => []AtMostOneLeader
<1>1. BeliefEndsBeforeKey => AtMostOneLeader
  BY DEF BeliefEndsBeforeKey, AtMostOneLeader
<1> QED
  BY <1>1, BeliefIsSafe, PTL

\* Whatever is executed late, a command of one process leaves the key of
\* another as it was: every step satisfies OnlyOwnLease.
THEOREM OwnLeaseOnly == Spec => OnlyOwnLease
<1>1. [Next]_vars => [\A p \in Proc : Execute(p) /\ key.holder \notin {p, None} => key' = key]_vars
  <2> SUFFICES ASSUME NEW p \in Proc, Execute(p), key.holder \notin {p, None} PROVE key' = key
    OBVIOUS
  <2> QED BY DEF Execute, Answer, SetNX, RENEW_LUA, RELEASE_LUA
<1> QED
  BY <1>1, PTL DEF Spec, OnlyOwnLease

-----------------------------------------------------------------------------
(* Rounds on time: Redis answers within the tick, timers fire when they    *)
(* are due, and a round comes before the belief of the last one ends.      *)

Paced == Healthy /\ 0 < RENEW /\ RENEW < Belief

\* A replica has one command in flight at most, of the round that has just begun.
\* It asks for the key only without a belief, and a leader is not refused.
Round(p) ==
  proc[p] = "up" /\ pipe[p] # <<>> =>
    /\ Len(pipe[p]) = 1 /\ due[p] = RENEW
    /\ pipe[p][1].cmd \in {"renew", "set"} => pipe[p][1].left = Belief
    /\ pipe[p][1].cmd = "set" => held[p] = 0
    /\ Undisturbed(p) /\ isLeader(p) => pipe[p][1].st # "no"

\* A command on its own in the pipe.
LEMMA Only ==
  ASSUME NEW e \in Command
  PROVE  /\ Append(<<>>, e) # <<>> /\ Len(Append(<<>>, e)) = 1 /\ Append(<<>>, e)[1] = e
         /\ <<e>> # <<>> /\ Len(<<e>>) = 1 /\ <<e>>[1] = e
<1>1. <<>> \in Seq(Command) /\ Len(<<>>) = 0
  OBVIOUS
<1>2. Len(Append(<<>>, e)) = Len(<<>>) + 1 /\ Append(<<>>, e)[Len(<<>>) + 1] = e
  BY <1>1, AppendProperties
<1> QED BY <1>1, <1>2, AppendProperties

\* What a step leaves alone of a replica keeps its round.
LEMMA RoundUntouched ==
  ASSUME NEW p \in Proc, Round(p), proc'[p] = proc[p], pipe'[p] = pipe[p],
         due'[p] = due[p], held'[p] = held[p], gap'[p] = gap[p]
  PROVE  Round(p)'
BY DEF Round, Undisturbed, isLeader

LEMMA RenewRound ==
  ASSUME Paced, TypeOK, NEW p \in Proc, Round(p), Renew(p)
  PROVE  Round(p)'
<1> USE LeaseAssumption, BeliefType
<1>1. proc[p] = "up" /\ due[p] = 0 /\ due'[p] = RENEW /\ held[p] \in Nat
  BY DEF Renew, TypeOK
<1>2. pipe[p] = <<>>
  BY <1>1 DEF Round, Paced
<1>3. CASE Compete(p)
  <2> DEFINE e == Sent(IF isLeader(p) THEN "renew" ELSE "set", Belief)
  <2>1. e \in Command /\ e.left = Belief /\ e.st = "sent" /\ (e.cmd = "set" => held[p] = 0)
    BY <1>1, SentType DEF Sent, isLeader
  <2>2. pipe'[p] = Append(<<>>, e) /\ held'[p] = held[p]
    BY <1>2, <1>3 DEF Compete, TypeOK
  <2> HIDE DEF e
  <2> QED BY <1>1, <2>1, <2>2, Only DEF Round
<1>4. CASE ChaosLapse(p)
  <2>1. CASE pipe' = pipe
    BY <1>2, <2>1 DEF Round
  <2>2. CASE pipe' # pipe
    <3> DEFINE e == Sent("drop", 0)
    <3>1. pipe'[p] = Append(<<>>, e) /\ gap'[p] = TRUE
      BY <1>2, <1>4, <2>2 DEF ChaosLapse, TypeOK
    <3>2. e \in Command /\ e.cmd = "drop"
      BY SentType DEF Sent
    <3> HIDE DEF e
    <3> QED BY <1>1, <3>1, <3>2, Only DEF Round, Undisturbed
  <2> QED BY <2>1, <2>2
<1> QED BY <1>3, <1>4 DEF Renew

LEMMA ExecuteRound ==
  ASSUME Paced, TypeOK, NEW p \in Proc, Good(p), Round(p), Execute(p)
  PROVE  Round(p)' /\ (pipe[p] # <<>> => pipe'[p] # <<>>)
<1>1. PICK i \in 1..Len(pipe[p]) :
        pipe' = [pipe EXCEPT ![p] = [pipe[p] EXCEPT ![i] =
             [cmd |-> pipe[p][i].cmd, left |-> pipe[p][i].left,
              st |-> Answer(p, pipe[p][i].cmd).ok]]]
  BY DEF Execute
<1> DEFINE c == pipe[p][i]
           d == [cmd |-> c.cmd, left |-> c.left, st |-> Answer(p, c.cmd).ok]
<1>2. UNCHANGED <<proc, held, due, gap>>
  BY DEF Execute
<1>3. pipe[p] \in Seq(Command) /\ Len(pipe[p]) \in Nat
  BY LenProperties DEF TypeOK
<1>4. pipe'[p] = [pipe[p] EXCEPT ![i] = d]
  BY <1>1 DEF TypeOK
<1>5. Len(pipe'[p]) = Len(pipe[p]) /\ pipe'[p][i] = d /\ Len(pipe[p]) >= 1
  BY <1>3, <1>4, LenProperties
<1>6. pipe[p] # <<>> /\ pipe'[p] # <<>>
  BY <1>3, <1>5
<1>7. SUFFICES ASSUME proc[p] = "up" PROVE Round(p)'
  BY <1>2, <1>6 DEF Round
<1>8. Len(pipe[p]) = 1 /\ i = 1
  <2>1. Len(pipe[p]) = 1
    BY <1>6, <1>7 DEF Round
  <2> QED BY <2>1
<1>9. ASSUME Undisturbed(p), isLeader(p) PROVE d.st # "no"
  <2>1. key.holder = p /\ c.cmd \in {"renew", "set"} /\ c.cmd # "set"
    BY <1>6, <1>7, <1>8, <1>9 DEF Good, Holds, Round, isLeader
  <2> QED BY <2>1 DEF Answer, RENEW_LUA
<1> HIDE DEF d, c
<1>10. d.cmd = c.cmd /\ d.left = c.left /\ c = pipe[p][1] /\ pipe'[p][1] = d
  BY <1>5, <1>8 DEF d, c
<1> QED BY <1>2, <1>5, <1>6, <1>7, <1>8, <1>9, <1>10 DEF Round, Undisturbed, isLeader

LEMMA ReplyRound ==
  ASSUME Paced, TypeOK, NEW p \in Proc, Good(p), Round(p), Reply(p)
  PROVE  /\ Round(p)'
         /\ InStep(p) /\ proc'[p] = "up" => InStep(p)'
         /\ ~isLeader(p) /\ isLeader(p)' /\ Undisturbed(p)' => InStep(p)'
<1> USE LeaseAssumption, BeliefType
<1> DEFINE c == Head(pipe[p])
           e == Sent("set", c.left)
<1>1. pipe[p] \in Seq(Command) /\ pipe[p] # <<>> /\ c = pipe[p][1] /\ 1 \in 1..Len(pipe[p])
  BY DEF Reply, TypeOK
<1>2. /\ due' = due /\ c.st # "sent"
      /\ \/ c.cmd = "renew" /\ AfterRenew(p, c)
         \/ c.cmd = "set" /\ AfterSet(p, c)
         \/ c.cmd \in {"drop", "release"} /\ AfterRelease(p, c)
  BY DEF Reply
<1>3. c \in Command /\ c.left \in 0..Belief /\ c.st \in {"sent", "yes", "no"}
  <2>1. c \in Command
    BY <1>1, ElementOfSeq
  <2> QED BY <2>1 DEF Command
<1>4. proc'[p] = "up" => proc[p] = "up"
  BY <1>2 DEF AfterRenew, AfterSet, AfterRelease, TypeOK
<1>5. SUFFICES ASSUME proc'[p] = "up", proc[p] = "up"
               PROVE  /\ Round(p)'
                      /\ InStep(p) => InStep(p)'
                      /\ ~isLeader(p) /\ isLeader(p)' /\ Undisturbed(p)' => InStep(p)'
  BY <1>4 DEF Round, Undisturbed
<1>6. Len(pipe[p]) = 1 /\ due[p] = RENEW /\ due'[p] = RENEW
  BY <1>1, <1>2, <1>5 DEF Round
<1>7. Tail(pipe[p]) = <<>>
  <2>1. Tail(pipe[p]) \in Seq(Command) /\ Len(Tail(pipe[p])) = Len(pipe[p]) - 1
    BY <1>1, HeadTailProperties
  <2>2. \A s \in Seq(Command) : s # <<>> => Len(s) # 0
    BY EmptySeq
  <2>3. Len(Tail(pipe[p])) = 0
    BY <1>6, <2>1
  <2> QED BY <2>1, <2>2, <2>3, Zenon
<1>8. CASE c.cmd = "renew"
  <2>1. c.left = Belief /\ AfterRenew(p, c)
    BY <1>1, <1>2, <1>5, <1>8 DEF Round
  <2>2. CASE c.st = "yes"
    <3>1. held'[p] = Belief /\ pipe'[p] = <<>> /\ gap'[p] = gap[p]
      BY <1>7, <2>1, <2>2 DEF AfterRenew, TypeOK, Paced
    <3> QED BY <1>5, <1>6, <3>1 DEF Round, InStep, Undisturbed, isLeader, Paced
  <2>3. CASE c.st = "no"
    <3>0. held'[p] = 0 /\ pipe'[p] = Append(Tail(pipe[p]), e)
      BY <2>1, <2>3 DEF AfterRenew, TypeOK
    <3>1. held'[p] = 0 /\ pipe'[p] = Append(<<>>, e)
      BY <1>7, <3>0
    <3>2. e \in Command /\ e.cmd = "set" /\ e.left = Belief
      BY <2>1, SentType DEF Sent
    <3>3. ~InStep(p)
      BY <1>1, <1>5, <2>3 DEF InStep, Round
    <3> HIDE DEF e
    <3> QED BY <1>5, <1>6, <3>1, <3>2, <3>3, Only DEF Round, isLeader
  <2> QED BY <1>2, <1>3, <2>2, <2>3
<1>9. CASE c.cmd = "set"
  <2>1. c.left = Belief /\ AfterSet(p, c) /\ held[p] = 0
    BY <1>1, <1>2, <1>5, <1>9 DEF Round
  <2>2. /\ held'[p] = (IF c.st = "yes" THEN Belief ELSE 0)
        /\ pipe'[p] = <<>> /\ gap'[p] = gap[p]
    BY <1>7, <2>1 DEF AfterSet, TypeOK
  <2> QED BY <1>5, <1>6, <2>1, <2>2 DEF Round, InStep, Undisturbed, isLeader, Paced
<1>10. CASE c.cmd \in {"drop", "release"}
  <2>1. held' = held /\ pipe'[p] = <<>> /\ AfterRelease(p, c)
    BY <1>2, <1>7, <1>10 DEF AfterRelease, TypeOK
  <2>2. ~InStep(p)
    BY <1>1, <1>10 DEF InStep, Good
  <2> QED BY <1>5, <2>1, <2>2 DEF Round, isLeader
<1> QED BY <1>2, <1>8, <1>9, <1>10

\* What the property says of one replica and one step.
Kept(p) ==
  /\ ~isLeader(p) /\ isLeader(p)' /\ Undisturbed(p)' => InStep(p)'
  /\ InStep(p) /\ drill[p].left = 0 /\ proc'[p] = "up" => InStep(p)'

LEMMA KeptUntouched ==
  ASSUME NEW p \in Proc, Round(p), proc'[p] = proc[p], pipe'[p] = pipe[p],
         due'[p] = due[p], held'[p] = held[p], gap'[p] = gap[p]
  PROVE  Round(p)' /\ Kept(p)
BY RoundUntouched DEF Kept, InStep, Undisturbed, isLeader

LEMMA RoundStep ==
  ASSUME Paced, TypeOK, IInv, [Next]_vars, NEW p \in Proc, Round(p)
  PROVE  Round(p)' /\ Kept(p)
<1> USE LeaseAssumption, BeliefType
<1>0. Good(p) /\ held[p] \in Nat /\ due[p] \in Nat
  BY DEF IInv, TypeOK
<1>1. ASSUME NEW q \in Proc, Start(q) PROVE Round(p)' /\ Kept(p)
  <2>1. CASE q = p
    <3> DEFINE e == Sent("set", Belief)
    <3>1. proc[p] = "new" /\ pipe'[p] = <<e>> /\ due'[p] = RENEW /\ held'[p] = 0 /\ held[p] = 0
      BY <1>0, <1>1, <2>1 DEF Start, TypeOK, Good
    <3>2. e \in Command /\ e.cmd = "set" /\ e.left = Belief /\ e.st = "sent"
      BY SentType DEF Sent
    <3> HIDE DEF e
    <3> QED BY <3>1, <3>2, Only DEF Round, Kept, InStep, Undisturbed, isLeader
  <2>2. CASE q # p
    BY <1>1, <2>2, KeptUntouched DEF Start, TypeOK
  <2> QED BY <2>1, <2>2
<1>2. ASSUME NEW q \in Proc, Renew(q) PROVE Round(p)' /\ Kept(p)
  <2>1. CASE q = p
    <3>1. Round(p)' /\ proc'[p] = "up"
      BY <1>2, <2>1, RenewRound DEF Renew
    <3>2. ASSUME InStep(p), drill[p].left = 0 PROVE InStep(p)'
      <4>1. Compete(p)
        BY <1>2, <2>1, <3>2 DEF Renew, ChaosLapse
      <4>2. held'[p] = held[p] /\ gap'[p] = FALSE
        BY <3>2, <4>1 DEF Compete, InStep, Undisturbed, TypeOK
      <4> DEFINE e == Sent(IF isLeader(p) THEN "renew" ELSE "set", Belief)
      <4>3. pipe'[p] = Append(pipe[p], e) /\ pipe[p] \in Seq(Command) /\ e \in Command
        BY <4>1, SentType DEF Compete, TypeOK
      <4>4. pipe'[p] # <<>>
        BY <4>3, AppendProperties
      <4> QED BY <3>1, <3>2, <4>2, <4>4 DEF InStep, Undisturbed, isLeader
    <3>3. ASSUME isLeader(p)' PROVE isLeader(p)
      BY <1>0, <1>2, <2>1, <3>3 DEF Renew, Compete, ChaosLapse, isLeader, TypeOK
    <3> QED BY <3>1, <3>2, <3>3 DEF Kept
  <2>2. CASE q # p
    BY <1>2, <2>2, KeptUntouched DEF Renew, Compete, ChaosLapse, TypeOK
  <2> QED BY <2>1, <2>2
<1>3. ASSUME NEW q \in Proc, Execute(q) PROVE Round(p)' /\ Kept(p)
  <2>1. UNCHANGED <<proc, held, due, gap>>
    BY <1>3 DEF Execute
  <2>2. CASE q = p
    <3>1. Round(p)' /\ (pipe[p] # <<>> => pipe'[p] # <<>>)
      BY <1>0, <1>3, <2>2, ExecuteRound
    <3> QED BY <2>1, <3>1 DEF Kept, InStep, Undisturbed, isLeader
  <2>3. CASE q # p
    <3>1. pipe'[p] = pipe[p]
      BY <1>3, <2>3 DEF Execute, TypeOK
    <3> QED BY <2>1, <3>1, KeptUntouched
  <2> QED BY <2>2, <2>3
<1>4. ASSUME NEW q \in Proc, Resend(q) \/ Unreachable(q) PROVE Round(p)' /\ Kept(p)
  BY <1>4 DEF Resend, Unreachable, Paced
<1>5. ASSUME NEW q \in Proc, Reply(q) PROVE Round(p)' /\ Kept(p)
  <2>1. CASE q = p
    BY <1>0, <1>5, <2>1, ReplyRound DEF Kept
  <2>2. CASE q # p
    <3>1. held'[p] = held[p] /\ pipe'[p] = pipe[p] /\ proc'[p] = proc[p] /\ gap'[p] = gap[p]
      BY <1>5, <2>2 DEF Reply, AfterRenew, AfterSet, AfterRelease, TypeOK
    <3> QED BY <1>5, <3>1, KeptUntouched DEF Reply
  <2> QED BY <2>1, <2>2
<1>6. ASSUME NEW q \in Proc, Stop(q) PROVE Round(p)' /\ Kept(p)
  <2>1. CASE q = p
    <3>1. proc'[p] # "up"
      BY <1>6, <2>1 DEF Stop, TypeOK
    <3> QED BY <3>1 DEF Round, Kept, Undisturbed
  <2>2. CASE q # p
    BY <1>6, <2>2, KeptUntouched DEF Stop, TypeOK
  <2> QED BY <2>1, <2>2
<1>7. ASSUME NEW q \in Proc, Die(q) PROVE Round(p)' /\ Kept(p)
  <2>1. CASE q = p
    <3>1. proc'[p] # "up"
      BY <1>7, <2>1 DEF Die, TypeOK
    <3> QED BY <3>1 DEF Round, Kept, Undisturbed
  <2>2. CASE q # p
    BY <1>7, <2>2, KeptUntouched DEF Die, TypeOK
  <2> QED BY <2>1, <2>2
<1>8. ASSUME NEW q \in Proc, BeginDrill(q) PROVE Round(p)' /\ Kept(p)
  BY <1>8, KeptUntouched DEF BeginDrill
<1>9. ASSUME Tick PROVE Round(p)' /\ Kept(p)
  <2>1. proc' = proc /\ gap' = gap /\ held'[p] = Less(held[p]) /\ due'[p] = Less(due[p])
    BY <1>9 DEF Tick, TypeOK
  <2>2. SUFFICES ASSUME proc[p] = "up" PROVE Round(p)' /\ Kept(p)
    BY <2>1 DEF Round, Kept, Undisturbed, InStep
  <2>3. pipe[p] = <<>> /\ due[p] > 0
    BY <1>9, <2>2 DEF Tick, OnTime, Paced, Running
  <2>4. pipe'[p] = <<>>
    <3>1. pipe'[p] = [i \in 1..Len(pipe[p]) |->
             [cmd |-> pipe[p][i].cmd, left |-> Less(pipe[p][i].left), st |-> pipe[p][i].st]]
      BY <1>9 DEF Tick
    <3>2. Len(pipe'[p]) = 0 /\ pipe'[p] \in Seq(Command)
      BY <2>3, <3>1
    <3>3. \A s \in Seq(Command) : s # <<>> => Len(s) # 0
      BY EmptySeq
    <3> QED BY <3>2, <3>3, Zenon
  <2>5. InStep(p) => InStep(p)'
    BY <1>0, <2>1, <2>3 DEF InStep, Undisturbed, isLeader, Less
  <2>6. isLeader(p)' => isLeader(p)
    BY <1>0, <2>1 DEF isLeader, Less
  <2> QED BY <2>4, <2>5, <2>6 DEF Round, Kept
<1>10. CASE UNCHANGED vars
  BY <1>10, KeptUntouched DEF vars
<1> QED
  BY <1>1, <1>2, <1>3, <1>4, <1>5, <1>6, <1>7, <1>8, <1>9, <1>10 DEF Next

\* Any number of replicas, any drills: as long as Redis answers within the tick and a
\* round comes before a belief ends, an elected leader leads until it closes, dies or
\* a drill is aimed at it.
THEOREM LeadersKeepLeading ==
  ASSUME Paced PROVE Spec => LeaderKeepsLeading
<1> DEFINE Rounds == \A p \in Proc : Round(p)
<1>1. Init => Rounds
  BY DEF Init, Round
<1>2. TypeOK /\ IInv /\ Rounds /\ [Next]_vars => Rounds' /\ \A p \in Proc : Kept(p)
  BY RoundStep
<1>3. TypeOK /\ IInv /\ Rounds /\ [Next]_vars =>
        [\A p \in Proc :
           /\ ~isLeader(p) /\ isLeader(p)' /\ Undisturbed(p)' => InStep(p)'
           /\ InStep(p) /\ drill[p].left = 0 /\ proc'[p] = "up" => InStep(p)']_vars
  BY <1>2 DEF Kept
<1>4. Spec => []IInv
  BY InitGood, StepGood, TypeCorrect, PTL DEF Spec
<1> HIDE DEF Rounds
<1> QED
  BY <1>1, <1>2, <1>3, <1>4, TypeCorrect, PTL DEF Spec, LeaderKeepsLeading

=============================================================================
