-------------------------- MODULE ConfigEpochProofs --------------------------
(***************************************************************************)
(* Theorems about the configuration epoch, for any number of processes,    *)
(* writes and moves.  The argument is about numbers a process may read     *)
(* under: once the writes of p are moved past, nothing older than them is  *)
(* stored, or on its way to be stored, under the present number or a later *)
(* one (Safe, MovedPast).  What a process reads through Redis is then      *)
(* recent enough because the number it reads under is.                     *)
(***************************************************************************)
EXTENDS ConfigEpoch, TLAPS

\* Whatever is read under the number e or a later one, now or when what is on
\* its way has landed, is not older than the last write of p.
Safe(p, e) ==
  /\ \A g \in Epoch : g >= e /\ l2[g] # None => l2[g] >= mine[p]
  /\ put # None /\ put.gen >= e => put.val >= mine[p]
  /\ \A q \in Proc : getAt[q] = "rows" /\ getGen[q] # None /\ getGen[q] >= e
                       => getVal[q] >= mine[p]

\* A write that has not landed is noted; an answer from the database is one.
Noted ==
  /\ \A p \in Proc : Timely /\ stmt[p] = "run" => dirty[p]
  /\ \A p \in Proc : getAt[p] = "rows" => getVal[p] # None

\* A trusted read overlaps no move, so it is not older than what is known.
Trusted == \A p \in Proc : readAt[p] # "idle" /\ readClean[p]
                             => bumpAt[p] = "idle" /\ readVal[p] >= known[p]

\* The last write to land is somebody's.
Owned == conf = 0 \/ \E p \in Proc : mine[p] = conf

\* The numbers a process may read under, once its own writes are moved past.
MovedPast(p) ==
  /\ ~dirty[p] /\ bumpAt[p] # "update" => Safe(p, epoch)
  /\ ~dirty[p] /\ bumpAt[p] = "idle" => Safe(p, known[p])
  /\ ~dirty[p] /\ readAt[p] # "idle" /\ readClean[p] => Safe(p, readVal[p])

Moves == \A p \in Proc : MovedPast(p)

\* What a process has from the database reflects its own writes.
Rows == \A p \in Proc : stmt[p] # "ran" /\ getAt[p] = "rows" => getVal[p] >= mine[p]

\* A process with no move of its own knows what it has polled.
Follows ==
  \A p \in Proc : own[p] = {} /\ bumpAt[p] = "idle"
    => /\ known[p] >= seen[p]
       /\ readAt[p] # "idle" => readClean[p]

\* One that has polled the last number holds what was moved past.
Polled ==
  \A p, q \in Proc :
    own[p] = {} /\ seen[p] = epoch /\ ~dirty[q] /\ bumpAt[q] # "update"
    => /\ cache[p] # None => cache[p] >= mine[q]
       /\ getAt[p] = "rows" => getVal[p] >= mine[q]

\* The part of the invariant that holds whatever the timing.
Base == TypeOK /\ Noted /\ Trusted /\ Owned /\ Rows /\ Follows

-----------------------------------------------------------------------------

\* The states the program starts in satisfy the invariant.
LEMMA InitBase == Init => Base
<1> SUFFICES ASSUME Init PROVE Base
  OBVIOUS
<1>1. 0 \in Version /\ 0 \in Epoch /\ conf = 0 /\ epoch = 0 /\ Epoch = {0}
  BY DEF Init, Version, Epoch
<1>2. /\ l2 \in [Epoch -> Version \cup {None}]
      /\ used \in [Proc -> 0..MaxUses]
      /\ stmt \in [Proc -> {"idle", "run", "ran"}]
  BY <1>1, ConfigEpochAssumption DEF Init
<1>3. /\ dirty \in [Proc -> BOOLEAN] /\ timer \in [Proc -> BOOLEAN]
      /\ readClean \in [Proc -> BOOLEAN]
  BY Zenon DEF Init
<1>4. /\ bumpAt \in [Proc -> {"idle", "update", "select"}]
      /\ own \in [Proc -> SUBSET Epoch]
      /\ known \in [Proc -> Epoch] /\ seen \in [Proc -> Epoch]
      /\ readAt \in [Proc -> {"idle", "poll", "direct"}]
      /\ readVal \in [Proc -> Epoch]
  BY <1>1 DEF Init
<1>5. /\ cache \in [Proc -> Version \cup {None}]
      /\ getAt \in [Proc -> {"idle", "db", "rows"}]
      /\ getGen \in [Proc -> Epoch \cup {None}]
      /\ getVal \in [Proc -> Version \cup {None}]
      /\ put \in [gen : Epoch, val : Version] \cup {None}
      /\ mine \in [Proc -> Version]
  BY <1>1 DEF Init
<1>6. TypeOK
  BY <1>1, <1>2, <1>3, <1>4, <1>5 DEF TypeOK
<1>7. Noted /\ Trusted /\ Owned /\ Rows /\ Follows
  BY DEF Init, Noted, Trusted, Owned, Rows, Follows
<1> QED
  BY <1>6, <1>7 DEF Base

\* The cache of a process is cleared, and its cached read given up.
LEMMA ClearIs ==
  ASSUME TypeOK, NEW p \in Proc, ClearCache(p), UNCHANGED <<conf, epoch>>
  PROVE  /\ cache' \in [Proc -> Version' \cup {None}]
         /\ getAt' \in [Proc -> {"idle", "db", "rows"}]
         /\ getGen' \in [Proc -> Epoch' \cup {None}]
         /\ getVal' \in [Proc -> Version' \cup {None}]
         /\ cache'[p] = None /\ getAt'[p] = "idle"
         /\ \A q \in Proc : q # p => /\ cache'[q] = cache[q] /\ getAt'[q] = getAt[q]
                                    /\ getGen'[q] = getGen[q] /\ getVal'[q] = getVal[q]
<1>1. Version' = Version /\ Epoch' = Epoch
  BY DEF Version, Epoch
<1> QED
  BY <1>1 DEF ClearCache, EndGet, TypeOK

\* A move begins: it spoils a read of its process.
LEMMA StartMoveIs ==
  ASSUME TypeOK, NEW p \in Proc, StartMove(p), epoch' = epoch
  PROVE  /\ bumpAt' \in [Proc -> {"idle", "update", "select"}]
         /\ own' = own /\ readAt' = readAt /\ readVal' = readVal /\ seen' = seen
         /\ readClean' \in [Proc -> BOOLEAN]
         /\ bumpAt[p] = "idle" /\ bumpAt'[p] = "update" /\ ~readClean'[p]
         /\ \A q \in Proc : q # p => bumpAt'[q] = bumpAt[q] /\ (readClean'[q] <=> readClean[q])
<1>1. PICK no \in BOOLEAN : no = FALSE
  OBVIOUS
<1>2. readClean' = [readClean EXCEPT ![p] = no]
  BY <1>1 DEF StartMove
<1>3. readClean' \in [Proc -> BOOLEAN] /\ readClean'[p] = no
  BY <1>2 DEF TypeOK
<1>4. \A q \in Proc : q # p => readClean'[q] = readClean[q]
  BY <1>2 DEF TypeOK
<1> QED
  BY <1>1, <1>3, <1>4 DEF StartMove, TypeOK

\* A read begins, trusted when no move is under way.
LEMMA StartReadIs ==
  ASSUME TypeOK, NEW p \in Proc, NEW kind \in {"poll", "direct"}, StartRead(p, kind),
         epoch' = epoch
  PROVE  /\ readAt' \in [Proc -> {"idle", "poll", "direct"}]
         /\ readVal' \in [Proc -> Epoch'] /\ readClean' \in [Proc -> BOOLEAN]
         /\ seen' = seen
         /\ readVal'[p] = epoch /\ (readClean'[p] <=> bumpAt[p] = "idle")
         /\ \A q \in Proc : q # p => /\ readAt'[q] = readAt[q] /\ readVal'[q] = readVal[q]
                                    /\ (readClean'[q] <=> readClean[q])
<1>1. PICK clean \in BOOLEAN : clean = Clean(p)
  BY DEF Clean
<1>2. readClean' = [readClean EXCEPT ![p] = clean]
  BY <1>1 DEF StartRead
<1>3. readClean' \in [Proc -> BOOLEAN] /\ readClean'[p] = clean
  BY <1>2 DEF TypeOK
<1>4. \A q \in Proc : q # p => readClean'[q] = readClean[q]
  BY <1>2 DEF TypeOK
<1>5. readAt' \in [Proc -> {"idle", "poll", "direct"}] /\ readVal' \in [Proc -> Epoch']
  BY DEF StartRead, TypeOK, Epoch
<1>6. clean <=> bumpAt[p] = "idle"
  BY <1>1 DEF Clean
<1> QED
  BY <1>3, <1>4, <1>5, <1>6 DEF StartRead, TypeOK

\* Its answer lands, and is learnt when it is trusted.
LEMMA LandReadIs ==
  ASSUME TypeOK, NEW p \in Proc, LandRead(p), epoch' = epoch
  PROVE  /\ readAt' \in [Proc -> {"idle", "poll", "direct"}]
         /\ readVal' \in [Proc -> Epoch'] /\ readClean' \in [Proc -> BOOLEAN]
         /\ known' \in [Proc -> Epoch']
         /\ readAt'[p] = "idle"
         /\ \/ known'[p] = readVal[p] /\ readClean[p]
            \/ known'[p] = known[p] /\ ~readClean[p]
         /\ \A q \in Proc : q # p => /\ readAt'[q] = readAt[q] /\ readVal'[q] = readVal[q]
                                    /\ (readClean'[q] <=> readClean[q])
                                    /\ known'[q] = known[q]
<1>1. PICK no \in BOOLEAN : no = FALSE
  OBVIOUS
<1>2. readClean' = [readClean EXCEPT ![p] = no]
  BY <1>1 DEF LandRead
<1>3. readClean' \in [Proc -> BOOLEAN]
  BY <1>2 DEF TypeOK
<1>4. \A q \in Proc : q # p => readClean'[q] = readClean[q]
  BY <1>2 DEF TypeOK
<1>5. Epoch' = Epoch /\ 0 \in Epoch
  BY DEF TypeOK, Epoch
<1>6. readAt' \in [Proc -> {"idle", "poll", "direct"}] /\ readVal' \in [Proc -> Epoch']
  BY <1>5 DEF LandRead, TypeOK
<1>7. /\ known' \in [Proc -> Epoch']
      /\ \A q \in Proc : q # p => known'[q] = known[q]
      /\ \/ known'[p] = readVal[p] /\ readClean[p]
         \/ known'[p] = known[p] /\ ~readClean[p]
  <2>1. CASE readClean[p]
    <3>1. known' = [known EXCEPT ![p] = readVal[p]]
      BY <2>1 DEF LandRead, Learn
    <3>2. /\ known' \in [Proc -> Epoch'] /\ known'[p] = readVal[p]
          /\ \A q \in Proc : q # p => known'[q] = known[q]
      BY <1>5, <3>1 DEF TypeOK
    <3> QED
      BY <2>1, <3>2
  <2>2. CASE ~readClean[p]
    <3>1. known' = known
      BY <2>2 DEF LandRead
    <3> QED
      BY <1>5, <2>2, <3>1 DEF TypeOK
  <2> QED
    BY <2>1, <2>2
<1> QED
  BY <1>3, <1>4, <1>6, <1>7 DEF LandRead, TypeOK

\* Every step keeps the types.
LEMMA TypeNext == TypeOK /\ Noted /\ [Next]_vars => TypeOK'
<1> SUFFICES ASSUME TypeOK, Noted, [Next]_vars PROVE TypeOK'
  OBVIOUS
<1> USE DEF writeVars, bumpVars, readVars, getVars
<1>1. ASSUME NEW p \in Proc, NoteWrite(p) PROVE TypeOK'
  <2>1. /\ used' \in [Proc -> 0..MaxUses]
        /\ stmt' \in [Proc -> {"idle", "run", "ran"}]
    BY <1>1, ConfigEpochAssumption DEF NoteWrite, Use, TypeOK
  <2>2. dirty' \in [Proc -> BOOLEAN] /\ timer' \in [Proc -> BOOLEAN]
    BY <1>1 DEF NoteWrite, TypeOK
  <2>3. ClearCache(p) /\ UNCHANGED <<conf, epoch, l2, known, put, mine>>
    BY <1>1 DEF NoteWrite
  <2>4. StartMove(p) \/ UNCHANGED <<bumpVars, readVars>>
    BY <1>1 DEF NoteWrite
  <2>7. /\ cache' \in [Proc -> Version' \cup {None}]
        /\ getAt' \in [Proc -> {"idle", "db", "rows"}]
        /\ getGen' \in [Proc -> Epoch' \cup {None}]
        /\ getVal' \in [Proc -> Version' \cup {None}]
    BY <2>3, ClearIs
  <2>5. CASE StartMove(p)
    <3>1. /\ bumpAt' \in [Proc -> {"idle", "update", "select"}]
        /\ own' = own /\ readAt' = readAt /\ readVal' = readVal /\ seen' = seen
        /\ readClean' \in [Proc -> BOOLEAN]
      BY <2>3, <2>5, StartMoveIs
    <3> QED
      BY <2>1, <2>2, <2>3, <2>7, <3>1 DEF TypeOK, Version, Epoch
  <2>6. CASE UNCHANGED <<bumpVars, readVars>>
    BY <2>1, <2>2, <2>3, <2>6, <2>7 DEF TypeOK, Version, Epoch
  <2> QED
    BY <2>4, <2>5, <2>6
<1>2. ASSUME NEW p \in Proc, Land(p) PROVE TypeOK'
  <2>1. /\ conf' \in Nat /\ Version \subseteq Version' /\ conf' \in Version'
        /\ mine' \in [Proc -> Version']
        /\ stmt' \in [Proc -> {"idle", "run", "ran"}]
    BY <1>2 DEF Land, TypeOK, Version
  <2>2. UNCHANGED <<epoch, l2, used, dirty, timer, bumpVars, readVars, known, cache, getVars, put>>
    BY <1>2 DEF Land
  <2>3. put' \in [gen : Epoch', val : Version'] \cup {None}
    BY <2>1, <2>2 DEF TypeOK, Epoch
  <2>4. l2' \in [Epoch' -> Version' \cup {None}]
    BY <2>1, <2>2 DEF TypeOK, Epoch
  <2> QED
    BY <2>1, <2>2, <2>3, <2>4 DEF TypeOK, Epoch
<1>3. ASSUME NEW p \in Proc, Finish(p) PROVE TypeOK'
  <2>1. stmt' \in [Proc -> {"idle", "run", "ran"}] /\ ClearCache(p)
    BY <1>3 DEF Finish, TypeOK
  <2> QED
    BY <1>3, <2>1, ClearIs DEF Finish, TypeOK, Version, Epoch
<1>4. ASSUME NEW p \in Proc, Trailing(p) PROVE TypeOK'
  <2>1. dirty' \in [Proc -> BOOLEAN] /\ timer' \in [Proc -> BOOLEAN]
    BY <1>4 DEF Trailing, TypeOK
  <2>2. UNCHANGED <<conf, epoch, l2, used, stmt, mine, known, cache, getVars, put>>
    BY <1>4 DEF Trailing
  <2>3. CASE StartMove(p)
    BY <2>1, <2>2, <2>3, StartMoveIs DEF TypeOK, Version, Epoch
  <2>4. CASE UNCHANGED <<bumpVars, readVars>>
    BY <2>1, <2>2, <2>4 DEF TypeOK, Version, Epoch
  <2> QED
    BY <1>4, <2>3, <2>4 DEF Trailing
<1>5. ASSUME NEW p \in Proc, Bust(p) PROVE TypeOK'
  <2>1. used' \in [Proc -> 0..MaxUses] /\ dirty' \in [Proc -> BOOLEAN]
    BY <1>5, ConfigEpochAssumption DEF Bust, Use, TypeOK
  <2>2. /\ StartMove(p) /\ ClearCache(p)
        /\ UNCHANGED <<conf, epoch, l2, stmt, mine, timer, known, put>>
    BY <1>5 DEF Bust
  <2>3. /\ cache' \in [Proc -> Version' \cup {None}]
        /\ getAt' \in [Proc -> {"idle", "db", "rows"}]
        /\ getGen' \in [Proc -> Epoch' \cup {None}]
        /\ getVal' \in [Proc -> Version' \cup {None}]
    BY <2>2, ClearIs
  <2>4. /\ bumpAt' \in [Proc -> {"idle", "update", "select"}]
        /\ own' = own /\ readAt' = readAt /\ readVal' = readVal /\ seen' = seen
        /\ readClean' \in [Proc -> BOOLEAN]
    BY <2>2, StartMoveIs
  <2> QED
    BY <2>1, <2>2, <2>3, <2>4 DEF TypeOK, Version, Epoch
<1>6. ASSUME NEW p \in Proc, MoveUpdate(p) PROVE TypeOK'
  <2>1. /\ bumpAt' \in [Proc -> {"idle", "update", "select"}]
        /\ epoch' \in Nat /\ Epoch \subseteq Epoch'
    BY <1>6 DEF MoveUpdate, TypeOK, Epoch
  <2>2. l2' \in [Epoch' -> Version' \cup {None}]
    BY <1>6 DEF MoveUpdate, TypeOK, Epoch, Version
  <2>3. UNCHANGED <<conf, writeVars, own, readVars, known, cache, getVars, put>>
    BY <1>6 DEF MoveUpdate
  <2>4. own' \in [Proc -> SUBSET Epoch']
    BY <2>1, <2>3 DEF TypeOK
  <2>5. put' \in [gen : Epoch', val : Version'] \cup {None}
    BY <2>1, <2>3 DEF TypeOK, Version
  <2> QED
    BY <2>1, <2>2, <2>3, <2>4, <2>5 DEF TypeOK, Version
<1>7. ASSUME NEW p \in Proc, MoveSelect(p) PROVE TypeOK'
  <2>1. own' \in [Proc -> SUBSET Epoch']
    BY <1>7 DEF MoveSelect, TypeOK, Epoch
  <2>2. known' \in [Proc -> Epoch'] /\ bumpAt' \in [Proc -> {"idle", "update", "select"}]
    BY <1>7 DEF MoveSelect, Learn, TypeOK, Epoch
  <2> QED
    BY <1>7, <2>1, <2>2 DEF MoveSelect, TypeOK, Version, Epoch
<1>8. ASSUME NEW p \in Proc, Poll(p) PROVE TypeOK'
  BY <1>8, StartReadIs DEF Poll, TypeOK, Version, Epoch
<1>9. ASSUME NEW p \in Proc, LandPoll(p) PROVE TypeOK'
  <2>1. LandRead(p) /\ UNCHANGED <<conf, epoch, l2, writeVars, bumpVars, put>>
    BY <1>9 DEF LandPoll
  <2>2. seen' \in [Proc -> Epoch']
    BY <1>9 DEF LandPoll, TypeOK, Epoch
  <2>3. CASE ClearCache(p)
    BY <2>1, <2>2, <2>3, LandReadIs, ClearIs DEF TypeOK, Version, Epoch
  <2>4. CASE UNCHANGED <<cache, getVars>>
    BY <2>1, <2>2, <2>4, LandReadIs DEF TypeOK, Version, Epoch
  <2> QED
    BY <1>9, <2>3, <2>4 DEF LandPoll
<1>10. ASSUME NEW p \in Proc, LandDirect(p) PROVE TypeOK'
  BY <1>10, LandReadIs DEF LandDirect, TypeOK, Version, Epoch
<1>11. ASSUME NEW p \in Proc, ReadDirect(p) PROVE TypeOK'
  BY <1>11, StartReadIs DEF ReadDirect, TypeOK, Version, Epoch
<1>12. ASSUME NEW p \in Proc, Hit(p) PROVE TypeOK'
  <2>1. cache' \in [Proc -> Version \cup {None}]
    BY <1>12 DEF Hit, TypeOK
  <2> QED
    BY <1>12, <2>1 DEF Hit, TypeOK, Version, Epoch
<1>13. ASSUME NEW p \in Proc, Miss(p) PROVE TypeOK'
  <2>1. /\ getAt' \in [Proc -> {"idle", "db", "rows"}]
        /\ getGen' \in [Proc -> Epoch \cup {None}]
    <3>1. getAt' \in [Proc -> {"idle", "db", "rows"}]
      BY <1>13 DEF Miss, TypeOK
    <3>2. getGen' = getGen \/ getGen' = [getGen EXCEPT ![p] = known[p]]
      BY <1>13 DEF Miss
    <3> QED
      BY <3>1, <3>2 DEF TypeOK
  <2> QED
    BY <1>13, <2>1 DEF Miss, TypeOK, Version, Epoch
<1>14. ASSUME NEW p \in Proc, ReadDatabase(p) PROVE TypeOK'
  BY <1>14 DEF ReadDatabase, TypeOK, Version, Epoch
<1>15. ASSUME NEW p \in Proc, TakeRows(p) PROVE TypeOK'
  <2>1. cache' \in [Proc -> Version \cup {None}]
    BY <1>15 DEF TakeRows, TypeOK
  <2>2. EndGet(p) /\ UNCHANGED <<conf, epoch, l2, writeVars, bumpVars, readVars, known>>
    BY <1>15 DEF TakeRows
  <2>3. put' \in [gen : Epoch, val : Version] \cup {None}
    <3>1. CASE Store(p)
      <4>1. getVal[p] \in Version /\ getGen[p] \in Epoch
        BY <1>15, <3>1 DEF TakeRows, Noted, Store, Current, TypeOK
      <4> QED
        BY <3>1, <4>1 DEF Store
    <3> QED
      BY <1>15, <3>1 DEF TakeRows, TypeOK
  <2>4. /\ getAt' \in [Proc -> {"idle", "db", "rows"}]
        /\ getGen' \in [Proc -> Epoch \cup {None}]
        /\ getVal' \in [Proc -> Version \cup {None}]
    BY <2>2 DEF EndGet, TypeOK
  <2> QED
    BY <2>1, <2>2, <2>3, <2>4 DEF TypeOK, Version, Epoch
<1>16. ASSUME NEW p \in Proc, Expire(p) PROVE TypeOK'
  BY <1>16 DEF Expire, TypeOK, Version, Epoch
<1>17. CASE StoreLands
  <2>1. l2' \in [Epoch -> Version \cup {None}]
    BY <1>17 DEF StoreLands, TypeOK
  <2> QED
    BY <1>17, <2>1 DEF StoreLands, TypeOK, Version, Epoch
<1>18. CASE UNCHANGED vars
  BY <1>18 DEF vars, TypeOK, Version, Epoch
<1> QED
  BY <1>1, <1>2, <1>3, <1>4, <1>5, <1>6, <1>7, <1>8, <1>9, <1>10, <1>11, <1>12,
     <1>13, <1>14, <1>15, <1>16, <1>17, <1>18 DEF Next, Write, Move, Watch, Get

\* A write is noted before it is sent; an answer from the database is a value.
LEMMA NotedNext == TypeOK /\ Noted /\ [Next]_vars => Noted'
<1> SUFFICES ASSUME TypeOK, Noted, [Next]_vars PROVE Noted'
  OBVIOUS
<1> USE DEF writeVars, bumpVars, readVars, getVars
<1>1. ASSUME NEW p \in Proc, NoteWrite(p) PROVE Noted'
  <2>1. ClearCache(p) /\ UNCHANGED <<conf, epoch>>
    BY <1>1 DEF NoteWrite
  <2>2. /\ \A q \in Proc : getAt'[q] = "rows" => getAt[q] = "rows" /\ getVal'[q] = getVal[q]
    BY <2>1, ClearIs
  <2> QED
    BY <1>1, <2>2 DEF NoteWrite, TypeOK, Noted
<1>2. ASSUME NEW p \in Proc, Land(p) PROVE Noted'
  BY <1>2 DEF Land, TypeOK, Noted
<1>3. ASSUME NEW p \in Proc, Finish(p) PROVE Noted'
  BY <1>3, ClearIs DEF Finish, TypeOK, Noted
<1>4. ASSUME NEW p \in Proc, Trailing(p) PROVE Noted'
  BY <1>4 DEF Trailing, TypeOK, Noted
<1>5. ASSUME NEW p \in Proc, Bust(p) PROVE Noted'
  BY <1>5, ClearIs DEF Bust, TypeOK, Noted
<1>6. ASSUME NEW p \in Proc, LandPoll(p) PROVE Noted'
  BY <1>6, ClearIs DEF LandPoll, TypeOK, Noted
<1>7. ASSUME NEW p \in Proc, Miss(p) PROVE Noted'
  BY <1>7 DEF Miss, TypeOK, Noted
<1>8. ASSUME NEW p \in Proc, ReadDatabase(p) PROVE Noted'
  <2>1. conf \in Nat /\ conf # None
    BY ConfigEpochAssumption DEF TypeOK
  <2> QED
    BY <1>8, <2>1 DEF ReadDatabase, TypeOK, Noted
<1>9. ASSUME NEW p \in Proc, TakeRows(p) PROVE Noted'
  BY <1>9 DEF TakeRows, EndGet, TypeOK, Noted
<1>10. ASSUME UNCHANGED <<stmt, dirty, getAt, getVal>> PROVE Noted'
  BY <1>10 DEF Noted
<1> QED
  BY <1>1, <1>2, <1>3, <1>4, <1>5, <1>6, <1>7, <1>8, <1>9, <1>10
     DEF Next, Write, Move, Watch, Get, MoveUpdate, MoveSelect, Poll, LandDirect,
         ReadDirect, Hit, Expire, StoreLands, vars

\* A move that begins spoils a read under way, and known grows while one is not.
LEMMA TrustedNext == TypeOK /\ Trusted /\ [Next]_vars => Trusted'
<1> SUFFICES ASSUME TypeOK, Trusted, [Next]_vars PROVE Trusted'
  OBVIOUS
<1> USE DEF writeVars, bumpVars, readVars, getVars
<1>1. ASSUME NEW p \in Proc, StartMove(p), UNCHANGED <<epoch, known>> PROVE Trusted'
  BY <1>1, StartMoveIs DEF TypeOK, Trusted
<1>2. ASSUME NEW p \in Proc, StartRead(p, "poll") \/ StartRead(p, "direct"),
             UNCHANGED <<epoch, known, bumpVars>>
      PROVE  Trusted'
  <2>1. known[p] <= epoch
    BY DEF TypeOK, Epoch
  <2>2. /\ readVal'[p] = epoch /\ (readClean'[p] <=> bumpAt[p] = "idle")
        /\ \A q \in Proc : q # p => /\ readAt'[q] = readAt[q] /\ readVal'[q] = readVal[q]
                                   /\ (readClean'[q] <=> readClean[q])
    BY <1>2, StartReadIs
  <2> QED
    BY <1>2, <2>1, <2>2 DEF Trusted
<1>3. ASSUME NEW p \in Proc, LandRead(p), UNCHANGED <<epoch, bumpVars>> PROVE Trusted'
  BY <1>3, LandReadIs DEF Trusted
<1>4. ASSUME NEW p \in Proc, Move(p) PROVE Trusted'
  <2>1. CASE MoveUpdate(p)
    BY <2>1 DEF MoveUpdate, TypeOK, Trusted
  <2>2. CASE MoveSelect(p)
    <3>1. \A q \in Proc : q # p => known'[q] = known[q] /\ bumpAt'[q] = bumpAt[q]
      BY <2>2 DEF MoveSelect, Learn, TypeOK
    <3>2. bumpAt[p] # "idle" /\ UNCHANGED readVars
      BY <2>2 DEF MoveSelect
    <3> QED
      BY <3>1, <3>2 DEF Trusted
  <2> QED
    BY <1>4, <2>1, <2>2 DEF Move
<1>5. ASSUME UNCHANGED <<known, bumpAt, readAt, readVal, readClean>> PROVE Trusted'
  BY <1>5 DEF Trusted
<1> QED
  BY <1>1, <1>2, <1>3, <1>4, <1>5
     DEF Next, Write, Watch, Get, NoteWrite, Land, Finish, Trailing, Bust, Poll, LandPoll,
         LandDirect, ReadDirect, Hit, Miss, ReadDatabase, TakeRows, Expire, StoreLands, vars

\* The last write to land is its process's last.
LEMMA OwnedNext == TypeOK /\ Owned /\ [Next]_vars => Owned'
<1> SUFFICES ASSUME TypeOK, Owned, [Next]_vars PROVE Owned'
  OBVIOUS
<1>1. ASSUME NEW p \in Proc, Land(p) PROVE Owned'
  BY <1>1 DEF Land, TypeOK, Owned
<1>2. ASSUME UNCHANGED <<conf, mine>> PROVE Owned'
  BY <1>2 DEF Owned
<1> QED
  BY <1>1, <1>2
     DEF Next, Write, Move, Watch, Get, NoteWrite, Finish, Trailing, Bust, MoveUpdate,
         MoveSelect, Poll, LandPoll, LandDirect, ReadDirect, Hit, Miss, ReadDatabase,
         TakeRows, Expire, StoreLands, vars, writeVars

\* A read that began before a write of its process lands is dropped when the
\* write settles.
LEMMA RowsNext == TypeOK /\ Rows /\ [Next]_vars => Rows'
<1> SUFFICES ASSUME TypeOK, Rows, [Next]_vars PROVE Rows'
  OBVIOUS
<1> USE DEF writeVars, bumpVars, readVars, getVars
<1>1. ASSUME NEW p \in Proc, ClearCache(p), UNCHANGED <<conf, epoch, mine>>,
             \A q \in Proc : q # p => stmt'[q] = stmt[q]
      PROVE  Rows'
  BY <1>1, ClearIs DEF TypeOK, Rows
<1>2. ASSUME NEW p \in Proc, Land(p) PROVE Rows'
  BY <1>2 DEF Land, TypeOK, Rows
<1>3. ASSUME NEW p \in Proc, Miss(p) PROVE Rows'
  BY <1>3 DEF Miss, TypeOK, Rows
<1>4. ASSUME NEW p \in Proc, ReadDatabase(p) PROVE Rows'
  BY <1>4 DEF ReadDatabase, TypeOK, Version, Rows
<1>5. ASSUME NEW p \in Proc, TakeRows(p) PROVE Rows'
  BY <1>5 DEF TakeRows, EndGet, TypeOK, Rows
<1>6. ASSUME UNCHANGED <<stmt, getAt, getVal, mine>> PROVE Rows'
  BY <1>6 DEF Rows
<1>7. ASSUME NEW p \in Proc, NoteWrite(p) \/ Finish(p) PROVE Rows'
  <2>1. \A q \in Proc : q # p => stmt'[q] = stmt[q]
    BY <1>7 DEF NoteWrite, Finish, TypeOK
  <2> QED
    BY <1>1, <1>7, <2>1 DEF NoteWrite, Finish
<1> QED
  BY <1>1, <1>2, <1>3, <1>4, <1>5, <1>6, <1>7
     DEF Next, Write, Move, Watch, Get, Trailing, Bust, MoveUpdate,
         MoveSelect, Poll, LandPoll, LandDirect, ReadDirect, Hit,
         Expire, StoreLands, vars

\* Without a move of its own a process drops no read and learns what it polls.
LEMMA FollowsNext == TypeOK /\ Trusted /\ Follows /\ [Next]_vars => Follows'
<1> SUFFICES ASSUME TypeOK, Trusted, Follows, [Next]_vars PROVE Follows'
  OBVIOUS
<1> USE DEF writeVars, bumpVars, readVars, getVars
<1>1. ASSUME NEW p \in Proc, StartMove(p), UNCHANGED <<epoch, known>> PROVE Follows'
  BY <1>1, StartMoveIs DEF TypeOK, Follows
<1>2. ASSUME NEW p \in Proc, StartRead(p, "poll") \/ StartRead(p, "direct"),
             UNCHANGED <<epoch, known, bumpVars>>
      PROVE  Follows'
  BY <1>2, StartReadIs DEF Follows
<1>3. ASSUME NEW p \in Proc, LandPoll(p) PROVE Follows'
  <2>1. LandRead(p) /\ readAt[p] # "idle" /\ UNCHANGED <<epoch, bumpVars>>
    BY <1>3 DEF LandPoll
  <2>2. /\ readAt'[p] = "idle"
        /\ \/ known'[p] = readVal[p] /\ readClean[p]
           \/ known'[p] = known[p] /\ ~readClean[p]
        /\ \A q \in Proc : q # p => /\ readAt'[q] = readAt[q]
                                   /\ (readClean'[q] <=> readClean[q])
                                   /\ known'[q] = known[q]
    BY <2>1, LandReadIs
  <2>3. seen'[p] = readVal[p] /\ \A q \in Proc : q # p => seen'[q] = seen[q]
    BY <1>3 DEF LandPoll, TypeOK
  <2>4. readVal[p] \in Nat
    BY DEF TypeOK, Epoch
  <2> QED
    BY <2>1, <2>2, <2>3, <2>4 DEF Follows
<1>4. ASSUME NEW p \in Proc, LandDirect(p) PROVE Follows'
  <2>1. LandRead(p) /\ readAt[p] # "idle" /\ UNCHANGED <<epoch, bumpVars, seen>>
    BY <1>4 DEF LandDirect
  <2>2. /\ readAt'[p] = "idle"
        /\ \/ known'[p] = readVal[p] /\ readClean[p]
           \/ known'[p] = known[p] /\ ~readClean[p]
        /\ \A q \in Proc : q # p => /\ readAt'[q] = readAt[q]
                                   /\ (readClean'[q] <=> readClean[q])
                                   /\ known'[q] = known[q]
    BY <2>1, LandReadIs
  <2>3. readVal[p] \in Nat /\ known[p] \in Nat /\ seen[p] \in Nat
    BY DEF TypeOK, Epoch
  <2> QED
    BY <2>1, <2>2, <2>3 DEF Follows, Trusted
<1>5. ASSUME NEW p \in Proc, MoveUpdate(p) PROVE Follows'
  BY <1>5 DEF MoveUpdate, TypeOK, Follows
<1>6. ASSUME NEW p \in Proc, MoveSelect(p) PROVE Follows'
  BY <1>6 DEF MoveSelect, Learn, TypeOK, Follows
<1>7. ASSUME UNCHANGED <<known, bumpAt, own, seen, readAt, readClean>> PROVE Follows'
  BY <1>7 DEF Follows
<1> QED
  BY <1>1, <1>2, <1>3, <1>4, <1>5, <1>6, <1>7
     DEF Next, Write, Move, Watch, Get, NoteWrite, Land, Finish, Trailing, Bust, Poll,
         ReadDirect, Hit, Miss, ReadDatabase, TakeRows, Expire, StoreLands, vars

\* The part of the invariant that asks nothing of the timing is kept.
LEMMA AlwaysBase == Spec => []Base
<1>1. Base /\ [Next]_vars => Base'
  BY TypeNext, NotedNext, TrustedNext, OwnedNext, RowsNext, FollowsNext DEF Base
<1> QED
  BY InitBase, <1>1, PTL DEF Spec

-----------------------------------------------------------------------------
(* With Timely: what is read under a number.                               *)

\* Safe is kept by every step but a write of p.
LEMMA SafeStays ==
  ASSUME TypeOK, [Next]_vars, NEW p \in Proc, NEW e \in Nat, Safe(p, e), mine'[p] = mine[p]
  PROVE  Safe(p, e)'
<1> USE DEF writeVars, bumpVars, readVars, getVars
<1>1. ASSUME NEW q \in Proc, ClearCache(q), UNCHANGED <<conf, epoch, l2, put>>
      PROVE  Safe(p, e)'
  BY <1>1, ClearIs DEF Safe, Epoch
<1>2. ASSUME NEW q \in Proc, MoveUpdate(q) PROVE Safe(p, e)'
  <2>1. \A g \in Epoch' : l2'[g] # None => g \in Epoch /\ l2'[g] = l2[g]
    BY <1>2 DEF MoveUpdate, Epoch
  <2> QED
    BY <1>2, <2>1 DEF MoveUpdate, Safe
<1>3. ASSUME NEW q \in Proc, Miss(q) PROVE Safe(p, e)'
  <2>1. /\ getAt'[q] = "db"
        /\ \A r \in Proc : r # q => getAt'[r] = getAt[r] /\ getGen'[r] = getGen[r]
        /\ UNCHANGED <<epoch, l2, put, getVal>>
    BY <1>3 DEF Miss, TypeOK
  <2> QED
    BY <2>1 DEF Safe, Epoch
<1>4. ASSUME NEW q \in Proc, ReadDatabase(q) PROVE Safe(p, e)'
  <2>1. conf >= mine[p]
    BY DEF TypeOK, Version
  <2> QED
    BY <1>4, <2>1 DEF ReadDatabase, TypeOK, Safe, Epoch
<1>5. ASSUME NEW q \in Proc, TakeRows(q) PROVE Safe(p, e)'
  <2>1. /\ \A r \in Proc : getAt'[r] = "rows" => /\ getAt[r] = "rows" /\ getGen'[r] = getGen[r]
                                              /\ getVal'[r] = getVal[r]
        /\ UNCHANGED <<epoch, l2>>
    BY <1>5 DEF TakeRows, EndGet, TypeOK
  <2>2. put' # None /\ put'.gen >= e => put'.val >= mine'[p]
    <3>1. CASE Store(q)
      <4>1. known[q] \in Nat /\ getGen[q] = known[q] /\ getGen[q] # None
        BY <3>1, ConfigEpochAssumption DEF Store, Current, TypeOK, Epoch
      <4>2. put'.gen = getGen[q] /\ put'.val = getVal[q]
        BY <3>1 DEF Store
      <4> QED
        BY <1>5, <4>1, <4>2 DEF TakeRows, Safe
    <3> QED
      BY <1>5, <3>1 DEF TakeRows, Safe
  <2> QED
    BY <2>1, <2>2 DEF Safe, Epoch
<1>6. CASE StoreLands
  <2>1. put \in [gen : Epoch, val : Version] /\ put.val >= 0
    BY <1>6 DEF StoreLands, TypeOK, Version
  <2>2. \A g \in Epoch : l2'[g] = l2[g] \/ (g = put.gen /\ l2'[g] = put.val)
    BY <1>6, <2>1 DEF StoreLands, TypeOK
  <2> QED
    BY <1>6, <2>1, <2>2 DEF StoreLands, Safe, Epoch
<1>7. CASE UNCHANGED <<epoch, l2, put, getAt, getGen, getVal>>
  BY <1>7 DEF Safe, Epoch
<1> QED
  BY <1>1, <1>2, <1>3, <1>4, <1>5, <1>6, <1>7
     DEF Next, Write, Move, Watch, Get, NoteWrite, Land, Finish, Trailing, Bust, MoveSelect,
         Poll, LandPoll, LandDirect, ReadDirect, Hit, Expire, vars

\* And says the same of every later number.
LEMMA SafeLater ==
  ASSUME TypeOK, NEW p \in Proc, NEW e \in Nat, NEW f \in Nat, e <= f, Safe(p, e)
  PROVE  Safe(p, f)
<1>1. \A g \in Epoch : g \in Nat
  BY DEF Epoch
<1>2. put # None => put.gen \in Nat
  BY DEF TypeOK, Epoch
<1>3. \A q \in Proc : getGen[q] # None => getGen[q] \in Nat
  BY DEF TypeOK, Epoch
<1> QED
  BY <1>1, <1>2, <1>3 DEF Safe

\* A step that makes p read under no number it was not safe to read under.
LEMMA MovedPastStays ==
  ASSUME TypeOK, TypeOK', [Next]_vars, NEW p \in Proc, MovedPast(p), mine'[p] = mine[p],
         epoch' >= epoch,
         ~dirty'[p] /\ bumpAt'[p] # "update" => ~dirty[p] /\ bumpAt[p] # "update",
         ~dirty'[p] /\ bumpAt'[p] = "idle"
           => \/ bumpAt[p] = "idle" /\ known'[p] = known[p]
              \/ readAt[p] # "idle" /\ readClean[p] /\ known'[p] = readVal[p]
              \/ known'[p] = epoch,
         ~dirty'[p] /\ readAt'[p] # "idle" /\ readClean'[p]
           => /\ ~dirty[p]
              /\ \/ readAt[p] # "idle" /\ readClean[p] /\ readVal'[p] = readVal[p]
                 \/ bumpAt[p] = "idle" /\ readVal'[p] = epoch
  PROVE  MovedPast(p)'
<1>1. PICK e \in Nat : e = epoch
  BY DEF TypeOK
<1>2. PICK f \in Nat : f = epoch'
  BY DEF TypeOK
<1>3. PICK k \in Nat : k = known'[p]
  BY DEF TypeOK, Epoch
<1>4. PICK r \in Nat : r = readVal'[p]
  BY DEF TypeOK, Epoch
<1>5. ~dirty'[p] /\ bumpAt'[p] # "update" => Safe(p, epoch)'
  <2>1. SUFFICES ASSUME ~dirty'[p], bumpAt'[p] # "update" PROVE Safe(p, epoch)'
    OBVIOUS
  <2>2. Safe(p, e)
    BY <1>1, <2>1 DEF MovedPast
  <2>3. Safe(p, f)
    BY <1>1, <1>2, <2>2, SafeLater
  <2>4. Safe(p, f)'
    BY <2>3, SafeStays
  <2> QED
    BY <1>2, <2>4 DEF Safe
<1>6. ~dirty'[p] /\ bumpAt'[p] = "idle" => Safe(p, known[p])'
  <2>1. SUFFICES ASSUME ~dirty'[p], bumpAt'[p] = "idle" PROVE Safe(p, known[p])'
    OBVIOUS
  <2>2. Safe(p, k)
    BY <1>3, <2>1 DEF MovedPast
  <2>3. Safe(p, k)'
    BY <2>2, SafeStays
  <2> QED
    BY <1>3, <2>3 DEF Safe
<1>7. ~dirty'[p] /\ readAt'[p] # "idle" /\ readClean'[p] => Safe(p, readVal[p])'
  <2>1. SUFFICES ASSUME ~dirty'[p], readAt'[p] # "idle", readClean'[p]
                 PROVE  Safe(p, readVal[p])'
    OBVIOUS
  <2>2. Safe(p, r)
    BY <1>4, <2>1 DEF MovedPast
  <2>3. Safe(p, r)'
    BY <2>2, SafeStays
  <2> QED
    BY <1>4, <2>3 DEF Safe
<1> QED
  BY <1>5, <1>6, <1>7 DEF MovedPast

\* A process that is not dirty has its writes behind its last move; Timely is
\* what makes the move come after the statement.
LEMMA MovesNext ==
  ASSUME Timely, Base, Base', [Next]_vars, Moves
  PROVE  Moves'
<1> SUFFICES ASSUME NEW p \in Proc PROVE MovedPast(p)'
  BY DEF Moves
<1> USE DEF writeVars, bumpVars, readVars, getVars
<1>1. TypeOK /\ TypeOK' /\ Noted /\ Noted' /\ Trusted /\ MovedPast(p)
  BY DEF Base, Moves
<1>2. ASSUME NEW q \in Proc, NoteWrite(q) \/ Land(q) \/ Finish(q) PROVE MovedPast(p)'
  <2>1. CASE q = p /\ Land(q)
    <3>1. dirty[p] /\ dirty' = dirty
      BY <1>1, <2>1 DEF Land, Noted
    <3> QED
      BY <3>1 DEF MovedPast
  <2>2. CASE q = p /\ NoteWrite(q)
    <3>1. dirty'[p]
      BY <1>1, <2>2 DEF NoteWrite, TypeOK
    <3> QED
      BY <3>1 DEF MovedPast
  <2>3. CASE q # p \/ Finish(q)
    <3>1. /\ mine'[p] = mine[p] /\ epoch' = epoch /\ known' = known
          /\ (dirty'[p] <=> dirty[p])
      BY <1>1, <1>2, <2>3 DEF NoteWrite, Land, Finish, TypeOK
    <3>2. /\ bumpAt'[p] = bumpAt[p] /\ readAt'[p] = readAt[p] /\ readVal'[p] = readVal[p]
          /\ (readClean'[p] <=> readClean[p])
      <4>1. CASE StartMove(q) /\ q # p
        BY <1>1, <3>1, <4>1, StartMoveIs
      <4>2. CASE UNCHANGED <<bumpVars, readVars>>
        BY <4>2
      <4> QED
        BY <1>2, <2>3, <4>1, <4>2 DEF NoteWrite, Land, Finish
    <3>3. epoch' >= epoch
      BY <1>1, <3>1 DEF TypeOK
    <3> QED
      BY <1>1, <3>1, <3>2, <3>3, MovedPastStays DEF Trusted
  <2> QED
    BY <1>2, <2>1, <2>2, <2>3
<1>3. ASSUME NEW q \in Proc, Trailing(q) \/ Bust(q) PROVE MovedPast(p)'
  <2>1. /\ mine' = mine /\ epoch' = epoch /\ known' = known
        /\ q # p => (dirty'[p] <=> dirty[p])
        /\ StartMove(q) \/ (UNCHANGED <<bumpVars, readVars>> /\ ~dirty[q] /\ ~dirty'[q])
    BY <1>1, <1>3 DEF Trailing, Bust, TypeOK
  <2>2. CASE StartMove(q) /\ q = p
    <3>1. bumpAt'[p] = "update" /\ ~readClean'[p]
      BY <1>1, <2>1, <2>2, StartMoveIs
    <3> QED
      BY <3>1 DEF MovedPast
  <2>3. CASE q # p \/ (UNCHANGED <<bumpVars, readVars>> /\ ~dirty[q] /\ ~dirty'[q])
    <3>1. dirty'[p] <=> dirty[p]
      BY <2>1, <2>3
    <3>2. /\ bumpAt'[p] = bumpAt[p] /\ readAt'[p] = readAt[p] /\ readVal'[p] = readVal[p]
          /\ (readClean'[p] <=> readClean[p])
      BY <1>1, <2>1, <2>3, StartMoveIs
    <3>3. epoch' >= epoch
      BY <1>1, <2>1 DEF TypeOK
    <3> QED
      BY <1>1, <2>1, <3>1, <3>2, <3>3, MovedPastStays DEF Trusted
  <2> QED
    BY <2>1, <2>2, <2>3
<1>4. ASSUME NEW q \in Proc, MoveUpdate(q) PROVE MovedPast(p)'
  <2>1. CASE q # p
    <3>1. epoch' >= epoch /\ bumpAt'[p] = bumpAt[p]
      BY <1>1, <1>4, <2>1 DEF MoveUpdate, TypeOK
    <3> QED
      BY <1>1, <1>4, <3>1, MovedPastStays DEF MoveUpdate, Trusted
  <2>2. CASE q = p
    <3>1. bumpAt[p] = "update" /\ bumpAt'[p] = "select" /\ UNCHANGED readVars
      BY <1>1, <1>4, <2>2 DEF MoveUpdate, TypeOK
    <3>2. Safe(p, epoch)'
      <4>1. epoch' \in Nat /\ epoch' = epoch + 1 /\ UNCHANGED <<put, getVars>>
        BY <1>1, <1>4 DEF MoveUpdate, TypeOK
      <4>2. \A g \in Epoch' : g >= epoch' => l2'[g] = None
        <5> SUFFICES ASSUME NEW g \in Epoch', g >= epoch' PROVE l2'[g] = None
          OBVIOUS
        <5>1. g \in 0..epoch' /\ g \notin Epoch
          BY <1>1, <4>1 DEF Epoch, TypeOK
        <5>2. l2' = [n \in 0..epoch' |-> IF n \in Epoch THEN l2[n] ELSE None]
          BY <1>4 DEF MoveUpdate
        <5> QED
          BY <5>1, <5>2
      <4>3. /\ put # None => put.gen < epoch'
            /\ \A r \in Proc : getGen[r] # None => getGen[r] < epoch'
        <5>1. \A g \in Epoch : g < epoch'
          BY <1>1, <4>1 DEF TypeOK, Epoch
        <5>2. put # None => put.gen \in Epoch
          BY <1>1 DEF TypeOK
        <5>3. \A r \in Proc : getGen[r] # None => getGen[r] \in Epoch
          BY <1>1 DEF TypeOK
        <5> QED
          BY <5>1, <5>2, <5>3
      <4>4. put # None => put.gen \in Nat
        BY <1>1 DEF TypeOK, Epoch
      <4>5. \A r \in Proc : getGen[r] # None => getGen[r] \in Nat
        BY <1>1 DEF TypeOK, Epoch
      <4> QED
        BY <4>1, <4>2, <4>3, <4>4, <4>5 DEF Safe
    <3>3. ~(readAt'[p] # "idle" /\ readClean'[p])
      BY <1>1, <3>1 DEF Trusted
    <3> QED
      BY <3>1, <3>2, <3>3 DEF MovedPast
  <2> QED
    BY <2>1, <2>2
<1>5. ASSUME NEW q \in Proc, MoveSelect(q) PROVE MovedPast(p)'
  <2>1. /\ mine' = mine /\ epoch' = epoch /\ dirty' = dirty /\ UNCHANGED readVars
        /\ IF q = p THEN bumpAt[p] = "select" /\ known'[p] = epoch
                    ELSE bumpAt'[p] = bumpAt[p] /\ known'[p] = known[p]
    BY <1>1, <1>5 DEF MoveSelect, Learn, TypeOK
  <2>2. epoch' >= epoch
    BY <1>1, <2>1 DEF TypeOK
  <2> QED
    BY <1>1, <2>1, <2>2, MovedPastStays DEF Trusted
<1>6. ASSUME NEW q \in Proc, Poll(q) \/ ReadDirect(q) PROVE MovedPast(p)'
  <2>1. /\ StartRead(q, "poll") \/ StartRead(q, "direct")
        /\ UNCHANGED <<epoch, writeVars, bumpVars, known>>
    BY <1>6 DEF Poll, ReadDirect
  <2>2. IF q = p THEN readVal'[p] = epoch /\ (readClean'[p] <=> bumpAt[p] = "idle")
                 ELSE /\ readAt'[p] = readAt[p] /\ readVal'[p] = readVal[p]
                      /\ (readClean'[p] <=> readClean[p])
    BY <1>1, <2>1, StartReadIs
  <2>3. epoch' >= epoch
    BY <1>1, <2>1 DEF TypeOK
  <2> QED
    BY <1>1, <2>1, <2>2, <2>3, MovedPastStays
<1>7. ASSUME NEW q \in Proc, LandPoll(q) \/ LandDirect(q) PROVE MovedPast(p)'
  <2>1. /\ LandRead(q) /\ readAt[q] # "idle"
        /\ UNCHANGED <<epoch, writeVars, bumpVars>>
    BY <1>7 DEF LandPoll, LandDirect
  <2>2. IF q = p THEN /\ readAt'[p] = "idle"
                      /\ known'[p] = known[p] \/ (readClean[p] /\ known'[p] = readVal[p])
                 ELSE /\ readAt'[p] = readAt[p] /\ readVal'[p] = readVal[p]
                      /\ (readClean'[p] <=> readClean[p]) /\ known'[p] = known[p]
    BY <1>1, <2>1, LandReadIs
  <2>3. epoch' >= epoch
    BY <1>1, <2>1 DEF TypeOK
  <2> QED
    BY <1>1, <2>1, <2>2, <2>3, MovedPastStays
<1>8. CASE UNCHANGED <<epoch, mine, dirty, bumpAt, known, readAt, readVal, readClean>>
  <2>1. epoch' >= epoch
    BY <1>1, <1>8 DEF TypeOK
  <2> QED
    BY <1>1, <1>8, <2>1, MovedPastStays
<1> QED
  BY <1>2, <1>3, <1>4, <1>5, <1>6, <1>7, <1>8
     DEF Next, Write, Move, Watch, Get, Hit, Miss, ReadDatabase, TakeRows, Expire,
         StoreLands, vars

\* The cache of p after a step is what it was, or what p took from Redis or from
\* the database.
LEMMA CacheIs ==
  ASSUME TypeOK, [Next]_vars, NEW p \in Proc, cache'[p] # None
  PROVE  \/ cache'[p] = cache[p]
         \/ Hit(p) /\ cache'[p] = l2[known[p]] /\ known[p] \in Epoch
         \/ TakeRows(p) /\ cache'[p] = getVal[p]
<1> USE DEF writeVars, bumpVars, readVars, getVars
<1>1. ASSUME NEW q \in Proc, ClearCache(q), UNCHANGED <<conf, epoch>>
      PROVE  cache'[p] = cache[p]
  BY <1>1, ClearIs
<1>2. ASSUME NEW q \in Proc, Hit(q)
      PROVE  cache'[p] = cache[p] \/ (Hit(p) /\ cache'[p] = l2[known[p]] /\ known[p] \in Epoch)
  <2>1. CASE q = p
    BY <1>2, <2>1 DEF Hit, TypeOK
  <2>2. CASE q # p
    BY <1>2, <2>2 DEF Hit, TypeOK
  <2> QED
    BY <2>1, <2>2
<1>3. ASSUME NEW q \in Proc, TakeRows(q)
      PROVE  cache'[p] = cache[p] \/ (TakeRows(p) /\ cache'[p] = getVal[p])
  <2>1. CASE q = p
    BY <1>3, <2>1 DEF TakeRows, TypeOK
  <2>2. CASE q # p
    BY <1>3, <2>2 DEF TakeRows, TypeOK
  <2> QED
    BY <2>1, <2>2
<1>4. ASSUME NEW q \in Proc, Expire(q) PROVE cache'[p] = cache[p]
  BY <1>4 DEF Expire, TypeOK
<1>5. ASSUME UNCHANGED cache PROVE cache'[p] = cache[p]
  BY <1>5
<1> QED
  BY <1>1, <1>2, <1>3, <1>4, <1>5
     DEF Next, Write, Move, Watch, Get, NoteWrite, Land, Finish, Trailing, Bust, MoveUpdate,
         MoveSelect, Poll, LandPoll, LandDirect, ReadDirect, Miss, ReadDatabase,
         StoreLands, vars

\* What is in memory is not older than the process's own last write.
LEMMA OwnReadNext ==
  ASSUME Base, Moves, ReadYourWrites, [Next]_vars
  PROVE  ReadYourWrites'
<1> SUFFICES ASSUME NEW p \in Proc, stmt'[p] # "ran", cache'[p] # None
             PROVE  cache'[p] >= mine'[p]
  BY DEF ReadYourWrites
<1>1. TypeOK /\ Rows
  BY DEF Base
<1>2. CASE Finish(p)
  BY <1>1, <1>2, ClearIs DEF Finish
<1>3. CASE ~Finish(p)
  <2>1. stmt[p] # "ran" /\ mine'[p] = mine[p]
    BY <1>1, <1>3
       DEF Next, Write, Move, Watch, Get, NoteWrite, Land, Finish, Trailing, Bust, MoveUpdate,
           MoveSelect, Poll, LandPoll, LandDirect, ReadDirect, Hit, Miss, ReadDatabase,
           TakeRows, Expire, StoreLands, vars, writeVars, TypeOK
  <2>2. CASE cache'[p] = cache[p]
    BY <2>1, <2>2 DEF ReadYourWrites
  <2>3. CASE Hit(p) /\ cache'[p] = l2[known[p]] /\ known[p] \in Epoch
    <3>1. ~dirty[p] /\ bumpAt[p] = "idle"
      BY <2>3 DEF Hit, Settled
    <3>2. Safe(p, known[p]) /\ known[p] >= known[p]
      BY <2>3, <3>1 DEF Moves, MovedPast, Epoch
    <3> QED
      BY <2>1, <2>3, <3>2 DEF Safe
  <2>4. CASE TakeRows(p) /\ cache'[p] = getVal[p]
    BY <1>1, <2>1, <2>4 DEF TakeRows, Rows
  <2> QED
    BY <1>1, <2>2, <2>3, <2>4, CacheIs
<1> QED
  BY <1>2, <1>3

\* And, where it has polled the last number and moved nothing itself, not older
\* than anybody's write that was moved past.
LEMMA PolledNext ==
  ASSUME Timely, Base, Base', Moves, Polled, [Next]_vars
  PROVE  Polled'
<1> SUFFICES ASSUME NEW p \in Proc, NEW q \in Proc, own'[p] = {}, seen'[p] = epoch',
                    ~dirty'[q], bumpAt'[q] # "update"
             PROVE  /\ cache'[p] # None => cache'[p] >= mine'[q]
                    /\ getAt'[p] = "rows" => getVal'[p] >= mine'[q]
  BY DEF Polled
<1> USE DEF writeVars, bumpVars, readVars, getVars
<1>1. TypeOK /\ TypeOK' /\ Noted /\ Trusted /\ Follows
  BY DEF Base
<1>2. ~\E r \in Proc : MoveUpdate(r)
  <2>1. (seen'[p] <= epoch /\ epoch \in Nat) \/ ~\E r \in Proc : MoveUpdate(r)
    BY <1>1 DEF MoveUpdate, TypeOK, Epoch
  <2> QED
    BY <1>1, <2>1 DEF MoveUpdate
<1>3. epoch' = epoch
  BY <1>2
     DEF Next, Write, Move, Watch, Get, NoteWrite, Land, Finish, Trailing, Bust,
         MoveSelect, Poll, LandPoll, LandDirect, ReadDirect, Hit, Miss, ReadDatabase,
         TakeRows, Expire, StoreLands, vars
<1>4. own[p] = {}
  <2>1. ASSUME NEW r \in Proc, MoveSelect(r) PROVE own[p] = {}
    BY <1>1, <2>1 DEF MoveSelect, TypeOK
  <2>2. CASE UNCHANGED own
    BY <2>2
  <2> QED
    BY <2>1, <2>2
       DEF Next, Write, Move, Watch, Get, NoteWrite, Land, Finish, Trailing, Bust, StartMove,
           MoveUpdate, Poll, LandPoll, LandDirect, ReadDirect, Hit, Miss, ReadDatabase,
           TakeRows, Expire, StoreLands, vars
<1>5. ~dirty[q] /\ bumpAt[q] # "update"
  <2>1. ASSUME NEW r \in Proc, Trailing(r) \/ Bust(r) PROVE ~dirty[q] /\ bumpAt[q] # "update"
    <3>1. /\ r # q => (dirty'[q] <=> dirty[q])
          /\ StartMove(r) \/ (UNCHANGED bumpVars /\ dirty' = dirty)
      <4>1. CASE Bust(r)
        BY <1>1, <4>1 DEF Bust, TypeOK
      <4>2. CASE Trailing(r) /\ dirty[r]
        BY <1>1, <4>2 DEF Trailing, TypeOK
      <4>3. CASE Trailing(r) /\ ~dirty[r]
        BY <1>1, <4>3 DEF Trailing, TypeOK
      <4> QED
        BY <2>1, <4>1, <4>2, <4>3
    <3>2. StartMove(r) => r # q /\ bumpAt'[q] = bumpAt[q]
      BY <1>1, <1>3, StartMoveIs
    <3> QED
      BY <3>1, <3>2
  <2>2. ASSUME NEW r \in Proc, NoteWrite(r) PROVE ~dirty[q] /\ bumpAt[q] # "update"
    <3>1. r # q /\ (dirty'[q] <=> dirty[q])
      <4>1. dirty'[r]
        BY <1>1, <2>2 DEF NoteWrite, TypeOK
      <4>2. r # q => (dirty'[q] <=> dirty[q])
        BY <1>1, <2>2 DEF NoteWrite, TypeOK
      <4> QED
        BY <4>1, <4>2
    <3>2. StartMove(r) => bumpAt'[q] = bumpAt[q]
      BY <1>1, <1>3, <3>1, StartMoveIs
    <3> QED
      BY <2>2, <3>1, <3>2 DEF NoteWrite
  <2>3. ASSUME NEW r \in Proc, MoveSelect(r) PROVE ~dirty[q] /\ bumpAt[q] # "update"
    BY <1>1, <2>3 DEF MoveSelect, TypeOK
  <2>4. CASE UNCHANGED <<dirty, bumpAt>>
    BY <2>4
  <2> QED
    BY <1>2, <2>1, <2>2, <2>3, <2>4
       DEF Next, Write, Move, Watch, Get, Land, Finish, Poll, LandPoll, LandDirect,
           ReadDirect, Hit, Miss, ReadDatabase, TakeRows, Expire, StoreLands, vars
<1>6. mine'[q] = mine[q] /\ mine[q] <= conf
  <2>1. ~Land(q)
    BY <1>1, <1>5 DEF Land, Noted
  <2> QED
    BY <1>1, <2>1
       DEF Next, Write, Move, Watch, Get, NoteWrite, Land, Finish, Trailing, Bust, MoveUpdate,
           MoveSelect, Poll, LandPoll, LandDirect, ReadDirect, Hit, Miss, ReadDatabase,
           TakeRows, Expire, StoreLands, vars, TypeOK, Version
<1>7. CASE seen[p] = epoch
  <2>1. /\ cache[p] # None => cache[p] >= mine[q]
        /\ getAt[p] = "rows" => getVal[p] >= mine[q]
    BY <1>4, <1>5, <1>7 DEF Polled
  <2>2. cache'[p] # None => cache'[p] >= mine'[q]
    <3>1. CASE Hit(p) /\ cache'[p] = l2[known[p]] /\ known[p] \in Epoch
      <4>1. bumpAt[p] = "idle" /\ known[p] >= epoch
        BY <1>4, <1>7, <3>1 DEF Hit, Settled, Follows, Base
      <4>2. Safe(q, epoch)
        BY <1>5 DEF Moves, MovedPast
      <4> QED
        BY <1>6, <3>1, <4>1, <4>2 DEF Safe
    <3>2. CASE TakeRows(p) /\ cache'[p] = getVal[p]
      BY <1>6, <2>1, <3>2 DEF TakeRows
    <3>3. CASE cache'[p] = cache[p]
      BY <1>6, <2>1, <3>3
    <3> QED
      BY <1>1, <3>1, <3>2, <3>3, CacheIs
  <2>3. getAt'[p] = "rows" => getVal'[p] >= mine'[q]
    <3>1. ASSUME NEW r \in Proc, ClearCache(r), UNCHANGED <<conf, epoch>>
          PROVE  getAt'[p] = "rows" => getAt[p] = "rows" /\ getVal'[p] = getVal[p]
      BY <1>1, <3>1, ClearIs
    <3>2. ASSUME NEW r \in Proc, Miss(r) \/ TakeRows(r)
          PROVE  getAt'[p] = "rows" => getAt[p] = "rows" /\ getVal'[p] = getVal[p]
      BY <1>1, <3>2 DEF Miss, TakeRows, EndGet, TypeOK
    <3>3. ASSUME NEW r \in Proc, ReadDatabase(r)
          PROVE  getVal'[p] = conf \/ (getAt'[p] = getAt[p] /\ getVal'[p] = getVal[p])
      BY <1>1, <3>3 DEF ReadDatabase, TypeOK
    <3>4. CASE UNCHANGED <<getAt, getVal>>
      BY <1>6, <2>1, <3>4
    <3>5. CASE \E r \in Proc : ReadDatabase(r)
      <4>1. conf \in Nat /\ mine[q] \in Nat
        BY <1>1 DEF TypeOK, Version
      <4> QED
        BY <1>6, <2>1, <3>3, <3>5, <4>1
    <3> QED
      BY <1>6, <2>1, <3>1, <3>2, <3>4, <3>5
         DEF Next, Write, Move, Watch, Get, NoteWrite, Land, Finish, Trailing, Bust, MoveUpdate,
             MoveSelect, Poll, LandPoll, LandDirect, ReadDirect, Hit, Expire, StoreLands, vars
  <2> QED
    BY <2>2, <2>3
<1>8. CASE seen[p] # epoch
  <2>1. LandPoll(p)
    BY <1>1, <1>3, <1>8
       DEF Next, Write, Move, Watch, Get, NoteWrite, Land, Finish, Trailing, Bust, StartMove,
           MoveUpdate, MoveSelect, Poll, LandPoll, LandDirect, ReadDirect, StartRead, Hit, Miss,
           ReadDatabase, TakeRows, Expire, StoreLands, vars, TypeOK
  <2>2. readVal[p] # seen[p] /\ readVal[p] \notin own[p]
    BY <1>1, <1>3, <1>4, <1>8, <2>1 DEF LandPoll, TypeOK
  <2>3. ClearCache(p) /\ UNCHANGED <<conf, epoch>>
    BY <2>1, <2>2 DEF LandPoll, Moved
  <2> QED
    BY <1>1, <2>3, ClearIs
<1> QED
  BY <1>7, <1>8

-----------------------------------------------------------------------------

\* And so is the part that does, when the timing is as assumed.
LEMMA AlwaysTimely == Timely /\ Spec => [](Base /\ Moves /\ ReadYourWrites /\ Polled)
<1>1. Init => Moves /\ ReadYourWrites /\ Polled
  BY DEF Init, Moves, MovedPast, Safe, ReadYourWrites, Polled, Epoch
<1>2. CASE Timely
  <2>1. /\ Base /\ Moves /\ ReadYourWrites /\ Polled
        /\ [Next]_vars /\ Base'
        => (Base /\ Moves /\ ReadYourWrites /\ Polled)'
    BY <1>2, MovesNext, OwnReadNext, PolledNext
  <2>2. Spec => [](Base /\ Moves /\ ReadYourWrites /\ Polled)
    BY <1>1, <2>1, InitBase, AlwaysBase, PTL DEF Spec
  <2> QED
    BY <2>2
<1> QED
  BY <1>2

\* Every number a process or Redis holds was given out, and every answer is that
\* of a write that landed.
THEOREM TypesHold == Spec => []TypeOK
<1>1. Base => TypeOK
  BY DEF Base
<1> QED
  BY AlwaysBase, <1>1, PTL

\* A process reads its own writes once they have settled, through Redis as well
\* (metadata-query-cache.ts:249, metadata-l2.ts:534).
THEOREM ReadYourWritesHolds == Timely /\ Spec => []ReadYourWrites
  BY AlwaysTimely, PTL

\* When nothing is under way, what Redis holds under the number is the
\* configuration (config-epoch.ts:561, the trailing move after the statement).
THEOREM SharedIsCurrentHolds == Timely /\ Spec => []SharedIsCurrent
<1>1. Base /\ Moves => SharedIsCurrent
  <2> SUFFICES ASSUME Base, Moves, Quiet, l2[epoch] # None PROVE l2[epoch] = conf
    BY DEF SharedIsCurrent
  <2>1. epoch \in Epoch /\ epoch >= epoch /\ l2[epoch] \in 0..conf /\ conf \in Nat
    BY DEF Base, TypeOK, Epoch, Version
  <2>2. \A p \in Proc : l2[epoch] >= mine[p]
    BY <2>1 DEF Quiet, Moves, MovedPast, Safe
  <2> QED
    BY <2>1, <2>2 DEF Base, Owned
<1> QED
  BY AlwaysTimely, <1>1, PTL

\* A process that has polled the last move and made none follows the others
\* (config-epoch.ts:653).
THEOREM ReaderIsCurrentHolds == Timely /\ Spec => []ReaderIsCurrent
<1>1. Base /\ Polled => ReaderIsCurrent
  <2> SUFFICES ASSUME Base, Polled, Quiet, NEW p \in Proc, seen[p] = epoch, own[p] = {},
                      cache[p] # None
               PROVE  cache[p] = conf
    BY DEF ReaderIsCurrent
  <2>1. cache[p] \in 0..conf /\ conf \in Nat
    BY DEF Base, TypeOK, Version
  <2>2. \A q \in Proc : cache[p] >= mine[q]
    BY DEF Quiet, Polled
  <2> QED
    BY <2>1, <2>2 DEF Base, Owned
<1> QED
  BY AlwaysTimely, <1>1, PTL

\* The number a process knows never goes back: a read that crosses an own move is
\* dropped (config-epoch.ts:483).
THEOREM KnownGrowsHolds == Spec => KnownGrows
<1>1. Base /\ [Next]_vars => \A p \in Proc : known'[p] >= known[p]
  <2> SUFFICES ASSUME Base, [Next]_vars, NEW p \in Proc PROVE known'[p] >= known[p]
    OBVIOUS
  <2>1. TypeOK /\ Trusted /\ known[p] \in Nat /\ known[p] <= epoch
    BY DEF Base, TypeOK, Epoch
  <2>2. ASSUME NEW q \in Proc, MoveSelect(q) PROVE known'[p] >= known[p]
    <3>1. known'[p] \in {known[p], epoch}
      BY <2>1, <2>2 DEF MoveSelect, Learn, TypeOK
    <3> QED
      BY <2>1, <3>1 DEF TypeOK
  <2>3. ASSUME NEW q \in Proc, LandPoll(q) \/ LandDirect(q) PROVE known'[p] >= known[p]
    <3>1. LandRead(q) /\ readAt[q] # "idle" /\ epoch' = epoch
      BY <2>3 DEF LandPoll, LandDirect
    <3>2. known'[p] = known[p] \/ (q = p /\ readClean[p] /\ known'[p] = readVal[p])
      BY <2>1, <3>1, LandReadIs
    <3> QED
      BY <2>1, <3>1, <3>2 DEF Trusted
  <2>4. CASE UNCHANGED known
    BY <2>1, <2>4
  <2> QED
    BY <2>2, <2>3, <2>4
       DEF Next, Write, Move, Watch, Get, NoteWrite, Land, Finish, Trailing, Bust, MoveUpdate,
           Poll, ReadDirect, Hit, Miss, ReadDatabase, TakeRows, Expire, StoreLands, vars
<1>2. Base /\ [Next]_vars => [\A p \in Proc : known'[p] >= known[p]]_vars
  BY <1>1
<1> QED
  BY AlwaysBase, <1>2, PTL DEF Spec, KnownGrows

=============================================================================
