----------------------------- MODULE ConfigEpoch -----------------------------
(***************************************************************************)
(* How the processes on one database learn that configuration changed:     *)
(* src/api/src/db/config-epoch.ts, with the two cache levels it keeps      *)
(* honest, db/metadata-query-cache.ts (in the process) and                 *)
(* db/metadata-l2.ts (in Redis, keyed by the epoch).  One configuration    *)
(* statement and its result stand for all of them: a cached answer is the  *)
(* number of the write it reflects.  The steps of a process are its turns  *)
(* between two awaits; those of the database and of Redis come between.    *)
(*                                                                         *)
(* Bounds: MaxUses writes and busts of a process, which has at most one    *)
(* write, one move, one read of the epoch and one cached read under way,   *)
(* and Redis one store.  Assumed: the database is not restored             *)
(* (incarnation tags are left out), a move does not fail, every process    *)
(* has made its first poll, and Timely.                                    *)
(***************************************************************************)
EXTENDS Integers

CONSTANTS
  Proc,        \* API processes and scripts on one database
  None,
  Server,      \* those that poll, with their cached reads; the others only write
  MaxUses,     \* writes and busts asked for by hand, together, of each process
  Timely       \* FALSE: a statement may outlast the trailing delay, and a bust
               \* may come while one is under way

ASSUME ConfigEpochAssumption ==
  /\ Server \subseteq Proc
  /\ MaxUses \in Nat
  /\ Timely \in BOOLEAN
  /\ None \notin Nat

VARIABLES
  conf,      \* the configuration the database holds: the last write to land
  epoch,     \* the number in nivaro_cache_epochs
  l2,        \* Redis: for each epoch so far the answer stored under it, or None
  used,      \* writes and busts of each process so far
  stmt,      \* of each process: its write; idle, run (sent), ran (landed)
  dirty, timer,   \* dirty; the trailing timer is pending
  bumpAt,    \* the move under way: idle, update, select
  own,       \* values this process read after its own moves
  known,     \* latestKnown
  seen,      \* the value of the last poll
  readAt, readVal, readClean, \* the read of the epoch: idle, poll, direct
  cache,     \* the answer held in memory, or None
  getAt, getGen, getVal,      \* the cached read: idle, db, rows
  put,       \* the store on its way to Redis, or None
  mine       \* ghost: the last own write to land

writeVars == <<stmt, dirty, timer, mine, used>>
bumpVars  == <<bumpAt, own>>
readVars  == <<readAt, readVal, readClean, seen>>
getVars   == <<getAt, getGen, getVal>>
vars == <<conf, epoch, l2, writeVars, bumpVars, readVars, known, cache, getVars, put>>

\* The writes that have landed, and the numbers given out, so far.
Version == 0..conf
Epoch == 0..epoch

TypeOK ==
  /\ conf \in Nat /\ epoch \in Nat
  /\ l2 \in [Epoch -> Version \cup {None}]
  /\ used \in [Proc -> 0..MaxUses]
  /\ stmt \in [Proc -> {"idle", "run", "ran"}]
  /\ dirty \in [Proc -> BOOLEAN] /\ timer \in [Proc -> BOOLEAN]
  /\ bumpAt \in [Proc -> {"idle", "update", "select"}]
  /\ own \in [Proc -> SUBSET Epoch]
  /\ known \in [Proc -> Epoch] /\ seen \in [Proc -> Epoch]
  /\ readAt \in [Proc -> {"idle", "poll", "direct"}]
  /\ readVal \in [Proc -> Epoch] /\ readClean \in [Proc -> BOOLEAN]
  /\ cache \in [Proc -> Version \cup {None}]
  /\ getAt \in [Proc -> {"idle", "db", "rows"}]
  /\ getGen \in [Proc -> Epoch \cup {None}]
  /\ getVal \in [Proc -> Version \cup {None}]
  /\ put \in [gen : Epoch, val : Version] \cup {None}
  /\ mine \in [Proc -> Version]

Init ==
  /\ conf = 0 /\ epoch = 0 /\ used = [p \in Proc |-> 0]
  /\ l2 = [e \in {0} |-> None]
  /\ stmt = [p \in Proc |-> "idle"] /\ mine = [p \in Proc |-> 0]
  /\ dirty = [p \in Proc |-> FALSE] /\ timer = [p \in Proc |-> FALSE]
  /\ bumpAt = [p \in Proc |-> "idle"]
  /\ own = [p \in Proc |-> {}]
  /\ known = [p \in Proc |-> 0]
  /\ seen = [p \in Proc |-> 0]
  /\ readAt = [p \in Proc |-> "idle"] /\ readVal = [p \in Proc |-> 0]
  /\ readClean = [p \in Proc |-> FALSE]
  /\ cache = [p \in Proc |-> None]
  /\ getAt = [p \in Proc |-> "idle"] /\ getGen = [p \in Proc |-> None]
  /\ getVal = [p \in Proc |-> None]
  /\ put = None

-----------------------------------------------------------------------------
(* The write side.                                                         *)

\* The cached read under way ends, or is given up.
EndGet(p) ==
  /\ getAt' = [getAt EXCEPT ![p] = "idle"]
  /\ getGen' = [getGen EXCEPT ![p] = None]
  /\ getVal' = [getVal EXCEPT ![p] = None]

\* clearMetadataQueryCache(): a read under way no longer counts.
ClearCache(p) == cache' = [cache EXCEPT ![p] = None] /\ EndGet(p)

\* The synchronous part of bump(): a read of the epoch it overlaps is spoilt.
StartMove(p) ==
  /\ bumpAt[p] = "idle"
  /\ bumpAt' = [bumpAt EXCEPT ![p] = "update"]
  /\ readClean' = [readClean EXCEPT ![p] = FALSE]
  /\ UNCHANGED <<own, readAt, readVal, seen>>

Use(p) == used[p] < MaxUses /\ used' = [used EXCEPT ![p] = @ + 1]

\* A move began, perhaps less than MIN_GAP_MS ago.
Moving(p) == bumpAt[p] # "idle" \/ own[p] # {}

\* The driver seam hears of a write before it is sent: the first one of a run
\* moves the number at once, each restarts the trailing timer.
NoteWrite(p) ==
  /\ stmt[p] = "idle"
  /\ Use(p)
  /\ stmt' = [stmt EXCEPT ![p] = "run"]
  /\ dirty' = [dirty EXCEPT ![p] = TRUE]
  /\ timer' = [timer EXCEPT ![p] = TRUE]
  /\ ClearCache(p)
  /\ \/ StartMove(p)
     \/ Moving(p) /\ UNCHANGED <<bumpVars, readVars>>
  /\ UNCHANGED <<conf, epoch, l2, known, put, mine>>

\* The statement takes effect at the database.
Land(p) ==
  /\ stmt[p] = "run"
  /\ stmt' = [stmt EXCEPT ![p] = "ran"]
  /\ conf' = conf + 1
  /\ mine' = [mine EXCEPT ![p] = conf + 1]
  /\ UNCHANGED <<epoch, l2, used, dirty, timer, bumpVars, readVars, known,
                 cache, getVars, put>>

\* Mutant: the cache is cleared before the statement only.
FinishQuietly(p) ==
  /\ stmt[p] = "ran"
  /\ stmt' = [stmt EXCEPT ![p] = "idle"]
  /\ UNCHANGED <<conf, epoch, l2, used, dirty, timer, mine, bumpVars, readVars, known,
                 cache, getVars, put>>

\* Its promise settles: the cache is cleared again.
Finish(p) ==
  /\ stmt[p] = "ran"
  /\ stmt' = [stmt EXCEPT ![p] = "idle"]
  /\ ClearCache(p)
  /\ UNCHANGED <<conf, epoch, l2, used, dirty, timer, mine, bumpVars, readVars, known,
                 put>>

\* TRAILING_MS after the last note of the run.
Trailing(p) ==
  /\ timer[p]
  /\ Timely => stmt[p] # "run"
  /\ timer' = [timer EXCEPT ![p] = FALSE]
  /\ IF dirty[p] THEN StartMove(p) ELSE UNCHANGED <<bumpVars, readVars>>
  /\ dirty' = [dirty EXCEPT ![p] = FALSE]
  /\ UNCHANGED <<conf, epoch, l2, used, stmt, mine, known, cache, getVars, put>>

\* bustEverywhere(): clear here, then move the number; nothing is dirty then.
Bust(p) ==
  /\ Use(p)
  /\ Timely => stmt[p] # "run"
  /\ StartMove(p)
  /\ dirty' = [dirty EXCEPT ![p] = FALSE]
  /\ ClearCache(p)
  /\ UNCHANGED <<conf, epoch, l2, stmt, mine, timer, known, put>>

\* The update; its select is another round trip.
MoveUpdate(p) ==
  /\ bumpAt[p] = "update"
  /\ bumpAt' = [bumpAt EXCEPT ![p] = "select"]
  /\ epoch' = epoch + 1
  /\ l2' = [e \in 0..epoch' |-> IF e \in Epoch THEN l2[e] ELSE None]
  /\ UNCHANGED <<conf, writeVars, own, readVars, known, cache, getVars, put>>

\* assignKnown()
Learn(p, value) == known' = [known EXCEPT ![p] = value]

\* The select, whose answer is remembered as this process's own move, whoever
\* moved the number last.  One step: an answer on its way only keeps the
\* process off Redis for longer.
MoveSelect(p) ==
  /\ bumpAt[p] = "select"
  /\ bumpAt' = [bumpAt EXCEPT ![p] = "idle"]
  /\ own' = [own EXCEPT ![p] = @ \cup {epoch}]
  /\ Learn(p, epoch)
  /\ UNCHANGED <<conf, epoch, l2, writeVars, readVars, cache, getVars, put>>

-----------------------------------------------------------------------------
(* The read side: the poll, and the read a lookup makes.                   *)

\* Mutant: beginRead() does not look at the moves under way.
CleanAlways(p) == TRUE

\* A read is trusted when no move of this process overlaps it.
Clean(p) == bumpAt[p] = "idle"

\* A read begins and the database answers it; the answer is on its way.  That
\* the two are one step loses nothing but reads that are not trusted: a move
\* that begins in between spoils the read, as one does that begins after it.
StartRead(p, kind) ==
  /\ readAt[p] = "idle"
  /\ readAt' = [readAt EXCEPT ![p] = kind]
  /\ readVal' = [readVal EXCEPT ![p] = epoch]
  /\ readClean' = [readClean EXCEPT ![p] = Clean(p)]
  /\ UNCHANGED seen

Poll(p) ==
  /\ p \in Server
  /\ StartRead(p, "poll")
  /\ UNCHANGED <<conf, epoch, l2, writeVars, bumpVars, known, cache, getVars, put>>

LandRead(p) ==
  /\ readAt' = [readAt EXCEPT ![p] = "idle"]
  /\ readVal' = [readVal EXCEPT ![p] = 0]
  /\ readClean' = [readClean EXCEPT ![p] = FALSE]
  /\ IF readClean[p] THEN Learn(p, readVal[p]) ELSE UNCHANGED known

\* Mutant: a move counts only when the number grew by one.
MovedByOne(p, value) == value = seen[p] + 1 /\ value \notin own[p]

\* movedNames(): another process moved the number.
Moved(p, value) == value # seen[p] /\ value \notin own[p]

\* The tick: a foreign move clears every cache of the process.
LandPoll(p) ==
  /\ p \in Server
  /\ readAt[p] = "poll"
  /\ LandRead(p)
  /\ seen' = [seen EXCEPT ![p] = readVal[p]]
  /\ IF Moved(p, readVal[p]) THEN ClearCache(p) ELSE UNCHANGED <<cache, getVars>>
  /\ UNCHANGED <<conf, epoch, l2, writeVars, bumpVars, put>>

LandDirect(p) ==
  /\ readAt[p] = "direct"
  /\ LandRead(p)
  /\ UNCHANGED <<conf, epoch, l2, seen, writeVars, bumpVars, cache, getVars, put>>

-----------------------------------------------------------------------------
(* A cached read: memory, then Redis under the epoch, then the database.   *)
(* Until Redis has answered, a lookup reads nothing that a clear of its    *)
(* process or a change of its epoch would not void, so it is one step, at  *)
(* the answer: a lookup whose epoch moved meanwhile is one that passes     *)
(* Redis by.                                                               *)

\* No own move is due: with that and a recent read configEpochNow() is known.
Settled(p) == ~timer[p] /\ ~dirty[p] /\ bumpAt[p] = "idle"

\* Is e still the epoch to read and store under?
Current(p, e) == Settled(p) /\ known[p] = e

Missing(p) == p \in Server /\ cache[p] = None /\ getAt[p] = "idle"

\* The number is older than EPOCH_FRESH_MS: a lookup reads it first.
ReadDirect(p) ==
  /\ Missing(p) /\ Settled(p)
  /\ StartRead(p, "direct")
  /\ UNCHANGED <<conf, epoch, l2, writeVars, bumpVars, known, cache, getVars, put>>

\* The shared level holds the answer.
Hit(p) ==
  /\ Missing(p) /\ Settled(p) /\ l2[known[p]] # None
  /\ cache' = [cache EXCEPT ![p] = l2[known[p]]]
  /\ UNCHANGED <<conf, epoch, l2, writeVars, bumpVars, readVars, known, getVars, put>>

\* It does not, and the database's answer may be stored there; or it is passed
\* by: no epoch to key on, Redis slow or down.
Miss(p) ==
  /\ Missing(p)
  /\ getAt' = [getAt EXCEPT ![p] = "db"]
  /\ \/ getGen' = getGen
     \/ Settled(p) /\ l2[known[p]] = None /\ getGen' = [getGen EXCEPT ![p] = known[p]]
  /\ UNCHANGED <<conf, epoch, l2, writeVars, bumpVars, readVars, known, cache, getVal, put>>

ReadDatabase(p) ==
  /\ getAt[p] = "db"
  /\ getAt' = [getAt EXCEPT ![p] = "rows"]
  /\ getVal' = [getVal EXCEPT ![p] = conf]
  /\ UNCHANGED <<conf, epoch, l2, writeVars, bumpVars, readVars, known, cache, getGen, put>>

\* Mutant: the answer is stored under the epoch of the moment.
StoreUnderNow(p) ==
  /\ Settled(p)
  /\ put' = [gen |-> known[p], val |-> getVal[p]]

\* metadataL2Put(): under the epoch its lookup began in, if that still holds
\* when the command is sent.
Store(p) ==
  /\ Current(p, getGen[p])
  /\ put' = [gen |-> getGen[p], val |-> getVal[p]]

\* The rows go to memory and, when Redis is used, to Redis.
TakeRows(p) ==
  /\ getAt[p] = "rows"
  /\ cache' = [cache EXCEPT ![p] = getVal[p]]
  /\ EndGet(p)
  /\ \/ put = None /\ Store(p)
     \/ UNCHANGED put
  /\ UNCHANGED <<conf, epoch, l2, writeVars, bumpVars, readVars, known>>

StoreLands ==
  /\ put # None
  /\ l2' = [l2 EXCEPT ![put.gen] = put.val]
  /\ put' = None
  /\ UNCHANGED <<conf, epoch, writeVars, bumpVars, readVars, known, cache, getVars>>

\* TTL_MS of the entry in memory.
Expire(p) ==
  /\ cache[p] # None
  /\ cache' = [cache EXCEPT ![p] = None]
  /\ UNCHANGED <<conf, epoch, l2, writeVars, bumpVars, readVars, known, getVars, put>>

-----------------------------------------------------------------------------
Write(p) == NoteWrite(p) \/ Land(p) \/ Finish(p) \/ Trailing(p) \/ Bust(p)
Move(p) == MoveUpdate(p) \/ MoveSelect(p)
Watch(p) == Poll(p) \/ LandPoll(p) \/ LandDirect(p)
Get(p) == ReadDirect(p) \/ Hit(p) \/ Miss(p) \/ ReadDatabase(p) \/ TakeRows(p)

Next ==
  \/ \E p \in Proc : Write(p) \/ Move(p) \/ Watch(p) \/ Get(p) \/ Expire(p)
  \/ StoreLands

Spec == Init /\ [][Next]_vars

-----------------------------------------------------------------------------
(* Properties.                                                             *)

\* A process reads its own writes: once its statement has settled, what it
\* holds in memory is not older (metadata-query-cache.ts: "a config edit made
\* by this process is visible on the next read"), through Redis too.
ReadYourWrites ==
  \A p \in Proc : stmt[p] # "ran" /\ cache[p] # None => cache[p] >= mine[p]

\* No write and no move is under way anywhere.
Quiet == \A p \in Proc : stmt[p] = "idle" /\ ~timer[p] /\ ~dirty[p] /\ bumpAt[p] = "idle"

\* Once the writes have settled, what Redis holds under the epoch is the
\* configuration: "entries stored before the write become unreachable without
\* anyone deleting them" (metadata-l2.ts).
SharedIsCurrent == Quiet => l2[epoch] \in {conf, None}

\* A process that has polled the last move and made none itself holds no
\* configuration older than it.
ReaderIsCurrent ==
  Quiet => \A p \in Proc : seen[p] = epoch /\ own[p] = {} => cache[p] \in {conf, None}

\* The same of every process: "a process that sees the number move clears its
\* caches" (config-epoch.ts).
EveryoneIsCurrent ==
  Quiet => \A p \in Proc : seen[p] = epoch => cache[p] \in {conf, None}

\* The number a process knows never goes back, so that it may read a smaller
\* one as a restored database: answers that cross its own moves are dropped.
KnownGrows == [][\A p \in Proc : known'[p] >= known[p]]_vars
==============================================================================
