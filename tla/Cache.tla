------------------------------- MODULE Cache -------------------------------
(***************************************************************************)
(* The disk cache of libtransmission/cache.c, between the blocks that come *)
(* from peers and webseeds (peer-msgs.c, webseed.c), the completion of a   *)
(* torrent (torrent.c), the files (inout.c) and the .resume file.          *)
(*                                                                         *)
(* Everything here happens in the event thread.  The sorted array of       *)
(* cached blocks is the function cache; a run of the array is a maximal    *)
(* interval of cached blocks of one torrent.  What a flush can do is the   *)
(* set of its outcomes: a write may fail, after a part of it has reached   *)
(* the disk, and flushing stops there.                                     *)
(***************************************************************************)
EXTENDS Integers, FiniteSets

CONSTANTS Torrents,
          BlockCount,  \* tor->blockCount, the same for each of them
          PieceOf,     \* tr_torBlockPiece, as a function of the block
          Files,       \* the block ranges [first, last] of the files, by their index
          Limits,      \* the values max_blocks may be set to
          Contents,    \* what a peer may send as a block: "good", or "bad" too
          Webseeds,    \* the torrents have webseeds
          MayFail,     \* writes may fail
          MayShort,    \* pwrite may write less than it was asked to
          AgeStep,     \* bound: time passes in steps of that many units of 32 s
          MaxAge       \* bound: the age of a cached block

Blocks == 0 .. BlockCount - 1
NoData == "none"
Data == {"good", "bad", NoData}

ASSUME CacheAssumption ==
  /\ IsFiniteSet(Torrents)
  /\ BlockCount \in Nat \ {0}
  /\ PieceOf \in [Blocks -> Nat]
  /\ \A b, c \in Blocks : b <= c => PieceOf[b] <= PieceOf[c]
  /\ Limits \subseteq Nat /\ Limits # {}
  /\ Contents \subseteq {"good", "bad"}
  /\ Files \in [DOMAIN Files -> [first : Blocks, last : Blocks]]
  /\ AgeStep \in Nat /\ MaxAge \in Nat

VARIABLES
  cache,      \* the cached contents of each block, or NoData
  age,        \* (now - cache_block.time) / 32, 0 for a block that is not cached
  maxBlocks,  \* cache->max_blocks
  disk,       \* the contents of the files
  have,       \* tor->completion.blockBitfield
  saved,      \* the blocks bitfield of the .resume file
  todo,       \* the files that tr_torrentPieceCompleted has still to flush
  freed,      \* the torrents freeTorrent() has freed
  failed      \* history: the torrents that have seen a write error

vars == <<cache, age, maxBlocks, disk, have, saved, todo, freed, failed>>

NoContents == [t \in Torrents |-> [b \in Blocks |-> NoData]]

Init ==
  /\ cache = NoContents
  /\ age = [t \in Torrents |-> [b \in Blocks |-> 0]]
  /\ maxBlocks \in Limits
  /\ disk = NoContents
  /\ have = [t \in Torrents |-> {}]
  /\ saved = have
  /\ todo = {}
  /\ freed = {}
  /\ failed = {}

-----------------------------------------------------------------------------
(* Runs, and their ranks.                                                  *)

Cached(c, t, b) == b \in Blocks /\ c[t][b] # NoData
Size(c) == Cardinality({tb \in Torrents \X Blocks : Cached(c, tb[1], tb[2])})

Run == [tor : Torrents, first : Blocks, last : Blocks]
Length(r) == r.last - r.first + 1
InRuns(F, t, b) == \E r \in F : r.tor = t /\ r.first <= b /\ b <= r.last

\* what getBlockRun finds from each start of a run on
Runs(c) == {r \in Run : /\ r.first <= r.last
                        /\ \A b \in r.first .. r.last : Cached(c, r.tor, b)
                        /\ ~Cached(c, r.tor, r.first - 1)
                        /\ ~Cached(c, r.tor, r.last + 1)}

BlocksOf(p) == {b \in Blocks : PieceOf[b] = p}
PieceIsComplete(h, p) == BlocksOf(p) \subseteq h

IsDone(r) == PieceIsComplete(have[r.tor], PieceOf[r.last])
IsMulti(r) == PieceOf[r.first] # PieceOf[r.last]

MULTIFLAG == 4096
DONEFLAG == 8192

\* rank | flag
OrFlag(rank, flag) == IF (rank \div flag) % 2 = 1 THEN rank ELSE rank + flag

\* calcRuns' rank of a run
Rank(r) ==
  LET aged == Length(r) + age[r.tor][r.last]
      done == IF IsDone(r) THEN OrFlag(aged, DONEFLAG) ELSE aged
  IN IF IsMulti(r) THEN OrFlag(done, MULTIFLAG) ELSE done

ByRank(c) == [r \in Runs(c) |-> Rank(r)]

\* The sets that qsort may put first: those with the highest keys, in an
\* order that is free among equals.
Prefixes(F, key) == {P \in SUBSET F : \A p \in P, q \in F \ P : key[p] >= key[q]}

-----------------------------------------------------------------------------
(* Flushing.  s is a record of the cache, the disk and the failed torrents. *)

Here == [cache |-> cache, disk |-> disk, failed |-> failed, err |-> FALSE]

\* The blocks of the runs F leave the cache for the disk, without those in lost.
Wrote(s, F, lost) ==
  [s EXCEPT
    !.cache = [t \in Torrents |-> [b \in Blocks |->
                 IF InRuns(F, t, b) THEN NoData ELSE s.cache[t][b]]],
    !.disk = [t \in Torrents |-> [b \in Blocks |->
                IF InRuns(F, t, b) /\ Cached(s.cache, t, b) /\ <<t, b>> \notin lost
                THEN s.cache[t][b] ELSE s.disk[t][b]]]]

\* what a write of r that breaks off leaves unwritten
Tails(r) == {{r.tor} \X (b .. r.last) : b \in r.first .. r.last}

\* Mutant: the write error is not noticed.
FailsSilently(s, P, r) == {Wrote(s, P \cup {r}, lost) : lost \in Tails(r)}

\* flushContiguous of r after the runs P: the blocks have left the cache when
\* tr_ioWrite fails, and the torrent has its local error.
Fails(s, P, r) ==
  {[Wrote(s, P \cup {r}, lost) EXCEPT !.failed = @ \cup {r.tor}, !.err = TRUE] :
     lost \in Tails(r)}

\* flushRuns of the runs F, from the highest key down
Flush(s, F, key) ==
  {Wrote(s, F, {})}
  \cup (IF MayShort THEN {Wrote(s, F, lost) : lost \in UNION {Tails(r) : r \in F}} ELSE {})
  \cup (IF MayFail
        THEN UNION {UNION {Fails(s, P, r) : r \in {q \in F \ P : P \cup {q} \in Prefixes(F, key)}} :
                      P \in Prefixes(F, key)}
        ELSE {})

Total(F) == Cardinality({tb \in Torrents \X Blocks : InRuns(F, tb[1], tb[2])})

\* The runs cacheTrim may choose: from the highest rank down, until the cutoff.
Chosen(F, key, limit) ==
  LET cutoff == 1 + limit \div 4
  IN {P \in Prefixes(F, key) :
        /\ Total(P) >= cutoff
        /\ \E r \in P : P \ {r} \in Prefixes(F, key) /\ Total(P \ {r}) < cutoff}

\* Mutant: the cache may grow to one block more than its limit.
TrimLate(s, limit) ==
  IF Size(s.cache) > limit + 1
  THEN UNION {Flush(s, P, ByRank(s.cache)) : P \in Chosen(Runs(s.cache), ByRank(s.cache), limit)}
  ELSE {s}

\* cacheTrim
Trim(s, limit) ==
  IF Size(s.cache) > limit
  THEN UNION {Flush(s, P, ByRank(s.cache)) : P \in Chosen(Runs(s.cache), ByRank(s.cache), limit)}
  ELSE {s}

\* Mutant: only runs that end in a complete piece are due.
DueIfDone(r) == IsDone(r)

\* the runs tr_cacheFlushDone is after
IsDue(r) == IsDone(r) \/ IsMulti(r)

\* tr_cacheFlushDone: the runs of highest rank, while they are done or multi
FlushDone(s) ==
  LET F == Runs(s.cache)
      key == ByRank(s.cache)
      Due == {r \in F : IsDue(r)}
      Leading == {P \in Prefixes(F, key) :
                    /\ P \subseteq Due
                    /\ P = F \/ \E r \in F \ P : r \notin Due /\ P \cup {r} \in Prefixes(F, key)}
  IN UNION {Flush(s, P, key) : P \in Leading}

\* Mutant: only the runs that start in the file are flushed.
FlushFileWhole(s, t, f) ==
  LET F == {r \in Runs(s.cache) : r.tor = t /\ f.first <= r.first /\ r.first <= f.last}
  IN Flush(s, F, [r \in F |-> -r.first])

\* tr_cacheFlushFile: the runs from the file's first block on that start in it
FlushFile(s, t, f) ==
  LET Cut(r) == [r EXCEPT !.first = IF @ < f.first THEN f.first ELSE @]
      F == {Cut(r) : r \in {q \in Runs(s.cache) : /\ q.tor = t /\ q.last >= f.first
                                                 /\ q.first <= f.last}}
  IN Flush(s, F, [r \in F |-> -r.first])

\* tr_cacheFlushTorrent: the runs of the torrent
FlushTorrent(s, t) ==
  LET F == {r \in Runs(s.cache) : r.tor = t}
  IN Flush(s, F, [r \in F |-> -r.first])

\* The program goes on from the outcome s.
Become(s) ==
  /\ cache' = s.cache
  /\ disk' = s.disk
  /\ failed' = s.failed

\* and no block was written into the cache
Flushed(s) ==
  /\ Become(s)
  /\ age' = [t \in Torrents |-> [b \in Blocks |-> IF s.cache[t][b] = NoData THEN 0 ELSE age[t][b]]]

-----------------------------------------------------------------------------
(* Blocks that arrive.                                                     *)

\* tr_cacheReadBlock
Read(s, t, b) == IF s.cache[t][b] # NoData THEN s.cache[t][b] ELSE s.disk[t][b]

\* tr_ioTestPiece
TestPiece(s, t, p) == \A b \in BlocksOf(p) : Read(s, t, b) = "good"

\* tr_cacheWriteBlock of the contents d, up to its cacheTrim
Put(t, b, d) == [Here EXCEPT !.cache = [cache EXCEPT ![t][b] = d]]

\* the block it writes is the youngest one
Written(t, b, s) ==
  /\ Become(s)
  /\ age' = [u \in Torrents |-> [c \in Blocks |->
              IF s.cache[u][c] = NoData \/ (u = t /\ c = b) THEN 0 ELSE age[u][c]]]

FileIsComplete(h, f) == f.first .. f.last \subseteq h
FilesOf(p) == {i \in DOMAIN Files : PieceOf[Files[i].first] <= p /\ p <= PieceOf[Files[i].last]}

\* Mutant: the block after this one is marked.
GotNextBlock(s, t, b) == have' = [have EXCEPT ![t] = @ \cup {b + 1}] /\ todo' = {}

\* Mutant: a piece that has all of its blocks is not tested.
GotBlockUntested(s, t, b) == have' = [have EXCEPT ![t] = @ \cup {b}] /\ todo' = {}

\* tr_torrentGotBlock: mark the block, and test the piece it completes.  The
\* files that a good piece completes are to be flushed.
GotBlock(s, t, b) ==
  LET now == have[t] \cup {b}
      p == PieceOf[b]
      completes == b \notin have[t] /\ PieceIsComplete(now, p)
      good == TestPiece(s, t, p)
  IN /\ have' = [have EXCEPT ![t] = IF completes /\ ~good THEN now \ BlocksOf(p) ELSE now]
     /\ todo' = IF completes /\ good
                THEN {t} \X {i \in FilesOf(p) : FileIsComplete(now, Files[i])}
                ELSE {}

\* clientGotBlock: a block from a peer.  When the write or the trimming that
\* comes with it fails, the block is not marked, though it may be cached.
PeerBlock(t, b, d) ==
  /\ todo = {}
  /\ t \notin freed
  /\ ~PieceIsComplete(have[t], PieceOf[b])
  /\ \E s \in Trim(Put(t, b, d), maxBlocks) :
       /\ Written(t, b, s)
       /\ IF s.err THEN UNCHANGED <<have, todo>> ELSE GotBlock(s, t, b)
  /\ UNCHANGED <<maxBlocks, saved, freed>>

\* write_block_func: a block from a webseed, whatever became of the piece
WebseedBlock(t, b, d) ==
  /\ Webseeds
  /\ todo = {}
  /\ t \notin freed
  /\ \E s \in Trim(Put(t, b, d), maxBlocks) :
       /\ Written(t, b, s)
       /\ GotBlock(s, t, b)
  /\ UNCHANGED <<maxBlocks, saved, freed>>

\* tr_torrentFileCompleted, of the first file that is left
FileCompleted ==
  /\ todo # {}
  /\ \E x \in todo :
       /\ \A y \in todo : x[2] <= y[2]
       /\ \E s \in FlushFile(Here, x[1], Files[x[2]]) : Flushed(s)
       /\ todo' = todo \ {x}
  /\ UNCHANGED <<maxBlocks, have, saved, freed>>

-----------------------------------------------------------------------------
(* The rest of the session.                                                *)

\* onSaveTimer: flush the pieces that are done, then save the torrents one by
\* one.  A crash may come among the saves: the torrents that are not in kept
\* have their older .resume file still.
SaveTimer ==
  /\ todo = {}
  /\ \E s \in FlushDone(Here) : Flushed(s)
  /\ \E kept \in SUBSET (Torrents \ freed) :
       saved' = [t \in Torrents |-> IF t \in kept THEN have[t] ELSE saved[t]]
  /\ UNCHANGED <<maxBlocks, have, todo, freed>>

\* stopTorrent
StopTorrent(t) ==
  /\ todo = {}
  /\ t \notin freed
  /\ \E s \in FlushTorrent(Here, t) : Flushed(s)
  /\ saved' = [saved EXCEPT ![t] = have[t]]
  /\ UNCHANGED <<maxBlocks, have, todo, freed>>

\* closeTorrent: stopTorrent, then freeTorrent, as at the end of a session.  If
\* the flush fails, the blocks left in the cache point to a freed torrent; they
\* are treated as if its memory stayed as it was.
CloseTorrent(t) ==
  /\ todo = {}
  /\ t \notin freed
  /\ \E s \in FlushTorrent(Here, t) : Flushed(s)
  /\ saved' = [saved EXCEPT ![t] = have[t]]
  /\ freed' = freed \cup {t}
  /\ UNCHANGED <<maxBlocks, have, todo>>

\* tr_cacheSetLimit
SetLimit ==
  /\ todo = {}
  /\ maxBlocks' \in Limits \ {maxBlocks}
  /\ \E s \in Trim(Here, maxBlocks') : Flushed(s)
  /\ UNCHANGED <<have, saved, todo, freed>>

\* Time passes; no cached block gets older than MaxAge.
TimePasses ==
  /\ todo = {}
  /\ AgeStep > 0
  /\ \E t \in Torrents, b \in Blocks : Cached(cache, t, b)
  /\ age' = [t \in Torrents |-> [b \in Blocks |->
              IF Cached(cache, t, b) THEN age[t][b] + AgeStep ELSE 0]]
  /\ \A t \in Torrents, b \in Blocks : age'[t][b] <= MaxAge
  /\ UNCHANGED <<cache, maxBlocks, disk, have, saved, todo, freed, failed>>

\* The program dies and is started again; loadProgress believes the file.
Crash ==
  /\ cache' = NoContents
  /\ age' = [t \in Torrents |-> [b \in Blocks |-> 0]]
  /\ have' = saved
  /\ todo' = {}
  /\ freed' = {}
  /\ UNCHANGED <<maxBlocks, disk, saved, failed>>

Next ==
  \/ \E t \in Torrents, b \in Blocks, d \in Contents : PeerBlock(t, b, d) \/ WebseedBlock(t, b, d)
  \/ FileCompleted
  \/ SaveTimer
  \/ \E t \in Torrents : StopTorrent(t) \/ CloseTorrent(t)
  \/ SetLimit
  \/ TimePasses
  \/ Crash

Spec == Init /\ [][Next]_vars

-----------------------------------------------------------------------------
(* Properties.                                                             *)

TypeOK ==
  /\ cache \in [Torrents -> [Blocks -> Data]]
  /\ age \in [Torrents -> [Blocks -> 0 .. MaxAge]]
  /\ maxBlocks \in Limits
  /\ disk \in [Torrents -> [Blocks -> Data]]
  /\ have \in [Torrents -> SUBSET Blocks]
  /\ saved \in [Torrents -> SUBSET Blocks]
  /\ todo \subseteq Torrents \X DOMAIN Files
  /\ freed \subseteq Torrents
  /\ failed \subseteq Torrents

Pieces == {PieceOf[b] : b \in Blocks}

\* A piece the program believes to be complete reads as good data, however
\* its blocks are spread over the cache and the disk, after endgame
\* duplicates, corrupt blocks, trims and crashes, while no write has failed.
CompletePieceIsGood ==
  failed = {} => \A t \in Torrents, p \in Pieces :
    PieceIsComplete(have[t], p) => TestPiece(Here, t, p)

\* The pieces that the .resume files say are complete are on the disk: no
\* crash loses them (session.c:543-545), while no write has failed.  After a
\* failure onSaveTimer saves the torrents whose turn to be flushed never came.
SavedIsDurable ==
  failed = {} => \A t \in Torrents, p \in Pieces :
    PieceIsComplete(saved[t], p) => \A b \in BlocksOf(p) : disk[t][b] = "good"

\* Nothing of a file all of whose pieces are complete is left in the cache
\* when the last of them has been dealt with (torrent.c:3188: "now that the
\* file is complete and closed, we can start watching its mtime"), while no
\* write has failed.
CompleteFileIsFlushed ==
  failed = {} /\ todo = {} => \A t \in Torrents, i \in DOMAIN Files :
    (\A p \in Pieces : i \in FilesOf(p) => PieceIsComplete(have[t], p)) =>
      \A b \in Files[i].first .. Files[i].last : ~Cached(cache, t, b)

\* No step makes the cache larger than it was or may be: even when a flush
\* fails, trimming makes room for the block that came in.
CacheIsBounded == [][Size(cache') <= Size(cache) \/ Size(cache') <= maxBlocks']_vars

\* The cache is a write-back block store: reads see the last write, and only
\* torrents with write errors lose anything but by a crash.
View == [t \in Torrents |-> [b \in Blocks |-> Read(Here, t, b)]]
Store == INSTANCE BlockStore WITH store <- View, stable <- disk
StoreSpec == Store!Spec
=============================================================================
