--------------------------- MODULE CacheDataProofs ---------------------------
(***************************************************************************)
(* What is proved of the data in module Cache: while no write has failed   *)
(* and none was short, a piece the program takes for complete reads as     *)
(* good data, what a .resume file says is complete is on the disk, and a   *)
(* file all of whose pieces are complete has left the cache.               *)
(*                                                                         *)
(* The runs of the array are the heart of it.  Every cached block lies in  *)
(* a run, a run that holds a block of a complete piece is done or multi,   *)
(* and as long as no run gets so old that its age spills over into the     *)
(* flags, the rank sorts all of those before the others.                   *)
(***************************************************************************)
EXTENDS CacheProofs, WellFoundedInduction

-----------------------------------------------------------------------------
(* Runs.                                                                   *)

LEMMA LeastNatural ==
  ASSUME NEW T \in SUBSET Nat, T # {}
  PROVE  \E x \in T : \A y \in T : x <= y
  <1> DEFINE R == {ss \in Nat \X Nat : ss[1] < ss[2]}
  <1>1. IsWellFoundedOn(R, Nat)
    BY NatLessThanWellFounded DEF OpToRel
  <1>2. PICK x \in T : \A y \in T : ~ (<<y, x>> \in R)
    <2> HIDE DEF R
    <2> QED BY <1>1, WFMin
  <1>3. \A y \in T : ~(y < x)
    BY <1>2
  <1> QED BY <1>3

\* The run of a cached block reaches to the nearest blocks that are not cached.
LEMMA CachedIsInARun ==
  ASSUME NEW c, NEW t \in Torrents, NEW b \in Blocks, Cached(c, t, b)
  PROVE  \E r \in Runs(c) : r.tor = t /\ r.first <= b /\ b <= r.last
  <1> DEFINE Before == {n \in Nat : ~Cached(c, t, b - n - 1)}
             After == {n \in Nat : ~Cached(c, t, b + n + 1)}
  <1>1. b \in Nat /\ BlockCount \in Nat /\ b < BlockCount
    BY CacheAssumption DEF Blocks
  <1>2. b \in Before /\ BlockCount \in After
    BY <1>1 DEF Cached, Blocks
  <1>3. PICK m \in Before : \A n \in Before : m <= n
    BY <1>2, LeastNatural
  <1>4. PICK k \in After : \A n \in After : k <= n
    BY <1>2, LeastNatural
  <1>5. \A y \in (b - m) .. (b + k) : Cached(c, t, y)
    <2> SUFFICES ASSUME NEW y \in (b - m) .. (b + k) PROVE Cached(c, t, y)
      OBVIOUS
    <2>1. CASE y < b
      <3>1. b - y - 1 \in Nat /\ b - y - 1 < m /\ b - (b - y - 1) - 1 = y
        BY <2>1, <1>1, <1>3
      <3>2. b - y - 1 \notin Before
        BY <3>1, <1>3
      <3> QED BY <3>1, <3>2
    <2>2. CASE y = b
      BY <2>2
    <2>3. CASE y > b
      <3>1. y - b - 1 \in Nat /\ y - b - 1 < k /\ b + (y - b - 1) + 1 = y
        BY <2>3, <1>1, <1>4
      <3>2. y - b - 1 \notin After
        BY <3>1, <1>4
      <3> QED BY <3>1, <3>2
    <2> QED BY <2>1, <2>2, <2>3, <1>1
  <1>6. b - m \in Blocks /\ b + k \in Blocks
    <2>1. b - m \in (b - m) .. (b + k) /\ b + k \in (b - m) .. (b + k)
      BY <1>1, <1>3, <1>4
    <2> QED BY <2>1, <1>5 DEF Cached
  <1>7. ~Cached(c, t, (b - m) - 1) /\ ~Cached(c, t, (b + k) + 1)
    BY <1>3, <1>4
  <1> DEFINE r == [tor |-> t, first |-> b - m, last |-> b + k]
  <1>8. r \in Run /\ r.tor = t /\ r.first = b - m /\ r.last = b + k
    BY <1>6 DEF Run
  <1>9. b - m <= b /\ b <= b + k /\ b - m <= b + k
    BY <1>1, <1>3, <1>4
  <1> HIDE DEF r
  <1>10. r \in Runs(c)
    BY <1>5, <1>7, <1>8, <1>9 DEF Runs
  <1> QED BY <1>8, <1>9, <1>10

\* A run is no longer than the cache is large.
LEMMA RunIsNoLonger ==
  ASSUME NEW c, NEW r \in Runs(c)
  PROVE  Length(r) \in Nat \ {0} /\ Length(r) <= Size(c)
  <1>1. /\ r.tor \in Torrents /\ r.first \in Int /\ r.last \in Int /\ r.first <= r.last
        /\ \A b \in r.first .. r.last : Cached(c, r.tor, b)
    BY DEF Runs, Run, Blocks
  <1> DEFINE S == {r.tor} \X (r.first .. r.last)
  <1>2. IsFiniteSet({r.tor}) /\ Cardinality({r.tor}) = 1
    BY FS_Singleton
  <1>3. IsFiniteSet(r.first .. r.last) /\ Cardinality(r.first .. r.last) = Length(r)
    BY <1>1, FS_Interval DEF Length
  <1>4. Cardinality(S) = 1 * Length(r)
    BY <1>2, <1>3, FS_Product
  <1>5. S \subseteq CachedIn(c)
    <2> SUFFICES ASSUME NEW b \in r.first .. r.last PROVE <<r.tor, b>> \in CachedIn(c)
      OBVIOUS
    <2>1. Cached(c, r.tor, b)
      BY <1>1
    <2> QED BY <1>1, <2>1 DEF CachedIn, Cached
  <1>6. Cardinality(S) <= Cardinality(CachedIn(c))
    BY <1>5, CachedIsFinite, FS_Subset
  <1> QED BY <1>1, <1>4, <1>6, CachedIsFinite DEF Length

\* No cached block is so old that the age spills over into the flags of the rank.
AgesFit == \A l \in Limits : l + MaxAge < MULTIFLAG

\* The cache is no larger than some limit it has had.
SizeIsBounded == \E l \in Limits : Size(cache) <= l

\* With ages that fit, the flag of the rank tells which runs are due.
LEMMA RankTellsDue ==
  ASSUME TypeOK, AgesFit, SizeIsBounded, NEW r \in Runs(cache)
  PROVE  Rank(r) \in Nat /\ (IsDue(r) <=> Rank(r) >= MULTIFLAG)
  <1> DEFINE aged == Length(r) + age[r.tor][r.last]
  <1>1. r.tor \in Torrents /\ r.last \in Blocks
    BY DEF Runs, Run
  <1>2. age[r.tor][r.last] \in Nat /\ age[r.tor][r.last] <= MaxAge
    BY <1>1, CacheAssumption DEF TypeOK
  <1>3. PICK l \in Limits : Size(cache) <= l
    BY DEF SizeIsBounded
  <1>4. l \in Nat /\ MaxAge \in Nat /\ l + MaxAge < 4096
    BY <1>3, CacheAssumption DEF AgesFit, MULTIFLAG
  <1>5. aged \in Nat /\ aged < 4096
    BY <1>2, <1>3, <1>4, RunIsNoLonger, CachedIsFinite
  <1> HIDE DEF aged
  <1>6. OrFlag(aged, DONEFLAG) = aged + 8192 /\ OrFlag(aged, MULTIFLAG) = aged + 4096
    <2>1. aged \div 8192 = 0 /\ aged \div 4096 = 0
      BY <1>5
    <2> QED BY <2>1, <1>5 DEF OrFlag, DONEFLAG, MULTIFLAG
  <1>7. OrFlag(aged + 8192, MULTIFLAG) = aged + 12288
    <2>1. (aged + 8192) \div 4096 = 2
      BY <1>5
    <2> QED BY <2>1, <1>5 DEF OrFlag, MULTIFLAG
  <1>8. Rank(r) = IF IsMulti(r) THEN OrFlag(IF IsDone(r) THEN OrFlag(aged, DONEFLAG) ELSE aged, MULTIFLAG)
                  ELSE IF IsDone(r) THEN OrFlag(aged, DONEFLAG) ELSE aged
    BY DEF Rank, aged
  <1>9. CASE IsDone(r)
    BY <1>5, <1>6, <1>7, <1>8, <1>9 DEF IsDue, MULTIFLAG
  <1>10. CASE ~IsDone(r)
    BY <1>5, <1>6, <1>8, <1>10 DEF IsDue, MULTIFLAG
  <1> QED BY <1>9, <1>10

\* A run that holds a block of a complete piece is due: it lies within the
\* piece, or it spans more than one.
LEMMA CompleteIsDue ==
  ASSUME NEW c, NEW r \in Runs(c), NEW b \in Blocks, r.first <= b, b <= r.last,
         PieceIsComplete(have[r.tor], PieceOf[b])
  PROVE  IsDue(r)
  <1>1. r.first \in Blocks /\ r.last \in Blocks
    BY DEF Runs, Run
  <1>2. CASE IsMulti(r)
    BY <1>2 DEF IsDue
  <1>3. CASE PieceOf[r.first] = PieceOf[r.last]
    <2>1. PieceOf[r.first] <= PieceOf[b] /\ PieceOf[b] <= PieceOf[r.last]
      BY <1>1, CacheAssumption
    <2>2. PieceOf[b] = PieceOf[r.last]
      BY <1>1, <1>3, <2>1, CacheAssumption
    <2> QED BY <2>2 DEF IsDue, IsDone
  <1> QED BY <1>2, <1>3 DEF IsMulti

-----------------------------------------------------------------------------
(* Flushes that do not fail.                                               *)

\* A flush without a failure clears every run it is given.
LEMMA FlushClears ==
  ASSUME NEW s \in Stores, NEW F, NEW key, \A r \in F : r.tor \in Torrents,
         NEW o \in Flush(s, F, key), o.failed = {},
         NEW t \in Torrents, NEW b \in Blocks, InRuns(F, t, b)
  PROVE  o.cache[t][b] = NoData
  <1>1. CASE \E lost : o = Wrote(s, F, lost)
    <2>1. PICK lost : o = Wrote(s, F, lost)
      BY <1>1
    <2>2. /\ o \in Stores /\ o.failed = s.failed /\ o.err = s.err
          /\ \A v \in Torrents, c \in Blocks :
                 /\ o.cache[v][c] \in {s.cache[v][c], NoData}
                 /\ InRuns(F, v, c) => o.cache[v][c] = NoData
                 /\ <<v, c>> \notin lost =>
                      /\ Read(o, v, c) = Read(s, v, c)
                      /\ o.disk[v][c] \in {s.disk[v][c], Read(s, v, c)}
      BY <2>1, WroteKeeps
    <2> QED BY <2>2
  <1>2. ASSUME NEW P \in Prefixes(F, key), NEW r \in F \ P, o \in Fails(s, P, r)
        PROVE  FALSE
    <2>1. PICK lost : o = [Wrote(s, P \cup {r}, lost) EXCEPT !.failed = @ \cup {r.tor}, !.err = TRUE]
      BY <1>2 DEF Fails
    <2>2. Wrote(s, P \cup {r}, lost) \in Stores
      BY WroteKeeps
    <2>3. r.tor \in o.failed
      BY <2>1, <2>2 DEF Stores
    <2> QED BY <2>3
  <1>3. CASE o \in UNION {UNION {Fails(s, P, r) :
                                   r \in {q \in F \ P : P \cup {q} \in Prefixes(F, key)}} :
                            P \in Prefixes(F, key)}
    <2>1. PICK P \in Prefixes(F, key) :
            o \in UNION {Fails(s, P, r) : r \in {q \in F \ P : P \cup {q} \in Prefixes(F, key)}}
      BY <1>3
    <2>2. PICK r \in F \ P : o \in Fails(s, P, r)
      BY <2>1
    <2> QED BY <2>2, <1>2
  <1> QED BY <1>1, <1>3 DEF Flush

\* tr_cacheFlushTorrent leaves nothing of the torrent in the cache.
LEMMA FlushTorrentClears ==
  ASSUME NEW s \in Stores, NEW t \in Torrents, NEW o \in FlushTorrent(s, t), o.failed = {},
         NEW b \in Blocks
  PROVE  o.cache[t][b] = NoData
  <1> DEFINE F == {q \in Runs(s.cache) : q.tor = t}
  <1>1. CASE s.cache[t][b] = NoData
    BY <1>1, FlushTorrentKeeps DEF Kept
  <1>2. CASE s.cache[t][b] # NoData
    <2>1. PICK r \in Runs(s.cache) : r.tor = t /\ r.first <= b /\ b <= r.last
      BY <1>2, CachedIsInARun DEF Cached
    <2>2. InRuns(F, t, b)
      BY <2>1 DEF InRuns
    <2>3. o \in Flush(s, F, [q \in F |-> -q.first])
      BY DEF FlushTorrent
    <2>4. \A q \in F : q.tor \in Torrents
      OBVIOUS
    <2> HIDE DEF F
    <2> QED BY <2>2, <2>3, <2>4, FlushClears
  <1> QED BY <1>1, <1>2

\* tr_cacheFlushFile leaves nothing of the file in the cache.
LEMMA FlushFileClears ==
  ASSUME NEW s \in Stores, NEW t \in Torrents, NEW f \in [first : Blocks, last : Blocks],
         NEW o \in FlushFile(s, t, f), o.failed = {}, NEW b \in f.first .. f.last
  PROVE  o.cache[t][b] = NoData
  <1> DEFINE Cut(r) == [r EXCEPT !.first = IF @ < f.first THEN f.first ELSE @]
             F == {Cut(r) : r \in {q \in Runs(s.cache) : /\ q.tor = t /\ q.last >= f.first
                                                         /\ q.first <= f.last}}
  <1>0. b \in Blocks /\ f.first \in Int /\ f.last \in Int /\ f.first <= b /\ b <= f.last
    BY CacheAssumption DEF Blocks
  <1>1. CASE s.cache[t][b] = NoData
    BY <1>0, <1>1, FlushFileKeeps DEF Kept
  <1>2. CASE s.cache[t][b] # NoData
    <2>1. PICK r \in Runs(s.cache) : r.tor = t /\ r.first <= b /\ b <= r.last
      BY <1>0, <1>2, CachedIsInARun DEF Cached
    <2>2. r \in Run /\ r.first \in Int /\ r.last \in Int
      BY <2>1, CacheAssumption DEF Runs, Run, Blocks
    <2>3. r.last >= f.first /\ r.first <= f.last
      BY <1>0, <2>1, <2>2
    <2>4. Cut(r) \in F
      BY <2>1, <2>3
    <2>5. Cut(r).tor = t /\ Cut(r).first <= b /\ b <= Cut(r).last
      BY <1>0, <2>1, <2>2 DEF Run
    <2>6. InRuns(F, t, b)
      BY <2>4, <2>5 DEF InRuns
    <2>7. \A q \in F : q.tor \in Torrents
      <3>1. \A q \in Run : Cut(q).tor = q.tor
        BY DEF Run
      <3> QED BY <3>1, RunsAreTyped
    <2>8. o \in Flush(s, F, [q \in F |-> -q.first])
      BY DEF FlushFile
    <2> HIDE DEF F
    <2> QED BY <1>0, <2>6, <2>7, <2>8, FlushClears
  <1> QED BY <1>1, <1>2

\* tr_cacheFlushDone leaves nothing of a complete piece in the cache: all the
\* runs that are due come first, and it goes on to the first that is not.
LEMMA FlushDoneClears ==
  ASSUME TypeOK, AgesFit, SizeIsBounded, NEW o \in FlushDone(Here), o.failed = {},
         NEW t \in Torrents, NEW b \in Blocks, PieceIsComplete(have[t], PieceOf[b])
  PROVE  o.cache[t][b] = NoData
  <1> DEFINE F == Runs(cache)
             key == ByRank(cache)
  <1>0. Here \in Stores /\ Here.cache = cache
    BY HereIsTyped DEF Here
  <1>1. CASE cache[t][b] = NoData
    BY <1>0, <1>1, FlushDoneKeeps DEF Kept
  <1>2. CASE cache[t][b] # NoData
    <2>1. PICK r \in F : r.tor = t /\ r.first <= b /\ b <= r.last
      BY <1>2, CachedIsInARun DEF Cached
    <2>2. IsDue(r)
      BY <2>1, CompleteIsDue
    <2>3. PICK P \in Prefixes(F, key) :
            /\ P = F \/ \E q \in F \ P : ~IsDue(q) /\ P \cup {q} \in Prefixes(F, key)
            /\ o \in Flush(Here, P, key)
      BY <1>0 DEF FlushDone
    <2>4. r \in P
      <3>1. CASE P = F
        BY <2>1, <3>1
      <3>2. CASE \E q \in F \ P : ~IsDue(q) /\ P \cup {q} \in Prefixes(F, key)
        <4>1. PICK q \in F \ P : ~IsDue(q) /\ P \cup {q} \in Prefixes(F, key)
          BY <3>2
        <4>2. SUFFICES ASSUME r \notin P PROVE FALSE
          OBVIOUS
        <4>3. r \in F \ (P \cup {q})
          BY <2>1, <2>2, <4>1, <4>2
        <4>4. key[q] >= key[r]
          BY <4>1, <4>3 DEF Prefixes
        <4>5. key[q] = Rank(q) /\ key[r] = Rank(r)
          BY <2>1, <4>1 DEF ByRank
        <4>6. Rank(r) \in Nat /\ Rank(r) >= MULTIFLAG
          BY <2>1, <2>2, RankTellsDue
        <4>7. Rank(q) \in Nat /\ ~(Rank(q) >= MULTIFLAG)
          BY <4>1, RankTellsDue
        <4> QED BY <4>4, <4>5, <4>6, <4>7 DEF MULTIFLAG
      <3> QED BY <2>3, <3>1, <3>2
    <2>5. InRuns(P, t, b)
      BY <2>1, <2>4 DEF InRuns
    <2>6. \A q \in P : q.tor \in Torrents
      BY RunsAreTyped DEF Prefixes
    <2> QED BY <1>0, <2>3, <2>5, <2>6, FlushClears
  <1> QED BY <1>1, <1>2

-----------------------------------------------------------------------------
(* The data of complete pieces.                                            *)

\* What is complete in the .resume file is complete in memory.
SavedIsHeld == \A t \in Torrents, b \in Blocks :
  PieceIsComplete(saved[t], PieceOf[b]) => PieceIsComplete(have[t], PieceOf[b])

\* the blocks of complete pieces as they read, and as they are on the disk
GoodToRead == failed = {} => \A t \in Torrents, b \in Blocks :
  PieceIsComplete(have[t], PieceOf[b]) => View[t][b] = "good"
GoodOnDisk == failed = {} => \A t \in Torrents, b \in Blocks :
  PieceIsComplete(saved[t], PieceOf[b]) => disk[t][b] = "good"

\* A crash makes the completion what the .resume file says and the data what
\* the disk holds: the invariant has to speak of both sides at once.
DataInv == SavedIsHeld /\ GoodToRead /\ GoodOnDisk

\* tr_torrentGotBlock completes no piece but the one of the block, and that
\* only when it tests good; and it takes nothing from a complete piece.
LEMMA GotBlockCompletes ==
  ASSUME TypeOK, NEW t \in Torrents, NEW b \in Blocks, NEW s, GotBlock(s, t, b),
         NEW v \in Torrents, NEW c \in Blocks
  PROVE  /\ PieceIsComplete(have'[v], PieceOf[c]) =>
              \/ PieceIsComplete(have[v], PieceOf[c])
              \/ v = t /\ PieceOf[c] = PieceOf[b] /\ b \notin have[t] /\ TestPiece(s, t, PieceOf[b])
         /\ PieceIsComplete(have[v], PieceOf[c]) => PieceIsComplete(have'[v], PieceOf[c])
  <1> DEFINE now == have[t] \cup {b}
             p == PieceOf[b]
             completes == b \notin have[t] /\ PieceIsComplete(now, p)
             good == TestPiece(s, t, p)
  <1>1. have' = [have EXCEPT ![t] = IF completes /\ ~good THEN now \ BlocksOf(p) ELSE now]
    BY DEF GotBlock
  <1>2. CASE v # t
    BY <1>1, <1>2 DEF TypeOK
  <1>3. CASE v = t /\ completes /\ ~good
    <2>1. have'[v] = now \ BlocksOf(p) /\ b \in BlocksOf(p)
      BY <1>1, <1>3 DEF TypeOK, BlocksOf
    <2>2. have'[v] \subseteq have[v]
      BY <1>3, <2>1
    <2>3. PieceIsComplete(have[v], PieceOf[c]) => PieceOf[c] # p
      BY <1>3, <2>1 DEF PieceIsComplete, BlocksOf
    <2> QED BY <1>3, <2>1, <2>2, <2>3 DEF PieceIsComplete, BlocksOf
  <1>4. CASE v = t /\ ~(completes /\ ~good)
    <2>1. have'[v] = now
      BY <1>1, <1>4 DEF TypeOK
    <2>2. PieceIsComplete(have[v], PieceOf[c]) => PieceIsComplete(have'[v], PieceOf[c])
      BY <1>4, <2>1 DEF PieceIsComplete
    <2>3. PieceOf[c] # p /\ PieceIsComplete(now, PieceOf[c]) => PieceIsComplete(have[t], PieceOf[c])
      BY DEF PieceIsComplete, BlocksOf
    <2>4. b \in have[t] => now = have[t]
      OBVIOUS
    <2> QED BY <1>4, <2>1, <2>2, <2>3, <2>4
  <1> QED BY <1>2, <1>3, <1>4

\* A flush changes nothing that is read, and puts on the disk only what is read.
LEMMA FlushKeepsData ==
  ASSUME ~MayShort, TypeOK, DataInv, NEW s, Kept(Here, s), Become(s), UNCHANGED have
  PROVE  /\ GoodToRead'
         /\ failed' = {} => \A t \in Torrents, b \in Blocks :
              /\ PieceIsComplete(saved[t], PieceOf[b]) => disk'[t][b] = "good"
              /\ PieceIsComplete(have[t], PieceOf[b]) /\ s.cache[t][b] = NoData => disk'[t][b] = "good"
  <1> SUFFICES ASSUME failed' = {}
               PROVE  /\ GoodToRead'
                      /\ \A t \in Torrents, b \in Blocks :
                           /\ PieceIsComplete(saved[t], PieceOf[b]) => disk'[t][b] = "good"
                           /\ PieceIsComplete(have[t], PieceOf[b]) /\ s.cache[t][b] = NoData
                                => disk'[t][b] = "good"
    BY DEF GoodToRead
  <1>1. s \in Stores /\ s.failed = {} /\ failed = {}
    BY DEF Kept, Become, Here
  <1>2. \A t \in Torrents, b \in Blocks :
          /\ View'[t][b] = Read(s, t, b)
          /\ Read(s, t, b) = View[t][b]
          /\ disk'[t][b] = s.disk[t][b]
          /\ s.disk[t][b] \in {disk[t][b], View[t][b]}
    <2>1. \A t \in Torrents, b \in Blocks :
            /\ Read(s, t, b) = Read(Here, t, b)
            /\ s.disk[t][b] \in {Here.disk[t][b], Read(Here, t, b)}
      BY <1>1 DEF Kept
    <2>2. Here.disk = disk
      BY DEF Here
    <2>3. \A t \in Torrents, b \in Blocks : Read(Here, t, b) = View[t][b]
      BY ViewOf
    <2>4. disk' = s.disk /\ \A t \in Torrents, b \in Blocks : View'[t][b] = Read(s, t, b)
      BY <1>1, NextViewOf
    <2> QED BY <2>1, <2>2, <2>3, <2>4
  <1>3. GoodToRead'
    BY <1>1, <1>2 DEF DataInv, GoodToRead
  <1>4. ASSUME NEW t \in Torrents, NEW b \in Blocks, PieceIsComplete(saved[t], PieceOf[b])
        PROVE  disk'[t][b] = "good"
    <2>1. disk[t][b] = "good" /\ View[t][b] = "good"
      BY <1>1, <1>4 DEF DataInv, GoodToRead, GoodOnDisk, SavedIsHeld
    <2> QED BY <1>2, <2>1
  <1>5. ASSUME NEW t \in Torrents, NEW b \in Blocks, PieceIsComplete(have[t], PieceOf[b]),
               s.cache[t][b] = NoData
        PROVE  disk'[t][b] = "good"
    <2>1. View[t][b] = "good"
      BY <1>1, <1>5 DEF DataInv, GoodToRead
    <2>2. Read(s, t, b) = s.disk[t][b]
      BY <1>5 DEF Read
    <2> QED BY <1>2, <2>1, <2>2
  <1> QED BY <1>3, <1>4, <1>5

\* A block that arrives spoils no complete piece, and completes a piece only
\* when all of it reads as good data, wherever trimming has put its blocks.
LEMMA WriteKeepsData ==
  ASSUME ~MayShort, TypeOK, DataInv,
         NEW t \in Torrents, NEW b \in Blocks, NEW d \in Contents,
         d = "good" \/ ~PieceIsComplete(have[t], PieceOf[b]),
         NEW s, Kept(Put(t, b, d), s), Become(s),
         UNCHANGED have \/ GotBlock(s, t, b), UNCHANGED saved
  PROVE  DataInv'
  <1> DEFINE p == Put(t, b, d)
  <1>1. s \in Stores /\ d \in Data /\ d # NoData
    BY CacheAssumption DEF Kept, Data, NoData
  <1>2. /\ p \in Stores
        /\ p.cache = [cache EXCEPT ![t][b] = d] /\ p.disk = disk /\ p.failed = failed
    BY PutIsTyped
  <1>3. \A v \in Torrents, c \in Blocks :
          Read(p, v, c) = IF v = t /\ c = b THEN d ELSE View[v][c]
    <2>1. \A v \in Torrents, c \in Blocks :
            Read(p, v, c) = IF v = t /\ c = b THEN d ELSE Read(Here, v, c)
      BY <1>1, <1>2 DEF Read, Here, TypeOK
    <2> QED BY <2>1, ViewOf
  <1> HIDE DEF p
  <1>4. ASSUME failed' = {}, NEW v \in Torrents, NEW c \in Blocks
        PROVE  /\ View'[v][c] = Read(s, v, c)
               /\ Read(s, v, c) = Read(p, v, c)
               /\ disk'[v][c] \in {disk[v][c], Read(p, v, c)}
    BY <1>1, <1>2, <1>4, NextViewOf DEF Kept, p
  <1>5. failed' = {} => failed = {}
    BY <1>1, <1>2, NextViewOf DEF Kept, p
  <1>6. ASSUME NEW v \in Torrents, NEW c \in Blocks
        PROVE  /\ PieceIsComplete(have'[v], PieceOf[c]) =>
                    \/ PieceIsComplete(have[v], PieceOf[c])
                    \/ v = t /\ PieceOf[c] = PieceOf[b] /\ TestPiece(s, t, PieceOf[b])
               /\ PieceIsComplete(have[v], PieceOf[c]) => PieceIsComplete(have'[v], PieceOf[c])
    BY GotBlockCompletes
  <1>7. ASSUME failed' = {}, NEW v \in Torrents, NEW c \in Blocks, PieceIsComplete(have[v], PieceOf[c])
        PROVE  Read(p, v, c) = "good"
    <2>1. View[v][c] = "good"
      BY <1>5, <1>7 DEF DataInv, GoodToRead
    <2>2. v = t /\ c = b => d = "good"
      BY <1>7
    <2> QED BY <1>3, <2>1, <2>2
  <1>8. SavedIsHeld'
    BY <1>6 DEF DataInv, SavedIsHeld
  <1>9. GoodToRead'
    <2> SUFFICES ASSUME failed' = {}, NEW v \in Torrents, NEW c \in Blocks,
                        PieceIsComplete(have'[v], PieceOf[c])
                 PROVE  Read(s, v, c) = "good"
      BY <1>4 DEF GoodToRead
    <2>1. CASE PieceIsComplete(have[v], PieceOf[c])
      BY <1>4, <1>7, <2>1
    <2>2. CASE v = t /\ PieceOf[c] = PieceOf[b] /\ TestPiece(s, t, PieceOf[b])
      BY <2>2 DEF TestPiece, BlocksOf
    <2> QED BY <1>6, <2>1, <2>2
  <1>10. GoodOnDisk'
    <2> SUFFICES ASSUME failed' = {}, NEW v \in Torrents, NEW c \in Blocks,
                        PieceIsComplete(saved[v], PieceOf[c])
                 PROVE  disk'[v][c] = "good"
      BY DEF GoodOnDisk
    <2>1. disk[v][c] = "good" /\ PieceIsComplete(have[v], PieceOf[c])
      BY <1>5 DEF DataInv, GoodOnDisk, SavedIsHeld
    <2>2. Read(p, v, c) = "good"
      BY <1>7, <2>1
    <2> QED BY <1>4, <2>1, <2>2
  <1> QED BY <1>8, <1>9, <1>10 DEF DataInv

LEMMA SizeStep == TypeOK /\ SizeIsBounded /\ [Next]_vars => SizeIsBounded'
  <1> SUFFICES ASSUME TypeOK, SizeIsBounded, [Next]_vars PROVE SizeIsBounded'
    OBVIOUS
  <1>1. CASE UNCHANGED vars
    <2>1. cache' = cache
      BY <1>1 DEF vars
    <2> QED BY <2>1 DEF SizeIsBounded
  <1>2. CASE Next
    <2>1. Bounded \/ UNCHANGED vars
      BY BoundedStep
    <2>2. TypeOK'
      BY TypeStep
    <2>3. maxBlocks' \in Limits /\ maxBlocks' \in Nat
      BY <2>2, CacheAssumption DEF TypeOK
    <2>4. PICK l \in Limits : Size(cache) <= l
      BY DEF SizeIsBounded
    <2>5. Size(cache) \in Nat /\ Size(cache') \in Nat /\ l \in Nat
      BY CachedIsFinite, CacheAssumption
    <2>6. CASE Size(cache') <= Size(cache)
      <3>1. Size(cache') <= l
        BY <2>4, <2>5, <2>6
      <3> QED BY <3>1 DEF SizeIsBounded
    <2>7. CASE Size(cache') <= maxBlocks'
      BY <2>3, <2>7 DEF SizeIsBounded
    <2> QED BY <1>1, <2>1, <2>6, <2>7 DEF Bounded
  <1> QED BY <1>1, <1>2

\* A webseed writes blocks of pieces that are complete, whatever it was sent.
WebseedsAreRight == ~Webseeds \/ Contents \subseteq {"good"}

LEMMA DataStep ==
  ASSUME ~MayShort, WebseedsAreRight, AgesFit,
         TypeOK, SizeIsBounded, DataInv, [Next]_vars
  PROVE  DataInv'
  <1>0. CASE UNCHANGED vars
    <2>1. View' = View
      BY <1>0 DEF vars, View, Here, Read
    <2> QED BY <1>0, <2>1 DEF vars, DataInv, SavedIsHeld, GoodToRead, GoodOnDisk
  <1>1. ASSUME NEW t \in Torrents, NEW b \in Blocks, NEW d \in Contents, PeerBlock(t, b, d)
        PROVE  DataInv'
    <2>1. PICK s \in Trim(Put(t, b, d), maxBlocks) :
            /\ Written(t, b, s)
            /\ IF s.err THEN UNCHANGED <<have, todo>> ELSE GotBlock(s, t, b)
      BY <1>1 DEF PeerBlock
    <2>2. Kept(Put(t, b, d), s) /\ Become(s)
      BY <2>1, PutIsTyped, TrimKeeps DEF Written
    <2>3. ~PieceIsComplete(have[t], PieceOf[b]) /\ UNCHANGED saved
      BY <1>1 DEF PeerBlock
    <2> QED BY <2>1, <2>2, <2>3, WriteKeepsData
  <1>2. ASSUME NEW t \in Torrents, NEW b \in Blocks, NEW d \in Contents, WebseedBlock(t, b, d)
        PROVE  DataInv'
    <2>1. PICK s \in Trim(Put(t, b, d), maxBlocks) : Written(t, b, s) /\ GotBlock(s, t, b)
      BY <1>2 DEF WebseedBlock
    <2>2. Kept(Put(t, b, d), s) /\ Become(s)
      BY <2>1, PutIsTyped, TrimKeeps DEF Written
    <2>3. d = "good" /\ UNCHANGED saved
      BY <1>2 DEF WebseedBlock, WebseedsAreRight
    <2> QED BY <2>1, <2>2, <2>3, WriteKeepsData
  <1>3. ASSUME NEW s, Kept(Here, s), Become(s), UNCHANGED <<have, saved>>
        PROVE  DataInv'
    <2>1. GoodToRead' /\ GoodOnDisk'
      BY <1>3, FlushKeepsData DEF GoodOnDisk
    <2> QED BY <1>3, <2>1 DEF DataInv, SavedIsHeld
  <1>4. CASE FileCompleted
    <2>1. PICK x \in todo : \E s \in FlushFile(Here, x[1], Files[x[2]]) : Flushed(s)
      BY <1>4 DEF FileCompleted
    <2>2. PICK s \in FlushFile(Here, x[1], Files[x[2]]) : Flushed(s)
      BY <2>1
    <2>3. Kept(Here, s) /\ Become(s)
      BY <2>2, HereIsTyped, FlushFileKeeps DEF Flushed
    <2> QED BY <1>3, <1>4, <2>3 DEF FileCompleted
  <1>5. CASE SaveTimer
    <2>1. PICK s \in FlushDone(Here) : Flushed(s)
      BY <1>5 DEF SaveTimer
    <2>2. Kept(Here, s) /\ Become(s) /\ failed' = s.failed
      BY <2>1, HereIsTyped, FlushDoneKeeps DEF Flushed, Become
    <2>3. PICK kept \in SUBSET (Torrents \ freed) :
            have' = have /\ saved' = [t \in Torrents |-> IF t \in kept THEN have[t] ELSE saved[t]]
      BY <1>5 DEF SaveTimer
    <2>4. GoodToRead'
      BY <2>2, <2>3, FlushKeepsData
    <2>5. SavedIsHeld'
      BY <2>3 DEF DataInv, SavedIsHeld
    <2>6. GoodOnDisk'
      <3> SUFFICES ASSUME failed' = {}, NEW t \in Torrents, NEW b \in Blocks,
                          PieceIsComplete(saved'[t], PieceOf[b])
                   PROVE  disk'[t][b] = "good"
        BY DEF GoodOnDisk
      <3>1. CASE t \notin kept
        BY <2>2, <2>3, <3>1, FlushKeepsData
      <3>2. CASE t \in kept
        <4>1. PieceIsComplete(have[t], PieceOf[b])
          BY <2>3, <3>2
        <4>2. s.cache[t][b] = NoData
          BY <2>1, <2>2, <4>1, FlushDoneClears
        <4> QED BY <2>2, <2>3, <4>1, <4>2, FlushKeepsData
      <3> QED BY <3>1, <3>2
    <2> QED BY <2>4, <2>5, <2>6 DEF DataInv
  <1>6. ASSUME NEW t \in Torrents, StopTorrent(t) \/ CloseTorrent(t)
        PROVE  DataInv'
    <2>1. PICK s \in FlushTorrent(Here, t) : Flushed(s)
      BY <1>6 DEF StopTorrent, CloseTorrent
    <2>2. Kept(Here, s) /\ Become(s) /\ failed' = s.failed
      BY <2>1, HereIsTyped, FlushTorrentKeeps DEF Flushed, Become
    <2>3. have' = have /\ saved' = [saved EXCEPT ![t] = have[t]]
      BY <1>6 DEF StopTorrent, CloseTorrent
    <2>4. GoodToRead'
      BY <2>2, <2>3, FlushKeepsData
    <2>5. \A v \in Torrents : saved'[v] = IF v = t THEN have[v] ELSE saved[v]
      BY <2>3 DEF TypeOK
    <2>6. SavedIsHeld'
      BY <2>3, <2>5 DEF DataInv, SavedIsHeld
    <2>7. GoodOnDisk'
      <3> SUFFICES ASSUME failed' = {}, NEW v \in Torrents, NEW b \in Blocks,
                          PieceIsComplete(saved'[v], PieceOf[b])
                   PROVE  disk'[v][b] = "good"
        BY DEF GoodOnDisk
      <3>1. CASE v # t
        BY <2>2, <2>3, <2>5, <3>1, FlushKeepsData
      <3>2. CASE v = t
        <4>1. PieceIsComplete(have[v], PieceOf[b])
          BY <2>5, <3>2
        <4>2. s.cache[v][b] = NoData
          BY <2>1, <2>2, <3>2, HereIsTyped, FlushTorrentClears
        <4> QED BY <2>2, <2>3, <4>1, <4>2, FlushKeepsData
      <3> QED BY <3>1, <3>2
    <2> QED BY <2>4, <2>6, <2>7 DEF DataInv
  <1>7. CASE SetLimit
    <2>1. PICK s \in Trim(Here, maxBlocks') : Flushed(s)
      BY <1>7 DEF SetLimit
    <2>2. Kept(Here, s) /\ Become(s)
      BY <2>1, HereIsTyped, TrimKeeps DEF Flushed
    <2> QED BY <1>3, <1>7, <2>2 DEF SetLimit
  <1>8. CASE TimePasses
    <2>1. View' = View
      BY <1>8 DEF TimePasses, View, Here, Read
    <2> QED BY <1>8, <2>1 DEF TimePasses, DataInv, SavedIsHeld, GoodToRead, GoodOnDisk
  <1>9. CASE Crash
    <2>1. View' = disk
      BY <1>9 DEF Crash, View, Here, Read, NoContents, TypeOK
    <2> QED BY <1>9, <2>1 DEF Crash, DataInv, SavedIsHeld, GoodToRead, GoodOnDisk
  <1> QED BY <1>0, <1>1, <1>2, <1>4, <1>5, <1>6, <1>7, <1>8, <1>9 DEF Next

\* the data invariant says what the runs check
LEMMA GoodToReadIsTested == TypeOK /\ GoodToRead => CompletePieceIsGood
  BY ViewOf DEF GoodToRead, CompletePieceIsGood, TestPiece, BlocksOf, Pieces

LEMMA GoodOnDiskIsDurable == GoodOnDisk => SavedIsDurable
  BY DEF GoodOnDisk, SavedIsDurable, BlocksOf, Pieces

LEMMA InitData == Init => SizeIsBounded /\ DataInv
  <1> SUFFICES ASSUME Init PROVE SizeIsBounded /\ DataInv
    OBVIOUS
  <1>1. CachedIn(cache) = {}
    BY DEF Init, NoContents, CachedIn, Cached
  <1>2. Size(cache) = 0
    BY <1>1, CachedIsFinite, FS_EmptySet
  <1>3. SizeIsBounded
    BY <1>2, CacheAssumption DEF SizeIsBounded
  <1>4. \A t \in Torrents, b \in Blocks :
          ~PieceIsComplete(have[t], PieceOf[b]) /\ ~PieceIsComplete(saved[t], PieceOf[b])
    BY DEF Init, PieceIsComplete, BlocksOf
  <1> QED BY <1>3, <1>4 DEF DataInv, SavedIsHeld, GoodToRead, GoodOnDisk

\* The inductive invariant holds when writes are not short, webseeds send good
\* data and no cached block gets older than the rank can hold.
THEOREM DataIsKept ==
  ASSUME ~MayShort, WebseedsAreRight, AgesFit
  PROVE  Spec => [](SizeIsBounded /\ DataInv)
  <1>1. TypeOK /\ SizeIsBounded /\ DataInv /\ [Next]_vars => (SizeIsBounded /\ DataInv)'
    BY SizeStep, DataStep
  <1> QED BY <1>1, InitData, TypeCorrect, PTL DEF Spec

\* A piece that counts as complete reads as good data, from the cache or from
\* the disk, after duplicates, corrupt blocks, trims and crashes.
THEOREM CompletePieceIsGoodHolds ==
  ASSUME ~MayShort, WebseedsAreRight, AgesFit
  PROVE  Spec => []CompletePieceIsGood
  BY DataIsKept, TypeCorrect, GoodToReadIsTested, PTL DEF DataInv

\* What a .resume file says is complete is on the disk: flushing what is done
\* and saving in that order loses nothing in a crash, if the ages fit.
THEOREM SavedIsDurableHolds ==
  ASSUME ~MayShort, WebseedsAreRight, AgesFit
  PROVE  Spec => []SavedIsDurable
  BY DataIsKept, GoodOnDiskIsDurable, PTL DEF DataInv

-----------------------------------------------------------------------------
(* Files whose pieces are all complete.                                    *)

FileIsDone(h, i) == \A p \in Pieces : i \in FilesOf(p) => PieceIsComplete(h, p)

\* Such a file has left the cache, or its flush is still to come.
FilesAreFlushed == failed = {} => \A t \in Torrents, i \in DOMAIN Files :
  FileIsDone(have[t], i) =>
    <<t, i>> \in todo \/ \A b \in Files[i].first .. Files[i].last : ~Cached(cache, t, b)

LEMMA FilesAreTyped ==
  ASSUME NEW i \in DOMAIN Files
  PROVE  /\ Files[i] \in [first : Blocks, last : Blocks]
         /\ Files[i].first .. Files[i].last \subseteq Blocks
  BY CacheAssumption DEF Blocks

\* A file overlaps the pieces of its blocks.
LEMMA BlockIsOfTheFile ==
  ASSUME NEW i \in DOMAIN Files, NEW b \in Files[i].first .. Files[i].last
  PROVE  b \in Blocks /\ PieceOf[b] \in Pieces /\ i \in FilesOf(PieceOf[b])
  <1>1. b \in Blocks /\ Files[i].first \in Blocks /\ Files[i].last \in Blocks
    BY FilesAreTyped
  <1>2. Files[i].first <= b /\ b <= Files[i].last
    BY <1>1 DEF Blocks
  <1>3. PieceOf[Files[i].first] <= PieceOf[b] /\ PieceOf[b] <= PieceOf[Files[i].last]
    BY <1>1, <1>2, CacheAssumption
  <1> QED BY <1>1, <1>3 DEF FilesOf, Pieces

\* tr_torrentGotBlock lists every file that the block completes.
LEMMA GotBlockLists ==
  ASSUME TypeOK, NEW t \in Torrents, NEW b \in Blocks, NEW s, GotBlock(s, t, b),
         NEW v \in Torrents, NEW i \in DOMAIN Files,
         FileIsDone(have'[v], i), ~FileIsDone(have[v], i)
  PROVE  <<v, i>> \in todo'
  <1> DEFINE now == have[t] \cup {b}
             p == PieceOf[b]
             completes == b \notin have[t] /\ PieceIsComplete(now, p)
             good == TestPiece(s, t, p)
  <1>0. have' = [have EXCEPT ![t] = IF completes /\ ~good THEN now \ BlocksOf(p) ELSE now]
    BY DEF GotBlock
  <1>1. PICK q \in Pieces : i \in FilesOf(q) /\ ~PieceIsComplete(have[v], q)
    BY DEF FileIsDone
  <1>2. PICK c \in Blocks : q = PieceOf[c]
    BY <1>1 DEF Pieces
  <1>3. PieceIsComplete(have'[v], PieceOf[c])
    BY <1>1, <1>2 DEF FileIsDone
  <1>4. v = t /\ PieceOf[c] = PieceOf[b] /\ b \notin have[t] /\ TestPiece(s, t, PieceOf[b])
    BY <1>1, <1>2, <1>3, GotBlockCompletes
  <1>5. have'[t] = now
    BY <1>0, <1>4 DEF TypeOK
  <1>6. completes /\ good
    BY <1>2, <1>3, <1>4, <1>5
  <1>7. FileIsComplete(now, Files[i])
    <2> SUFFICES ASSUME NEW x \in Files[i].first .. Files[i].last PROVE x \in now
      BY DEF FileIsComplete
    <2>1. x \in Blocks /\ PieceIsComplete(have'[v], PieceOf[x])
      BY BlockIsOfTheFile DEF FileIsDone
    <2> QED BY <1>4, <1>5, <2>1 DEF PieceIsComplete, BlocksOf
  <1>8. todo' = {t} \X {j \in FilesOf(p) : FileIsComplete(now, Files[j])}
    BY <1>6 DEF GotBlock
  <1>9. i \in FilesOf(p)
    BY <1>1, <1>2, <1>4
  <1> QED BY <1>4, <1>7, <1>8, <1>9

\* A step that flushes, and completes no piece, keeps flushed files flushed.
LEMMA FlushKeepsFiles ==
  ASSUME TypeOK, FilesAreFlushed, NEW s, Kept(Here, s), Become(s), UNCHANGED <<have, todo>>
  PROVE  FilesAreFlushed'
  <1>1. s.failed = {} => failed = {}
    BY DEF Kept, Here
  <1>2. \A t \in Torrents, b \in Blocks : Cached(s.cache, t, b) => Cached(cache, t, b)
    BY DEF Kept, Here, Cached
  <1>3. \A t, b : Cached(s.cache, t, b) => b \in Blocks
    BY DEF Cached
  <1>4. cache' = s.cache /\ failed' = s.failed /\ have' = have /\ todo' = todo
    BY DEF Become
  <1> QED BY <1>1, <1>2, <1>3, <1>4 DEF FilesAreFlushed

LEMMA FilesStep ==
  ASSUME ~Webseeds, TypeOK, FilesAreFlushed, [Next]_vars
  PROVE  FilesAreFlushed'
  <1>0. CASE UNCHANGED vars
    BY <1>0 DEF vars, FilesAreFlushed
  <1>1. ASSUME NEW t \in Torrents, NEW b \in Blocks, NEW d \in Contents, PeerBlock(t, b, d)
        PROVE  FilesAreFlushed'
    <2>1. PICK s \in Trim(Put(t, b, d), maxBlocks) :
            /\ Written(t, b, s)
            /\ IF s.err THEN UNCHANGED <<have, todo>> ELSE GotBlock(s, t, b)
      BY <1>1 DEF PeerBlock
    <2>2. todo = {} /\ ~PieceIsComplete(have[t], PieceOf[b])
      BY <1>1 DEF PeerBlock
    <2> DEFINE p == Put(t, b, d)
    <2>3. p \in Stores /\ p.cache = [cache EXCEPT ![t][b] = d] /\ p.failed = failed
      BY PutIsTyped
    <2>4. Kept(p, s) /\ cache' = s.cache /\ failed' = s.failed
      BY <2>1, <2>3, TrimKeeps DEF Written, Become
    <2> HIDE DEF p
    <2>5. failed' = {} => failed = {}
      BY <2>3, <2>4 DEF Kept
    <2>6. ASSUME NEW v \in Torrents, NEW c \in Blocks, Cached(cache', v, c)
          PROVE  Cached(cache, v, c) \/ (v = t /\ c = b)
      <3>1. p.cache[v][c] # NoData
        BY <2>4, <2>6 DEF Kept, Cached
      <3>2. CASE ~(v = t /\ c = b)
        <4>1. p.cache[v][c] = cache[v][c]
          BY <2>3, <3>2 DEF TypeOK
        <4> QED BY <3>1, <4>1 DEF Cached
      <3> QED BY <3>2
    <2> SUFFICES ASSUME failed' = {}, NEW v \in Torrents, NEW i \in DOMAIN Files,
                        FileIsDone(have'[v], i), <<v, i>> \notin todo',
                        NEW c \in Files[i].first .. Files[i].last, Cached(cache', v, c)
                 PROVE  FALSE
      BY DEF FilesAreFlushed
    <2>7. FileIsDone(have[v], i)
      <3>1. CASE s.err
        BY <2>1, <3>1
      <3>2. CASE ~s.err
        BY <2>1, <3>2, GotBlockLists
      <3> QED BY <3>1, <3>2
    <2>8. ~Cached(cache, v, c)
      BY <2>2, <2>5, <2>7 DEF FilesAreFlushed
    <2>9. v = t /\ c = b
      BY <2>6, <2>8, FilesAreTyped
    <2>10. PieceIsComplete(have[t], PieceOf[b])
      BY <2>7, <2>9, BlockIsOfTheFile DEF FileIsDone
    <2> QED BY <2>2, <2>10
  <1>2. ASSUME NEW t \in Torrents, NEW b \in Blocks, NEW d \in Contents, WebseedBlock(t, b, d)
        PROVE  FilesAreFlushed'
    BY <1>2 DEF WebseedBlock
  <1>3. CASE FileCompleted
    <2>1. PICK x \in todo : /\ \E s \in FlushFile(Here, x[1], Files[x[2]]) : Flushed(s)
                            /\ todo' = todo \ {x}
      BY <1>3 DEF FileCompleted
    <2>2. PICK s \in FlushFile(Here, x[1], Files[x[2]]) : Flushed(s)
      BY <2>1
    <2>3. x[1] \in Torrents /\ x[2] \in DOMAIN Files /\ x = <<x[1], x[2]>>
      BY DEF TypeOK
    <2>4. Kept(Here, s) /\ cache' = s.cache /\ failed' = s.failed /\ have' = have
      BY <1>3, <2>2, HereIsTyped, FlushFileKeeps DEF Flushed, Become, FileCompleted
    <2>5. failed' = {} => failed = {}
      BY <2>4 DEF Kept, Here
    <2>6. \A v \in Torrents, c \in Blocks : Cached(cache', v, c) => Cached(cache, v, c)
      BY <2>4 DEF Kept, Here, Cached
    <2> SUFFICES ASSUME failed' = {}, NEW v \in Torrents, NEW i \in DOMAIN Files,
                        FileIsDone(have'[v], i), <<v, i>> \notin todo',
                        NEW c \in Files[i].first .. Files[i].last
                 PROVE  ~Cached(cache', v, c)
      BY DEF FilesAreFlushed
    <2>7. CASE <<v, i>> \in todo
      <3>1. x[1] = v /\ x[2] = i
        BY <2>1, <2>7
      <3>2. s.cache[v][c] = NoData
        BY <2>2, <2>4, <3>1, HereIsTyped, FilesAreTyped, FlushFileClears
      <3> QED BY <2>4, <3>2 DEF Cached
    <2>8. CASE <<v, i>> \notin todo
      BY <2>4, <2>5, <2>6, <2>8, FilesAreTyped DEF FilesAreFlushed
    <2> QED BY <2>7, <2>8
  <1>4. CASE SaveTimer
    <2>1. PICK s \in FlushDone(Here) : Flushed(s)
      BY <1>4 DEF SaveTimer
    <2> QED BY <1>4, <2>1, HereIsTyped, FlushDoneKeeps, FlushKeepsFiles DEF Flushed, SaveTimer
  <1>5. ASSUME NEW t \in Torrents, StopTorrent(t) \/ CloseTorrent(t)
        PROVE  FilesAreFlushed'
    <2>1. PICK s \in FlushTorrent(Here, t) : Flushed(s)
      BY <1>5 DEF StopTorrent, CloseTorrent
    <2>2. UNCHANGED <<have, todo>>
      BY <1>5 DEF StopTorrent, CloseTorrent
    <2> QED BY <2>1, <2>2, HereIsTyped, FlushTorrentKeeps, FlushKeepsFiles DEF Flushed
  <1>6. CASE SetLimit
    <2>1. PICK s \in Trim(Here, maxBlocks') : Flushed(s)
      BY <1>6 DEF SetLimit
    <2> QED BY <1>6, <2>1, HereIsTyped, TrimKeeps, FlushKeepsFiles DEF Flushed, SetLimit
  <1>7. CASE TimePasses
    BY <1>7 DEF TimePasses, FilesAreFlushed
  <1>8. CASE Crash
    <2>1. \A t \in Torrents : \A b : ~Cached(cache', t, b)
      BY <1>8 DEF Crash, NoContents, Cached
    <2> QED BY <2>1 DEF FilesAreFlushed
  <1> QED BY <1>0, <1>1, <1>2, <1>3, <1>4, <1>5, <1>6, <1>7, <1>8 DEF Next

\* When the files that a piece completed have been dealt with, nothing of a
\* file with only complete pieces is in the cache, if there are no webseeds to
\* write blocks of such a file again.
THEOREM CompleteFileIsFlushedHolds == ASSUME ~Webseeds PROVE Spec => []CompleteFileIsFlushed
  <1>1. Init => FilesAreFlushed
    BY DEF Init, FilesAreFlushed, NoContents, Cached
  <1>2. TypeOK /\ FilesAreFlushed /\ [Next]_vars => FilesAreFlushed'
    BY FilesStep
  <1>3. FilesAreFlushed => CompleteFileIsFlushed
    BY DEF FilesAreFlushed, CompleteFileIsFlushed, FileIsDone
  <1> QED BY <1>1, <1>2, <1>3, TypeCorrect, PTL DEF Spec
=============================================================================
