---------------------------- MODULE CacheProofs ----------------------------
(***************************************************************************)
(* What is proved of module Cache: type correctness, that the cache is a   *)
(* write-back block store (module BlockStore), and that it stays bounded,  *)
(* for all torrents, block counts, limits and failing writes.              *)
(***************************************************************************)
EXTENDS Cache, TLAPS, FiniteSetTheorems

-----------------------------------------------------------------------------
(* The outcome of a flush.                                                 *)

Stores == [cache : [Torrents -> [Blocks -> Data]], disk : [Torrents -> [Blocks -> Data]],
           failed : SUBSET Torrents, err : BOOLEAN]

\* In o, which s was flushed into, nothing has been written into the cache, and
\* a torrent without write errors reads as before and has only newer blocks on
\* the disk, unless writes may be short.
Kept(s, o) ==
  /\ o \in Stores
  /\ s.failed \subseteq o.failed
  /\ \A t \in Torrents, b \in Blocks :
       /\ o.cache[t][b] \in {s.cache[t][b], NoData}
       /\ ~MayShort /\ t \notin o.failed =>
            /\ Read(o, t, b) = Read(s, t, b)
            /\ o.disk[t][b] \in {s.disk[t][b], Read(s, t, b)}

\* Writing runs keeps every block that is not lost on the way.
LEMMA WroteKeeps ==
  ASSUME NEW s \in Stores, NEW F, NEW lost, NEW o, o = Wrote(s, F, lost)
  PROVE  /\ o \in Stores /\ o.failed = s.failed /\ o.err = s.err
         /\ \A t \in Torrents, b \in Blocks :
              /\ o.cache[t][b] \in {s.cache[t][b], NoData}
              /\ InRuns(F, t, b) => o.cache[t][b] = NoData
              /\ <<t, b>> \notin lost =>
                   /\ Read(o, t, b) = Read(s, t, b)
                   /\ o.disk[t][b] \in {s.disk[t][b], Read(s, t, b)}
  <1> DEFINE C == [t \in Torrents |-> [b \in Blocks |->
                     IF InRuns(F, t, b) THEN NoData ELSE s.cache[t][b]]]
             D == [t \in Torrents |-> [b \in Blocks |->
                     IF InRuns(F, t, b) /\ Cached(s.cache, t, b) /\ <<t, b>> \notin lost
                     THEN s.cache[t][b] ELSE s.disk[t][b]]]
  <1>1. o = [s EXCEPT !.cache = C, !.disk = D]
    BY DEF Wrote
  <1>2. C \in [Torrents -> [Blocks -> Data]] /\ D \in [Torrents -> [Blocks -> Data]]
    BY DEF Stores, Data
  <1>3. ASSUME NEW t \in Torrents, NEW b \in Blocks
        PROVE  /\ C[t][b] = IF InRuns(F, t, b) THEN NoData ELSE s.cache[t][b]
               /\ D[t][b] = IF InRuns(F, t, b) /\ s.cache[t][b] # NoData /\ <<t, b>> \notin lost
                            THEN s.cache[t][b] ELSE s.disk[t][b]
    BY DEF Cached
  <1> HIDE DEF C, D
  <1>4. o \in Stores /\ o.cache = C /\ o.disk = D /\ o.failed = s.failed /\ o.err = s.err
    BY <1>1, <1>2 DEF Stores
  <1> QED BY <1>3, <1>4 DEF Read

\* So does flushing, whatever fails.
LEMMA FlushKeeps ==
  ASSUME NEW s \in Stores, NEW F, NEW key, \A r \in F : r.tor \in Torrents,
         NEW o \in Flush(s, F, key)
  PROVE  Kept(s, o)
  <1>1. CASE o = Wrote(s, F, {})
    <2>1. PICK lost : lost = {}
      OBVIOUS
    <2>2. o = Wrote(s, F, lost)
      BY <1>1, <2>1
    <2>3. /\ o \in Stores /\ o.failed = s.failed
          /\ \A t \in Torrents, b \in Blocks :
                 /\ o.cache[t][b] \in {s.cache[t][b], NoData}
                 /\ <<t, b>> \notin lost =>
                      /\ Read(o, t, b) = Read(s, t, b)
                      /\ o.disk[t][b] \in {s.disk[t][b], Read(s, t, b)}
      BY <2>2, WroteKeeps
    <2>4. s.failed \subseteq o.failed
      BY <2>3
    <2> QED BY <2>1, <2>3, <2>4 DEF Kept
  <1>2. CASE \E P \in Prefixes(F, key) : \E r \in F \ P : o \in Fails(s, P, r)
    <2>0. PICK P \in Prefixes(F, key) : \E r \in F \ P : o \in Fails(s, P, r)
      BY <1>2
    <2>1. PICK r \in F \ P : o \in Fails(s, P, r)
      BY <2>0
    <2>2. PICK lost \in Tails(r) :
            o = [Wrote(s, P \cup {r}, lost) EXCEPT !.failed = @ \cup {r.tor}, !.err = TRUE]
      BY <2>1 DEF Fails
    <2> DEFINE w == Wrote(s, P \cup {r}, lost)
    <2>3. /\ w \in Stores /\ w.failed = s.failed
          /\ \A t \in Torrents, b \in Blocks :
                 /\ w.cache[t][b] \in {s.cache[t][b], NoData}
                 /\ <<t, b>> \notin lost =>
                      /\ Read(w, t, b) = Read(s, t, b)
                      /\ w.disk[t][b] \in {s.disk[t][b], Read(s, t, b)}
      BY WroteKeeps
    <2>4. \A t \in Torrents, b \in Blocks : t # r.tor => <<t, b>> \notin lost
      BY <2>2 DEF Tails
    <2>5. r.tor \in Torrents
      BY <2>1
    <2> HIDE DEF w
    <2>6. /\ o \in Stores /\ o.cache = w.cache /\ o.disk = w.disk
          /\ o.failed = s.failed \cup {r.tor}
      BY <2>2, <2>3, <2>5 DEF Stores, w
    <2>7. \A t, b : Read(o, t, b) = Read(w, t, b)
      BY <2>6 DEF Read
    <2>8. ASSUME NEW t \in Torrents, NEW b \in Blocks
          PROVE  /\ o.cache[t][b] \in {s.cache[t][b], NoData}
                 /\ t \notin o.failed =>
                      /\ Read(o, t, b) = Read(s, t, b)
                      /\ o.disk[t][b] \in {s.disk[t][b], Read(s, t, b)}
      <3>1. o.cache[t][b] \in {s.cache[t][b], NoData}
        BY <2>3, <2>6
      <3>2. ASSUME t \notin o.failed
            PROVE  /\ Read(o, t, b) = Read(s, t, b)
                   /\ o.disk[t][b] \in {s.disk[t][b], Read(s, t, b)}
        <4>1. <<t, b>> \notin lost
          BY <3>2, <2>4, <2>6
        <4> QED BY <4>1, <2>3, <2>6, <2>7
      <3> QED BY <3>1, <3>2
    <2>9. s.failed \subseteq o.failed
      BY <2>6
    <2> QED BY <2>6, <2>8, <2>9 DEF Kept
  <1>3. CASE o \in UNION {UNION {Fails(s, P, r) :
                                   r \in {q \in F \ P : P \cup {q} \in Prefixes(F, key)}} :
                            P \in Prefixes(F, key)}
    <2>1. PICK P \in Prefixes(F, key) :
            o \in UNION {Fails(s, P, r) : r \in {q \in F \ P : P \cup {q} \in Prefixes(F, key)}}
      BY <1>3
    <2>2. \E r \in F \ P : o \in Fails(s, P, r)
      BY <2>1
    <2> QED BY <2>1, <2>2, <1>2
  <1>4. CASE MayShort /\ \E lost : o = Wrote(s, F, lost)
    <2>1. PICK lost : o = Wrote(s, F, lost)
      BY <1>4
    <2>2. /\ o \in Stores /\ o.failed = s.failed
          /\ \A t \in Torrents, b \in Blocks :
                 /\ o.cache[t][b] \in {s.cache[t][b], NoData}
                 /\ InRuns(F, t, b) => o.cache[t][b] = NoData
                 /\ <<t, b>> \notin lost =>
                      /\ Read(o, t, b) = Read(s, t, b)
                      /\ o.disk[t][b] \in {s.disk[t][b], Read(s, t, b)}
      BY <2>1, WroteKeeps
    <2>3. s.failed \subseteq o.failed
      BY <2>2
    <2> QED BY <1>4, <2>2, <2>3 DEF Kept
  <1> QED BY <1>1, <1>3, <1>4 DEF Flush

LEMMA RunsAreTyped == \A c : \A r \in Runs(c) : r \in Run /\ r.tor \in Torrents
  BY DEF Runs, Run

LEMMA TrimKeeps ==
  ASSUME NEW s \in Stores, NEW limit, NEW o \in Trim(s, limit)
  PROVE  Kept(s, o)
  <1>1. CASE o = s
    BY <1>1 DEF Kept, Stores
  <1>2. CASE \E P \in Chosen(Runs(s.cache), ByRank(s.cache), limit) :
               o \in Flush(s, P, ByRank(s.cache))
    <2>1. PICK P \in Chosen(Runs(s.cache), ByRank(s.cache), limit) :
            o \in Flush(s, P, ByRank(s.cache))
      BY <1>2
    <2>2. \A r \in P : r.tor \in Torrents
      BY RunsAreTyped DEF Chosen, Prefixes
    <2> QED BY <2>1, <2>2, FlushKeeps
  <1> QED BY <1>1, <1>2 DEF Trim

LEMMA FlushDoneKeeps ==
  ASSUME NEW s \in Stores, NEW o \in FlushDone(s)
  PROVE  Kept(s, o)
  <1>1. PICK P \in Prefixes(Runs(s.cache), ByRank(s.cache)) : o \in Flush(s, P, ByRank(s.cache))
    BY DEF FlushDone
  <1>2. \A r \in P : r.tor \in Torrents
    BY RunsAreTyped DEF Prefixes
  <1> QED BY <1>1, <1>2, FlushKeeps

LEMMA FlushFileKeeps ==
  ASSUME NEW s \in Stores, NEW t, NEW f, NEW o \in FlushFile(s, t, f)
  PROVE  Kept(s, o)
  <1> DEFINE Cut(r) == [r EXCEPT !.first = IF @ < f.first THEN f.first ELSE @]
             F == {Cut(r) : r \in {q \in Runs(s.cache) : /\ q.tor = t /\ q.last >= f.first
                                                         /\ q.first <= f.last}}
  <1>1. \A r \in F : r.tor \in Torrents
    <2>1. \A r \in Run : Cut(r).tor = r.tor
      BY DEF Run
    <2> QED BY <2>1, RunsAreTyped
  <1>2. o \in Flush(s, F, [r \in F |-> -r.first])
    BY DEF FlushFile
  <1> HIDE DEF F
  <1> QED BY <1>1, <1>2, FlushKeeps

LEMMA FlushTorrentKeeps ==
  ASSUME NEW s \in Stores, NEW t, NEW o \in FlushTorrent(s, t)
  PROVE  Kept(s, o)
  <1> DEFINE F == {r \in Runs(s.cache) : r.tor = t}
  <1>1. \A r \in F : r.tor \in Torrents
    BY RunsAreTyped
  <1>2. o \in Flush(s, F, [r \in F |-> -r.first])
    BY DEF FlushTorrent
  <1> HIDE DEF F
  <1> QED BY <1>1, <1>2, FlushKeeps

-----------------------------------------------------------------------------
(* Type correctness.                                                       *)

LEMMA HereIsTyped == TypeOK => Here \in Stores
  BY DEF TypeOK, Here, Stores

LEMMA PutIsTyped ==
  ASSUME TypeOK, NEW t \in Torrents, NEW b \in Blocks, NEW d \in Contents
  PROVE  /\ Put(t, b, d) \in Stores
         /\ Put(t, b, d).cache = [cache EXCEPT ![t][b] = d]
         /\ Put(t, b, d).disk = disk
         /\ Put(t, b, d).failed = failed
  <1>1. d \in Data
    BY CacheAssumption DEF Data
  <1>2. [cache EXCEPT ![t][b] = d] \in [Torrents -> [Blocks -> Data]]
    BY <1>1 DEF TypeOK
  <1> QED BY <1>2 DEF Put, Here, Stores, TypeOK

\* The parts of the type invariant that a flush changes
StoreTypeOK ==
  /\ cache \in [Torrents -> [Blocks -> Data]]
  /\ age \in [Torrents -> [Blocks -> 0 .. MaxAge]]
  /\ disk \in [Torrents -> [Blocks -> Data]]
  /\ failed \subseteq Torrents

LEMMA FlushedIsTyped ==
  ASSUME TypeOK, NEW s \in Stores, Flushed(s)
  PROVE  StoreTypeOK'
  <1>1. age' \in [Torrents -> [Blocks -> 0 .. MaxAge]]
    BY CacheAssumption DEF TypeOK, Flushed
  <1> QED BY <1>1 DEF TypeOK, Flushed, Become, Stores, StoreTypeOK

LEMMA WrittenIsTyped ==
  ASSUME TypeOK, NEW t, NEW b, NEW s \in Stores, Written(t, b, s)
  PROVE  StoreTypeOK'
  <1>1. age' \in [Torrents -> [Blocks -> 0 .. MaxAge]]
    BY CacheAssumption DEF TypeOK, Written
  <1> QED BY <1>1 DEF TypeOK, Written, Become, Stores, StoreTypeOK

LEMMA GotBlockIsTyped ==
  ASSUME TypeOK, NEW t \in Torrents, NEW b \in Blocks, NEW s, GotBlock(s, t, b)
  PROVE  have' \in [Torrents -> SUBSET Blocks] /\ todo' \subseteq Torrents \X DOMAIN Files
  BY DEF TypeOK, GotBlock, FilesOf

LEMMA TypeStep == TypeOK /\ [Next]_vars => TypeOK'
  <1> SUFFICES ASSUME TypeOK, [Next]_vars PROVE TypeOK'
    OBVIOUS
  <1> USE DEF StoreTypeOK
  <1>0. CASE UNCHANGED vars
    BY <1>0 DEF TypeOK, vars
  <1>1. ASSUME NEW t \in Torrents, NEW b \in Blocks, NEW d \in Contents, PeerBlock(t, b, d)
        PROVE  TypeOK'
    <2>1. PICK s \in Trim(Put(t, b, d), maxBlocks) :
            /\ Written(t, b, s)
            /\ IF s.err THEN UNCHANGED <<have, todo>> ELSE GotBlock(s, t, b)
      BY <1>1 DEF PeerBlock
    <2>2. s \in Stores
      BY PutIsTyped, TrimKeeps DEF Kept
    <2>3. StoreTypeOK'
      BY <2>1, <2>2, WrittenIsTyped
    <2>4. have' \in [Torrents -> SUBSET Blocks] /\ todo' \subseteq Torrents \X DOMAIN Files
      BY <2>1, GotBlockIsTyped DEF TypeOK
    <2> QED BY <1>1, <2>3, <2>4 DEF TypeOK, PeerBlock
  <1>2. ASSUME NEW t \in Torrents, NEW b \in Blocks, NEW d \in Contents, WebseedBlock(t, b, d)
        PROVE  TypeOK'
    <2>1. PICK s \in Trim(Put(t, b, d), maxBlocks) : Written(t, b, s) /\ GotBlock(s, t, b)
      BY <1>2 DEF WebseedBlock
    <2>2. s \in Stores
      BY PutIsTyped, TrimKeeps DEF Kept
    <2>3. StoreTypeOK'
      BY <2>1, <2>2, WrittenIsTyped
    <2>4. have' \in [Torrents -> SUBSET Blocks] /\ todo' \subseteq Torrents \X DOMAIN Files
      BY <2>1, GotBlockIsTyped DEF TypeOK
    <2> QED BY <1>2, <2>3, <2>4 DEF TypeOK, WebseedBlock
  <1>3. CASE FileCompleted
    <2>1. PICK x \in todo : /\ \E s \in FlushFile(Here, x[1], Files[x[2]]) : Flushed(s)
                           /\ todo' = todo \ {x}
      BY <1>3 DEF FileCompleted
    <2>2. PICK s \in FlushFile(Here, x[1], Files[x[2]]) : Flushed(s)
      BY <2>1
    <2>3. s \in Stores
      BY HereIsTyped, FlushFileKeeps DEF Kept
    <2>4. StoreTypeOK'
      BY <2>2, <2>3, FlushedIsTyped
    <2> QED BY <1>3, <2>1, <2>4 DEF TypeOK, FileCompleted
  <1>4. CASE SaveTimer
    <2>1. PICK s \in FlushDone(Here) : Flushed(s)
      BY <1>4 DEF SaveTimer
    <2>2. s \in Stores
      BY HereIsTyped, FlushDoneKeeps DEF Kept
    <2>3. StoreTypeOK'
      BY <2>1, <2>2, FlushedIsTyped
    <2> QED BY <1>4, <2>3 DEF TypeOK, SaveTimer
  <1>5. ASSUME NEW t \in Torrents, StopTorrent(t) \/ CloseTorrent(t)
        PROVE  TypeOK'
    <2>1. PICK s \in FlushTorrent(Here, t) : Flushed(s)
      BY <1>5 DEF StopTorrent, CloseTorrent
    <2>2. s \in Stores
      BY HereIsTyped, FlushTorrentKeeps DEF Kept
    <2>3. StoreTypeOK'
      BY <2>1, <2>2, FlushedIsTyped
    <2> QED BY <1>5, <2>3 DEF TypeOK, StopTorrent, CloseTorrent
  <1>6. CASE SetLimit
    <2>1. PICK s \in Trim(Here, maxBlocks') : Flushed(s)
      BY <1>6 DEF SetLimit
    <2>2. s \in Stores
      BY HereIsTyped, TrimKeeps DEF Kept
    <2>3. StoreTypeOK'
      BY <2>1, <2>2, FlushedIsTyped
    <2> QED BY <1>6, <2>3 DEF TypeOK, SetLimit
  <1>7. CASE TimePasses
    <2>1. \A t \in Torrents, b \in Blocks :
            age'[t][b] \in Nat /\ age'[t][b] <= MaxAge
      BY <1>7, CacheAssumption DEF TypeOK, TimePasses
    <2>2. age' \in [Torrents -> [Blocks -> 0 .. MaxAge]]
      BY <1>7, <2>1, CacheAssumption DEF TimePasses
    <2> QED BY <1>7, <2>2 DEF TypeOK, TimePasses
  <1>8. CASE Crash
    <2>1. 0 \in 0 .. MaxAge
      BY CacheAssumption
    <2> QED BY <1>8, <2>1 DEF TypeOK, Crash, NoContents, Data
  <1> QED BY <1>0, <1>1, <1>2, <1>3, <1>4, <1>5, <1>6, <1>7, <1>8 DEF Next

\* Type correctness of the cache, the completion and the .resume file.
THEOREM TypeCorrect == Spec => []TypeOK
  <1>1. Init => TypeOK
    <2>1. 0 \in 0 .. MaxAge
      BY CacheAssumption
    <2> QED BY <2>1 DEF Init, TypeOK, NoContents, Data
  <1> QED BY <1>1, TypeStep, PTL DEF Spec

-----------------------------------------------------------------------------
(* The cache implements a write-back block store.                          *)

\* what reads return, at the end of a step that becomes s
LEMMA ViewOf ==
  ASSUME TypeOK
  PROVE  /\ View \in [Torrents -> [Blocks -> Data]]
         /\ \A t \in Torrents, b \in Blocks : View[t][b] = Read(Here, t, b)
         /\ \A t \in Torrents : View[t] = [b \in Blocks |-> Read(Here, t, b)]
  BY DEF View, Read, Here, TypeOK

LEMMA NextViewOf ==
  ASSUME NEW s \in Stores, Become(s)
  PROVE  /\ View' \in [Torrents -> [Blocks -> Data]]
         /\ disk' \in [Torrents -> [Blocks -> Data]]
         /\ \A t \in Torrents : View'[t] = [b \in Blocks |-> Read(s, t, b)]
         /\ \A t \in Torrents, b \in Blocks : View'[t][b] = Read(s, t, b)
         /\ disk' = s.disk /\ failed' = s.failed /\ failed' \subseteq Torrents
  BY DEF View, Read, Here, Become, Stores

LEMMA SyncStep ==
  ASSUME ~MayShort, TypeOK, NEW s, Kept(Here, s), Become(s)
  PROVE  Store!Sync
  <1>1. s \in Stores
    BY DEF Kept
  <1>2. Store!SomeFail
    BY <1>1, NextViewOf DEF Store!SomeFail, Store!Holdings, Kept, Here
  <1>3. ASSUME NEW u \in Torrents \ failed'
        PROVE  View'[u] = View[u] /\ Store!Synced(u)
    <2>1. \A b \in Blocks : Read(s, u, b) = Read(Here, u, b)
                          /\ s.disk[u][b] \in {disk[u][b], Read(Here, u, b)}
      BY <1>1, <1>3, NextViewOf DEF Kept, Here
    <2>2. View'[u] = View[u]
      BY <1>1, <2>1, ViewOf, NextViewOf
    <2>3. \A b \in Blocks : disk'[u][b] \in {disk[u][b], View'[u][b]}
      BY <1>1, <2>1, NextViewOf
    <2> QED BY <2>2, <2>3 DEF Store!Synced
  <1> QED BY <1>2, <1>3 DEF Store!Sync

LEMMA WriteStep ==
  ASSUME ~MayShort, TypeOK, NEW t \in Torrents, NEW b \in Blocks, NEW d \in Contents,
         NEW s, Kept(Put(t, b, d), s), Become(s)
  PROVE  Store!Write
  <1> DEFINE p == Put(t, b, d)
  <1>1. s \in Stores /\ d \in Data /\ d # NoData
    BY CacheAssumption DEF Kept, Data, NoData
  <1>2. /\ p \in Stores
        /\ p.cache = [cache EXCEPT ![t][b] = d] /\ p.disk = disk /\ p.failed = failed
    BY PutIsTyped
  <1> HIDE DEF p
  <1>3. Store!SomeFail
    <2>1. failed \subseteq failed'
      BY <1>1, <1>2, NextViewOf DEF Kept, p
    <2> QED BY <1>1, <2>1, NextViewOf DEF Store!SomeFail, Store!Holdings
  <1>4. ASSUME NEW u \in Torrents \ failed'
        PROVE  View'[u] = Store!Overwrite(u, t, b, d) /\ Store!Synced(u)
    <2>1. \A c \in Blocks : Read(s, u, c) = Read(p, u, c)
                          /\ s.disk[u][c] \in {disk[u][c], Read(p, u, c)}
      BY <1>1, <1>2, <1>4, NextViewOf DEF Kept, p
    <2>2. \A c \in Blocks : Read(p, u, c) = IF u = t /\ c = b THEN d ELSE Read(Here, u, c)
      BY <1>1, <1>2 DEF Read, Here, TypeOK
    <2>3. View'[u] = [c \in Blocks |-> IF u = t /\ c = b THEN d ELSE View[u][c]]
      BY <1>1, <2>1, <2>2, ViewOf, NextViewOf
    <2>4. View'[u] = Store!Overwrite(u, t, b, d)
      BY <2>3, ViewOf DEF Store!Overwrite
    <2>5. \A c \in Blocks : disk'[u][c] \in {disk[u][c], View'[u][c]}
      BY <1>1, <2>1, NextViewOf
    <2> QED BY <2>4, <2>5 DEF Store!Synced
  <1> QED BY <1>1, <1>3, <1>4 DEF Store!Write

LEMMA StoreStep == ~MayShort /\ TypeOK /\ [Next]_vars => [Store!Next]_(Store!svars)
  <1> SUFFICES ASSUME ~MayShort, TypeOK, [Next]_vars PROVE [Store!Next]_(Store!svars)
    OBVIOUS
  <1>0. CASE UNCHANGED vars
    BY <1>0 DEF vars, Store!svars, View, Here, Read
  <1>1. ASSUME NEW t \in Torrents, NEW b \in Blocks, NEW d \in Contents,
               PeerBlock(t, b, d) \/ WebseedBlock(t, b, d)
        PROVE  Store!Write
    <2>1. PICK s \in Trim(Put(t, b, d), maxBlocks) : Written(t, b, s)
      BY <1>1 DEF PeerBlock, WebseedBlock
    <2> QED BY <2>1, PutIsTyped, TrimKeeps, WriteStep DEF Written
  <1>2. CASE FileCompleted
    <2>0. PICK x \in todo : \E s \in FlushFile(Here, x[1], Files[x[2]]) : Flushed(s)
      BY <1>2 DEF FileCompleted
    <2>1. PICK s \in FlushFile(Here, x[1], Files[x[2]]) : Flushed(s)
      BY <2>0
    <2> QED BY <2>1, HereIsTyped, FlushFileKeeps, SyncStep DEF Flushed, Store!Next
  <1>3. CASE SaveTimer
    <2>1. PICK s \in FlushDone(Here) : Flushed(s)
      BY <1>3 DEF SaveTimer
    <2> QED BY <2>1, HereIsTyped, FlushDoneKeeps, SyncStep DEF Flushed, Store!Next
  <1>4. ASSUME NEW t \in Torrents, StopTorrent(t) \/ CloseTorrent(t)
        PROVE  Store!Next
    <2>1. PICK s \in FlushTorrent(Here, t) : Flushed(s)
      BY <1>4 DEF StopTorrent, CloseTorrent
    <2> QED BY <2>1, HereIsTyped, FlushTorrentKeeps, SyncStep DEF Flushed, Store!Next
  <1>5. CASE SetLimit
    <2>1. PICK s \in Trim(Here, maxBlocks') : Flushed(s)
      BY <1>5 DEF SetLimit
    <2> QED BY <2>1, HereIsTyped, TrimKeeps, SyncStep DEF Flushed, Store!Next
  <1>6. CASE TimePasses
    BY <1>6 DEF TimePasses, Store!svars, View, Here, Read
  <1>7. CASE Crash
    <2>1. View' = disk
      BY <1>7 DEF Crash, View, Here, Read, NoContents, TypeOK
    <2> QED BY <1>7, <2>1 DEF Crash, Store!Next, Store!Crash
  <1> QED BY <1>0, <1>1, <1>2, <1>3, <1>4, <1>5, <1>6, <1>7 DEF Next, Store!Next

\* As long as pwrite is not short, reads see the last write and only torrents
\* with write errors lose anything but by a crash.
THEOREM CacheImplementsStore == ASSUME ~MayShort PROVE Spec => StoreSpec
  <1>1. Init => Store!Init
    BY DEF Init, Store!Init, Store!Holdings, View, Here, Read, NoContents, Data
  <1>2. TypeOK /\ [Next]_vars => [Store!Next]_(Store!svars)
    BY StoreStep
  <1> QED BY <1>1, <1>2, TypeCorrect, PTL DEF Spec, Store!Spec, StoreSpec

-----------------------------------------------------------------------------
(* The cache stays bounded.                                                *)

CachedIn(c) == {tb \in Torrents \X Blocks : Cached(c, tb[1], tb[2])}

LEMMA CachedIsFinite ==
  \A c : IsFiniteSet(CachedIn(c)) /\ Size(c) \in Nat /\ Size(c) = Cardinality(CachedIn(c))
  <1>1. IsFiniteSet(Torrents \X Blocks)
    <2>1. 0 \in Int /\ BlockCount - 1 \in Int
      BY CacheAssumption
    <2>2. IsFiniteSet(Blocks)
      BY <2>1, FS_Interval DEF Blocks
    <2> QED BY <2>2, CacheAssumption, FS_Product
  <1>2. ASSUME NEW c PROVE IsFiniteSet(CachedIn(c)) /\ Size(c) \in Nat
    <2>1. IsFiniteSet(CachedIn(c))
      BY <1>1, FS_Subset DEF CachedIn
    <2> QED BY <2>1, FS_CardinalityType DEF Size, CachedIn
  <1> QED BY <1>2 DEF Size, CachedIn

LEMMA KeptIsNoLarger ==
  ASSUME NEW s \in Stores, NEW o, Kept(s, o)
  PROVE  Size(o.cache) <= Size(s.cache)
  <1>1. CachedIn(o.cache) \subseteq CachedIn(s.cache)
    <2>1. \A tb \in Torrents \X Blocks : Cached(o.cache, tb[1], tb[2]) => Cached(s.cache, tb[1], tb[2])
      BY DEF Kept, Cached
    <2> QED BY <2>1 DEF CachedIn
  <1> QED BY <1>1, CachedIsFinite, FS_Subset

LEMMA FreedIsSmaller ==
  ASSUME NEW s \in Stores, NEW o, Kept(s, o), NEW t \in Torrents, NEW b \in Blocks,
         s.cache[t][b] # NoData, o.cache[t][b] = NoData
  PROVE  Size(o.cache) < Size(s.cache)
  <1>1. CachedIn(o.cache) \subseteq CachedIn(s.cache)
    <2>1. \A tb \in Torrents \X Blocks : Cached(o.cache, tb[1], tb[2]) => Cached(s.cache, tb[1], tb[2])
      BY DEF Kept, Cached
    <2> QED BY <2>1 DEF CachedIn
  <1>2. <<t, b>> \in CachedIn(s.cache) /\ <<t, b>> \notin CachedIn(o.cache)
    BY DEF CachedIn, Cached
  <1>3. Cardinality(CachedIn(o.cache)) # Cardinality(CachedIn(s.cache))
    BY <1>1, <1>2, CachedIsFinite, FS_Subset
  <1>4. Size(o.cache) <= Size(s.cache)
    BY KeptIsNoLarger
  <1> QED BY <1>3, <1>4, CachedIsFinite

\* A flush of at least one run frees a block, even when it fails.
LEMMA FlushFrees ==
  ASSUME NEW s \in Stores, NEW F \in SUBSET Runs(s.cache), F # {}, NEW key,
         NEW o \in Flush(s, F, key)
  PROVE  Size(o.cache) < Size(s.cache)
  <1>1. Kept(s, o)
    BY RunsAreTyped, FlushKeeps
  <1>2. ASSUME NEW G \in SUBSET F, NEW r \in G, NEW lost, o.cache = Wrote(s, G, lost).cache
        PROVE  Size(o.cache) < Size(s.cache)
    <2>1. r \in Run /\ r.first <= r.last /\ Cached(s.cache, r.tor, r.first)
      BY <1>2 DEF Runs, Run, Blocks
    <2>2. InRuns(G, r.tor, r.first)
      BY <1>2, <2>1 DEF InRuns, Run, Blocks
    <2>3. Wrote(s, G, lost).cache[r.tor][r.first] = NoData
      <3>1. PICK w : w = Wrote(s, G, lost)
        OBVIOUS
      <3>2. /\ w \in Stores /\ w.failed = s.failed /\ w.err = s.err
            /\ \A t \in Torrents, b \in Blocks :
               /\ w.cache[t][b] \in {s.cache[t][b], NoData}
               /\ InRuns(G, t, b) => w.cache[t][b] = NoData
               /\ <<t, b>> \notin lost =>
                    /\ Read(w, t, b) = Read(s, t, b)
                    /\ w.disk[t][b] \in {s.disk[t][b], Read(s, t, b)}
        BY <3>1, WroteKeeps
      <3>3. r.tor \in Torrents /\ r.first \in Blocks
        BY <2>1 DEF Run
      <3> QED BY <3>1, <3>2, <3>3, <2>2
    <2> QED BY <1>1, <1>2, <2>1, <2>3, FreedIsSmaller DEF Cached, Run
  <1>3. CASE \E lost : o = Wrote(s, F, lost)
    BY <1>2, <1>3
  <1>4. CASE o \in UNION {UNION {Fails(s, P, r) :
                                   r \in {q \in F \ P : P \cup {q} \in Prefixes(F, key)}} :
                            P \in Prefixes(F, key)}
    <2>1. PICK P \in Prefixes(F, key) :
            o \in UNION {Fails(s, P, r) : r \in {q \in F \ P : P \cup {q} \in Prefixes(F, key)}}
      BY <1>4
    <2>2. PICK r \in F \ P : o \in Fails(s, P, r)
      BY <2>1
    <2>3. PICK lost : o = [Wrote(s, P \cup {r}, lost) EXCEPT !.failed = @ \cup {r.tor}, !.err = TRUE]
      BY <2>2 DEF Fails
    <2>4. Wrote(s, P \cup {r}, lost) \in Stores
      BY WroteKeeps
    <2>5. o.cache = Wrote(s, P \cup {r}, lost).cache
      BY <2>3, <2>4 DEF Stores
    <2>6. P \cup {r} \in SUBSET F
      BY <2>1, <2>2 DEF Prefixes
    <2> QED BY <2>5, <2>6, <1>2
  <1> QED BY <1>3, <1>4 DEF Flush

LEMMA TrimBounds ==
  ASSUME NEW s \in Stores, NEW limit \in Nat, NEW o \in Trim(s, limit)
  PROVE  Size(o.cache) <= limit \/ Size(o.cache) < Size(s.cache)
  <1>1. CASE o = s /\ ~(Size(s.cache) > limit)
    BY <1>1, CachedIsFinite
  <1>2. CASE \E P \in Chosen(Runs(s.cache), ByRank(s.cache), limit) :
               o \in Flush(s, P, ByRank(s.cache))
    <2>1. PICK P \in Chosen(Runs(s.cache), ByRank(s.cache), limit) :
            o \in Flush(s, P, ByRank(s.cache))
      BY <1>2
    <2>2. P # {} /\ P \in SUBSET Runs(s.cache)
      BY DEF Chosen, Prefixes
    <2> QED BY <2>1, <2>2, FlushFrees
  <1> QED BY <1>1, <1>2 DEF Trim

LEMMA PutAddsOne ==
  ASSUME TypeOK, NEW t \in Torrents, NEW b \in Blocks, NEW d \in Contents
  PROVE  Size(Put(t, b, d).cache) <= Size(cache) + 1
  <1>1. CachedIn(Put(t, b, d).cache) \subseteq CachedIn(cache) \cup {<<t, b>>}
    <2>1. Put(t, b, d).cache = [cache EXCEPT ![t][b] = d]
      BY DEF Put, Here
    <2>2. ASSUME NEW u \in Torrents, NEW c \in Blocks, <<u, c>> # <<t, b>>
          PROVE  Put(t, b, d).cache[u][c] = cache[u][c]
      BY <2>1, <2>2 DEF TypeOK
    <2> QED BY <2>2 DEF CachedIn, Cached
  <1>2. IsFiniteSet(CachedIn(cache) \cup {<<t, b>>})
        /\ Cardinality(CachedIn(cache) \cup {<<t, b>>}) <= Cardinality(CachedIn(cache)) + 1
    <2>1. IsFiniteSet(CachedIn(cache)) /\ Cardinality(CachedIn(cache)) \in Nat
      BY CachedIsFinite
    <2>2. IsFiniteSet(CachedIn(cache) \cup {<<t, b>>})
      BY <2>1, FS_AddElement
    <2>3. Cardinality(CachedIn(cache) \cup {<<t, b>>}) = Cardinality(CachedIn(cache))
          \/ Cardinality(CachedIn(cache) \cup {<<t, b>>}) = Cardinality(CachedIn(cache)) + 1
      BY <2>1, FS_AddElement
    <2> QED BY <2>1, <2>2, <2>3
  <1>3. Cardinality(CachedIn(Put(t, b, d).cache)) <= Cardinality(CachedIn(cache) \cup {<<t, b>>})
    BY <1>1, <1>2, FS_Subset
  <1>4. Cardinality(CachedIn(cache) \cup {<<t, b>>}) \in Nat
    BY <1>2, FS_CardinalityType
  <1> QED BY <1>2, <1>3, <1>4, CachedIsFinite

Bounded == Size(cache') <= Size(cache) \/ Size(cache') <= maxBlocks'

LEMMA BoundedStep == TypeOK /\ [Next]_vars => [Bounded]_vars
  <1> SUFFICES ASSUME TypeOK, Next PROVE Bounded
    OBVIOUS
  <1> USE DEF Bounded
  <1>0. maxBlocks \in Nat /\ (maxBlocks' \in Limits => maxBlocks' \in Nat)
    BY CacheAssumption DEF TypeOK
  <1>1. ASSUME NEW s, Kept(Here, s), Become(s)
        PROVE  Bounded
    BY <1>1, HereIsTyped, KeptIsNoLarger DEF Become, Here
  <1>2. ASSUME NEW t \in Torrents, NEW b \in Blocks, NEW d \in Contents,
               PeerBlock(t, b, d) \/ WebseedBlock(t, b, d)
        PROVE  Bounded
    <2>1. PICK s \in Trim(Put(t, b, d), maxBlocks) : Written(t, b, s) /\ maxBlocks' = maxBlocks
      BY <1>2 DEF PeerBlock, WebseedBlock
    <2>2. Size(s.cache) <= maxBlocks \/ Size(s.cache) < Size(Put(t, b, d).cache)
      BY <1>0, <2>1, PutIsTyped, TrimBounds
    <2>3. cache' = s.cache
      BY <2>1 DEF Written, Become
    <2> QED BY <1>0, <2>1, <2>2, <2>3, PutAddsOne, CachedIsFinite
  <1>3. CASE FileCompleted
    <2>1. PICK x \in todo : \E s \in FlushFile(Here, x[1], Files[x[2]]) : Flushed(s)
      BY <1>3 DEF FileCompleted
    <2>2. PICK s \in FlushFile(Here, x[1], Files[x[2]]) : Flushed(s)
      BY <2>1
    <2> QED BY <2>2, <1>1, HereIsTyped, FlushFileKeeps DEF Flushed
  <1>4. CASE SaveTimer
    <2>1. PICK s \in FlushDone(Here) : Flushed(s)
      BY <1>4 DEF SaveTimer
    <2> QED BY <2>1, <1>1, HereIsTyped, FlushDoneKeeps DEF Flushed
  <1>5. ASSUME NEW t \in Torrents, StopTorrent(t) \/ CloseTorrent(t)
        PROVE  Bounded
    <2>1. PICK s \in FlushTorrent(Here, t) : Flushed(s)
      BY <1>5 DEF StopTorrent, CloseTorrent
    <2> QED BY <2>1, <1>1, HereIsTyped, FlushTorrentKeeps DEF Flushed
  <1>6. CASE SetLimit
    <2>1. PICK s \in Trim(Here, maxBlocks') : Flushed(s)
      BY <1>6 DEF SetLimit
    <2> QED BY <2>1, <1>1, HereIsTyped, TrimKeeps DEF Flushed
  <1>7. CASE TimePasses
    BY <1>7, CachedIsFinite DEF TimePasses
  <1>8. CASE Crash
    <2>1. CachedIn(NoContents) \subseteq CachedIn(cache)
      BY DEF CachedIn, Cached, NoContents
    <2>2. Size(NoContents) <= Size(cache)
      BY <2>1, CachedIsFinite, FS_Subset
    <2> QED BY <1>8, <2>2 DEF Crash
  <1> QED BY <1>2, <1>3, <1>4, <1>5, <1>6, <1>7, <1>8 DEF Next

\* No step makes the cache larger than it was or may be, whatever fails.
THEOREM CacheIsBoundedHolds == Spec => CacheIsBounded
  BY BoundedStep, TypeCorrect, PTL DEF Spec, CacheIsBounded, Bounded
=============================================================================
