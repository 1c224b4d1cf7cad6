-------------------------- MODULE TorrentQueueProofs --------------------------
(* The queues, for every number of torrents, every batch and every           *)
(* interleaving with a torrentInit.  The positions are of the right type,    *)
(* number the torrents from 0 without gaps and implement the line of         *)
(* QueueOrder; a batch keeps its order; the pulse starts torrents in the     *)
(* order of the line; and no start that heeds the queue exceeds its slots.   *)
EXTENDS TorrentQueue, FiniteSetTheorems, WellFoundedInduction, TLAPS

(* The positions are a one-to-one numbering of the session: the property     *)
(* QueueIsSequenced and the fact, needed to see where a moved torrent ends,  *)
(* that every number is somebody's.                                          *)
Numbered ==
    /\ IsFiniteSet(session)
    /\ QueueIsSequenced
    /\ \A i \in 0 .. torrentCount - 1 : \E t \in session : queuePosition[t] = i

QInv == QTypeOK /\ Numbered
-----------------------------------------------------------------------------
(* The greater and the lesser of two numbers. *)
LEMMA MaxOfTwo ==
    ASSUME NEW a \in Int, NEW b \in Int
    PROVE  Max({a, b}) = IF a > b THEN a ELSE b
  BY DEF Max

LEMMA MinOfTwo ==
    ASSUME NEW a \in Int, NEW b \in Int
    PROVE  Min({a, b}) = IF a < b THEN a ELSE b
  BY DEF Min

(* A set that has a greatest element has it as its maximum. *)
LEMMA MaxIsGreatest ==
    ASSUME NEW S \in SUBSET Int, NEW g \in S, \A s \in S : s <= g
    PROVE  Max(S) = g
  <1>1. \A y \in S : g >= y
    OBVIOUS
  <1>2. \A x \in S : (\A y \in S : x >= y) => x = g
    OBVIOUS
  <1> QED
    BY <1>1, <1>2 DEF Max

(* Where tr_torrentSetQueuePosition puts the torrent, and the others. *)
Place(where) ==
    IF where < 0 THEN 0 ELSE IF where >= torrentCount THEN torrentCount - 1 ELSE where

Shifted(u, from, to) ==
    IF from < queuePosition[u] /\ queuePosition[u] <= to THEN queuePosition[u] - 1
    ELSE IF to <= queuePosition[u] /\ queuePosition[u] < from THEN queuePosition[u] + 1
    ELSE queuePosition[u]

(* After all torrents have made room, the greatest position among them is    *)
(* at least the one before the place that was asked for, if there is such a  *)
(* place, and otherwise it is the last but one.                              *)
LEMMA RoomIsMade ==
    ASSUME QInv, NEW t \in session, NEW pos \in Nat
    PROVE  LET back == Back(Walked(t, pos))
           IN  /\ back \in Int
               /\ pos < torrentCount => back + 1 >= pos
               /\ pos >= torrentCount => back = torrentCount - 2
  <1> DEFINE w == Walked(t, pos)
             S == {w[u] : u \in session}
             old == queuePosition[t]
             n == torrentCount
  <1>1. /\ session \subseteq Torrents
        /\ n \in Nat
        /\ \A u \in session : queuePosition[u] \in 0 .. n - 1
        /\ \A u, v \in session : queuePosition[u] = queuePosition[v] => u = v
        /\ \A i \in 0 .. n - 1 : \E u \in session : queuePosition[u] = i
    BY DEF QInv, QTypeOK, Numbered, QueueIsSequenced
  <1>2. \A u \in session \ {t} :
           w[u] = IF old < pos /\ old <= queuePosition[u] /\ queuePosition[u] <= pos
                  THEN queuePosition[u] - 1
                  ELSE IF old > pos /\ pos <= queuePosition[u] /\ queuePosition[u] < old
                  THEN queuePosition[u] + 1 ELSE queuePosition[u]
    BY <1>1 DEF Walked
  <1>3. w[t] = -1
    BY DEF Walked
  <1>4. S \subseteq Int
    BY <1>1, <1>2, <1>3
  <1>5. \A u \in session : w[u] \in S
    OBVIOUS
  <1>6. old \in 0 .. n - 1
    BY <1>1
  <1>7. CASE pos >= n
    <2>1. \A u \in session : w[u] <= n - 2
      BY <1>1, <1>2, <1>3, <1>6, <1>7
    <2>2. \E u \in session : w[u] = n - 2
      <3>1. CASE n = 1
        BY <3>1, <1>3
      <3>2. CASE n # 1 /\ old = n - 1
        BY <3>2, <1>1, <1>2, <1>6, <1>7
      <3>3. CASE n # 1 /\ old # n - 1
        BY <3>3, <1>1, <1>2, <1>6, <1>7
      <3> QED
        BY <3>1, <3>2, <3>3
    <2>3. n - 2 \in S /\ \A s \in S : s <= n - 2
      BY <2>1, <2>2
    <2>4. Max(S) = n - 2
      BY <2>3, <1>4, MaxIsGreatest
    <2> QED
      BY <2>4, <1>1, <1>7 DEF Back
  <1>8. CASE pos < n
    <2>1. \E u \in session : w[u] >= pos - 1
      <3>1. CASE pos = 0
        BY <3>1, <1>3
      <3>2. CASE pos # 0 /\ pos <= old
        BY <3>2, <1>1, <1>2, <1>6, <1>8
      <3>3. CASE pos > old
        BY <3>3, <1>1, <1>2, <1>6, <1>8
      <3> QED
        BY <3>1, <3>2, <3>3, <1>6
    <2>2. \A u \in session : w[u] \in Int /\ w[u] <= n - 1
      BY <1>1, <1>2, <1>3, <1>6, <1>8
    <2>3. \E g \in S : \A s \in S : s <= g
      <3>1. CASE \E u \in session : w[u] = n - 1
        BY <3>1, <2>2
      <3>2. CASE ~\E u \in session : w[u] = n - 1
        <4>1. \A u \in session : w[u] <= n - 2
          BY <3>2, <2>2, <1>1
        <4>2. CASE n = 1
          BY <4>2, <4>1, <1>3
        <4>3. CASE n # 1 /\ old = n - 1
          <5>1. PICK v \in session : queuePosition[v] = n - 2
            BY <4>3, <1>1, <1>6
          <5>2. v # t /\ w[v] \in {n - 2, n - 1}
            BY <5>1, <4>3, <1>1, <1>2, <1>8
          <5> QED
            BY <5>2, <4>1, <3>2
        <4>4. CASE n # 1 /\ old # n - 1
          <5>1. PICK v \in session : queuePosition[v] = n - 1
            BY <4>4, <1>1, <1>6
          <5>2. v # t /\ w[v] \in {n - 2, n - 1}
            BY <5>1, <4>4, <1>1, <1>2, <1>6, <1>8
          <5> QED
            BY <5>2, <4>1, <3>2
        <4> QED
          BY <4>2, <4>3, <4>4
      <3> QED
        BY <3>1, <3>2
    <2>4. PICK g \in S : \A s \in S : s <= g
      BY <2>3
    <2>5. Max(S) = g
      BY <2>4, <1>4, MaxIsGreatest
    <2>6. g \in Int /\ g + 1 >= pos
      <3>1. PICK u \in session : w[u] >= pos - 1
        BY <2>1
      <3>2. w[u] <= g /\ w[u] \in Int /\ g \in Int
        BY <2>4, <1>4, <1>5
      <3> QED
        BY <3>1, <3>2
    <2> QED
      BY <2>5, <2>6, <1>1, <1>8 DEF Back
  <1> QED
    BY <1>7, <1>8, <1>1

(* A move: t gets the place that was asked for, as far as there is one, and  *)
(* those between its old and its new place shift by one towards the old one. *)
LEMMA MoveShifts ==
    ASSUME QInv, NEW t \in session, NEW where \in Int, SetQueuePosition(t, where)
    PROVE  /\ queuePosition' \in [Torrents -> Nat]
           /\ queuePosition'[t] = Place(where)
           /\ \A u \in session \ {t} :
                 queuePosition'[u] = Shifted(u, queuePosition[t], Place(where))
  <1> DEFINE pos == Max({0, where})
             back == Back(Walked(t, pos))
             old == queuePosition[t]
             n == torrentCount
  <1>1. /\ session \subseteq Torrents
        /\ n \in Nat
        /\ queuePosition \in [Torrents -> Nat]
        /\ \A u \in session : queuePosition[u] \in 0 .. n - 1
        /\ \A u, v \in session : queuePosition[u] = queuePosition[v] => u = v
    BY DEF QInv, QTypeOK, Numbered, QueueIsSequenced
  <1>2. pos = IF where > 0 THEN where ELSE 0
    BY MaxOfTwo
  <1>3. pos \in Nat
    BY <1>2
  <1>4. /\ back \in Int
        /\ pos < n => back + 1 >= pos
        /\ pos >= n => back = n - 2
    BY <1>3, RoomIsMade
  <1>5. queuePosition' = [u \in Torrents |->
            IF u = t THEN Min({pos, back + 1})
            ELSE IF u \in session THEN Walked(t, pos)[u] ELSE queuePosition[u]]
    BY DEF SetQueuePosition
  <1>6. queuePosition'[t] = Place(where)
    <2>1. queuePosition'[t] = Min({pos, back + 1})
      BY <1>5, <1>1
    <2>2. \A a, b \in Int : Min({a, b}) = IF a < b THEN a ELSE b
      BY MinOfTwo
    <2>3. pos \in Int /\ back + 1 \in Int
      BY <1>3, <1>4
    <2>4. Min({pos, back + 1}) = IF pos < back + 1 THEN pos ELSE back + 1
      BY <2>2, <2>3
    <2> QED
      BY <2>1, <2>4, <1>1, <1>2, <1>3, <1>4 DEF Place
  <1>7. \A u \in session \ {t} : queuePosition'[u] = Walked(t, pos)[u]
    BY <1>5, <1>1
  <1>8. \A u \in session \ {t} : queuePosition'[u] = Shifted(u, old, Place(where))
    <2>1. SUFFICES ASSUME NEW u \in session \ {t}
                   PROVE  Walked(t, pos)[u] = Shifted(u, old, Place(where))
      BY <1>7
    <2>2. /\ queuePosition[u] \in 0 .. n - 1
          /\ old \in 0 .. n - 1
          /\ queuePosition[u] # old
      BY <1>1
    <2>3. Walked(t, pos)[u] =
             IF old < pos /\ old <= queuePosition[u] /\ queuePosition[u] <= pos
             THEN queuePosition[u] - 1
             ELSE IF old > pos /\ pos <= queuePosition[u] /\ queuePosition[u] < old
             THEN queuePosition[u] + 1 ELSE queuePosition[u]
      BY <1>3, <2>2 DEF Walked
    <2> QED
      BY <2>2, <2>3, <1>1, <1>2, <1>3 DEF Shifted, Place
  <1>9. queuePosition' \in [Torrents -> Nat]
    <2>1. Place(where) \in Nat
      BY <1>1 DEF Place
    <2>2. \A u \in session \ {t} : queuePosition'[u] \in Nat
      BY <1>8, <2>1, <1>1 DEF Shifted
    <2>3. \A u \in Torrents : queuePosition'[u] \in Nat
      <3>1. \A u \in Torrents \ session : queuePosition'[u] = queuePosition[u]
        BY <1>5, <1>1
      <3> QED
        BY <3>1, <2>1, <2>2, <1>6, <1>1
    <2> QED
      BY <2>3, <1>5
  <1> QED
    BY <1>6, <1>8, <1>9

(* So a move leaves the torrents numbered without gaps, ...                  *)
LEMMA MoveKeepsNumbers ==
    ASSUME QInv, NEW t \in session, NEW where \in Int, SetQueuePosition(t, where),
           UNCHANGED <<session, torrentCount>>
    PROVE  Numbered'
  <1> DEFINE old == queuePosition[t]
             new == Place(where)
             n == torrentCount
  <1>1. /\ IsFiniteSet(session) /\ n = Cardinality(session) /\ n \in Nat
        /\ \A u \in session : queuePosition[u] \in 0 .. n - 1
        /\ \A u, v \in session : queuePosition[u] = queuePosition[v] => u = v
        /\ \A i \in 0 .. n - 1 : \E u \in session : queuePosition[u] = i
    BY DEF QInv, QTypeOK, Numbered, QueueIsSequenced
  <1>2. /\ queuePosition'[t] = new
        /\ \A u \in session \ {t} : queuePosition'[u] = Shifted(u, old, new)
    BY MoveShifts
  <1>3. old \in 0 .. n - 1 /\ new \in 0 .. n - 1
    BY <1>1 DEF Place
  <1>4. \A u \in session : queuePosition'[u] \in 0 .. n - 1
    BY <1>1, <1>2, <1>3 DEF Shifted
  <1>5. \A u, v \in session : queuePosition'[u] = queuePosition'[v] => u = v
    <2>1. \A u \in session \ {t} : queuePosition'[u] # new
      BY <1>1, <1>2, <1>3 DEF Shifted
    <2>2. \A u, v \in session \ {t} : queuePosition'[u] = queuePosition'[v] => u = v
      <3>1. SUFFICES ASSUME NEW u \in session \ {t}, NEW v \in session \ {t},
                            Shifted(u, old, new) = Shifted(v, old, new)
                     PROVE  queuePosition[u] = queuePosition[v]
        BY <1>1, <1>2
      <3>2. queuePosition[u] # old /\ queuePosition[v] # old
        BY <1>1
      <3> QED
        BY <3>1, <3>2, <1>1, <1>3 DEF Shifted
    <2> QED
      BY <2>1, <2>2, <1>2
  <1>6. \A i \in 0 .. n - 1 : \E u \in session : queuePosition'[u] = i
    <2>1. SUFFICES ASSUME NEW i \in 0 .. n - 1, i # new
                   PROVE  \E u \in session \ {t} : Shifted(u, old, new) = i
      BY <1>2
    <2> DEFINE before == IF old <= i /\ i < new THEN i + 1
                         ELSE IF new < i /\ i <= old THEN i - 1 ELSE i
    <2>2. before \in 0 .. n - 1 /\ before # old
      BY <2>1, <1>1, <1>3
    <2>3. PICK u \in session : queuePosition[u] = before
      BY <2>2, <1>1
    <2>4. u # t
      BY <2>2, <2>3
    <2>5. Shifted(u, old, new) = i
      BY <2>1, <2>3, <1>1, <1>3 DEF Shifted
    <2> QED
      BY <2>4, <2>5
  <1> QED
    BY <1>1, <1>4, <1>5, <1>6 DEF Numbered, QueueIsSequenced

(* ... and the others in the order they had.                                 *)
LEMMA MoveKeepsOthers ==
    ASSUME QInv, NEW t \in session, NEW where \in Int, SetQueuePosition(t, where),
           NEW a \in session \ {t}, NEW b \in session \ {t}
    PROVE  queuePosition'[a] < queuePosition'[b] <=> queuePosition[a] < queuePosition[b]
  <1>1. /\ queuePosition'[a] = Shifted(a, queuePosition[t], Place(where))
        /\ queuePosition'[b] = Shifted(b, queuePosition[t], Place(where))
    BY MoveShifts
  <1>2. /\ torrentCount \in Nat
        /\ \A u \in session : queuePosition[u] \in 0 .. torrentCount - 1
        /\ queuePosition[a] # queuePosition[t] /\ queuePosition[b] # queuePosition[t]
        /\ queuePosition[a] = queuePosition[b] => a = b
    BY DEF QInv, QTypeOK, Numbered, QueueIsSequenced
  <1>3. Place(where) \in 0 .. torrentCount - 1
    BY <1>2 DEF Place
  <1> QED
    BY <1>1, <1>2, <1>3 DEF Shifted
-----------------------------------------------------------------------------
(* A new torrent takes the next number. *)
LEMMA AddKeepsNumbers ==
    ASSUME QInv, NEW t \in Torrents, NEW seed \in BOOLEAN, NEW gone \in BOOLEAN,
           NEW doStart \in BOOLEAN, Add(t, seed, gone, doStart)
    PROVE  Numbered'
  <1>1. /\ IsFiniteSet(session) /\ torrentCount = Cardinality(session)
        /\ torrentCount \in Nat /\ session \subseteq Torrents
        /\ queuePosition \in [Torrents -> Nat]
        /\ \A u \in session : queuePosition[u] \in 0 .. torrentCount - 1
        /\ \A u, v \in session : queuePosition[u] = queuePosition[v] => u = v
        /\ \A i \in 0 .. torrentCount - 1 : \E u \in session : queuePosition[u] = i
    BY DEF QInv, QTypeOK, Numbered, QueueIsSequenced
  <1>2. /\ t \notin session /\ session' = session \cup {t}
        /\ torrentCount' = torrentCount + 1
        /\ queuePosition' = [queuePosition EXCEPT ![t] = torrentCount]
    BY DEF Add
  <1>3. IsFiniteSet(session') /\ torrentCount' = Cardinality(session')
    BY <1>1, <1>2, FS_AddElement
  <1>4. queuePosition'[t] = torrentCount
        /\ \A u \in session : queuePosition'[u] = queuePosition[u]
    BY <1>1, <1>2
  <1>5. \A u \in session' : queuePosition'[u] \in 0 .. torrentCount' - 1
    BY <1>1, <1>2, <1>4
  <1>6. \A u, v \in session' : queuePosition'[u] = queuePosition'[v] => u = v
    BY <1>1, <1>2, <1>4
  <1>7. \A i \in 0 .. torrentCount' - 1 : \E u \in session' : queuePosition'[u] = i
    <2>1. SUFFICES ASSUME NEW i \in 0 .. torrentCount
                   PROVE  \E u \in session' : queuePosition'[u] = i
      BY <1>1, <1>2
    <2>2. CASE i = torrentCount
      BY <2>2, <1>2, <1>4
    <2>3. CASE i # torrentCount
      <3>1. PICK u \in session : queuePosition[u] = i
        BY <2>1, <2>3, <1>1
      <3> QED
        BY <3>1, <1>2, <1>4
    <2> QED
      BY <2>2, <2>3
  <1> QED
    BY <1>3, <1>5, <1>6, <1>7 DEF Numbered, QueueIsSequenced

(* freeTorrent lets the torrents behind the removed one close up. *)
LEMMA RemoveKeepsNumbers ==
    ASSUME QInv, NEW t \in Torrents, Remove(t)
    PROVE  /\ Numbered'
           /\ torrentCount' \in Nat
           /\ queuePosition' \in [Torrents -> Nat]
           /\ \A a, b \in session \ {t} :
                 queuePosition'[a] < queuePosition'[b] <=> queuePosition[a] < queuePosition[b]
  <1> DEFINE old == queuePosition[t]
  <1>1. /\ IsFiniteSet(session) /\ torrentCount = Cardinality(session)
        /\ torrentCount \in Nat /\ session \subseteq Torrents
        /\ queuePosition \in [Torrents -> Nat]
        /\ \A u \in session : queuePosition[u] \in 0 .. torrentCount - 1
        /\ \A u, v \in session : queuePosition[u] = queuePosition[v] => u = v
        /\ \A i \in 0 .. torrentCount - 1 : \E u \in session : queuePosition[u] = i
    BY DEF QInv, QTypeOK, Numbered, QueueIsSequenced
  <1>2. /\ t \in session /\ session' = session \ {t}
        /\ torrentCount' = torrentCount - 1
        /\ queuePosition' = [u \in Torrents |->
               IF u = t \/ u \notin session THEN 0
               ELSE IF queuePosition[u] > queuePosition[t] THEN queuePosition[u] - 1
               ELSE queuePosition[u]]
    BY DEF Remove
  <1>3. IsFiniteSet(session') /\ torrentCount' = Cardinality(session')
    BY <1>1, <1>2, FS_RemoveElement
  <1>4. \A u \in session' : /\ queuePosition[u] # old
                            /\ queuePosition'[u] = IF queuePosition[u] > old
                                 THEN queuePosition[u] - 1 ELSE queuePosition[u]
    BY <1>1, <1>2
  <1>5. old \in 0 .. torrentCount - 1
    BY <1>1, <1>2
  <1>6. \A u \in session' : queuePosition'[u] \in 0 .. torrentCount' - 1
    BY <1>1, <1>2, <1>4, <1>5
  <1>7. \A a, b \in session \ {t} :
           queuePosition'[a] < queuePosition'[b] <=> queuePosition[a] < queuePosition[b]
    BY <1>1, <1>2, <1>4, <1>5
  <1>8. \A u, v \in session' : queuePosition'[u] = queuePosition'[v] => u = v
    BY <1>1, <1>2, <1>4, <1>5
  <1>9. \A i \in 0 .. torrentCount' - 1 : \E u \in session' : queuePosition'[u] = i
    <2>1. SUFFICES ASSUME NEW i \in 0 .. torrentCount - 2
                   PROVE  \E u \in session' : queuePosition'[u] = i
      BY <1>1, <1>2
    <2> DEFINE before == IF i < old THEN i ELSE i + 1
    <2>2. before \in 0 .. torrentCount - 1 /\ before # old
      BY <2>1, <1>1, <1>5
    <2>3. PICK u \in session : queuePosition[u] = before
      BY <2>2, <1>1
    <2>4. u \in session'
      BY <2>2, <2>3, <1>2
    <2>5. queuePosition'[u] = i
      BY <2>1, <2>3, <2>4, <1>4, <1>5, <1>1
    <2> QED
      BY <2>4, <2>5
  <1>10. torrentCount' \in Nat
    BY <1>1, <1>2, <1>5
  <1>11. queuePosition' \in [Torrents -> Nat]
    <2>1. \A u \in Torrents : queuePosition'[u] \in Nat
      BY <1>1, <1>2, <1>5
    <2> QED
      BY <2>1, <1>2
  <1> QED
    BY <1>3, <1>6, <1>7, <1>8, <1>9, <1>10, <1>11 DEF Numbered, QueueIsSequenced
-----------------------------------------------------------------------------
LEMMA TypeInitially == Init => QTypeOK
  <1>1. SUFFICES ASSUME Init PROVE QTypeOK
    OBVIOUS
  <1>2. queueSize \in [Dirs -> Nat]
    <2>1. queueSize \in [Dirs -> UNION {Sizes[d] : d \in Dirs}]
      BY <1>1 DEF Init
    <2>2. UNION {Sizes[d] : d \in Dirs} \subseteq Nat
      BY QueueAssumption
    <2> QED
      BY <2>1, <2>2
  <1> QED
    BY <1>1, <1>2 DEF Init, QTypeOK, NoBatch, NoStart

(* A batch is a sequence of torrents of the session, walked through from one *)
(* end to the other.                                                         *)
LEMMA BatchBegins ==
    ASSUME QInv, NEW move \in Moves, NEW S \in Batches, BatchBegin(move, S)
    PROVE  /\ batch' \in [move : Moves, torrents : Seq(session), i : Nat]
           /\ batch'.i \in DOMAIN batch'.torrents
  <1>1. PICK q \in [1..Cardinality(S) -> S] :
           batch' = [move |-> move, torrents |-> q,
                     i |-> IF FromFront(move) THEN 1 ELSE Len(q)]
    BY DEF BatchBegin
  <1>2. S \subseteq session /\ S # {}
    BY DEF BatchBegin
  <1>3. IsFiniteSet(S) /\ Cardinality(S) \in Nat /\ Cardinality(S) # 0
    <2>1. IsFiniteSet(S)
      BY <1>2, FS_Subset DEF QInv, Numbered
    <2> QED
      BY <2>1, <1>2, FS_CardinalityType, FS_EmptySet
  <1>4. q \in Seq(session) /\ Len(q) = Cardinality(S) /\ DOMAIN q = 1..Cardinality(S)
    BY <1>1, <1>2, <1>3
  <1> QED
    BY <1>1, <1>3, <1>4

LEMMA BatchGoesOn ==
    ASSUME QInv, BatchStep
    PROVE  /\ batch.torrents[batch.i] \in session
           /\ Target(batch.move, batch.torrents[batch.i]) \in Int
           /\ batch' \in {NoBatch} \cup [move : Moves, torrents : Seq(session), i : Nat]
           /\ batch' # NoBatch => batch'.i \in DOMAIN batch'.torrents
  <1>1. /\ batch \in [move : Moves, torrents : Seq(session), i : Nat]
        /\ batch.i \in DOMAIN batch.torrents
        /\ session \subseteq Torrents /\ torrentCount \in Nat
        /\ queuePosition \in [Torrents -> Nat]
    BY DEF QInv, QTypeOK, BatchStep
  <1> DEFINE t == batch.torrents[batch.i]
             next == IF FromFront(batch.move) THEN batch.i + 1 ELSE batch.i - 1
  <1>2. t \in session
    BY <1>1
  <1>3. Target(batch.move, t) \in Int
    BY <1>1, <1>2, QueueAssumption DEF Target
  <1>4. batch' = IF next \in DOMAIN batch.torrents
                 THEN [batch EXCEPT !.i = next] ELSE NoBatch
    BY DEF BatchStep
  <1>5. CASE next \in DOMAIN batch.torrents
    <2>1. next \in Nat
      BY <1>5, <1>1
    <2>2. batch' = [batch EXCEPT !.i = next]
      BY <1>4, <1>5
    <2>3. /\ batch' \in [move : Moves, torrents : Seq(session), i : Nat]
          /\ batch'.i = next /\ batch'.torrents = batch.torrents
      BY <1>1, <2>1, <2>2
    <2> QED
      BY <1>2, <1>3, <1>5, <2>3
  <1> QED
    BY <1>2, <1>3, <1>4, <1>5

LEMMA TypeKept == QInv /\ [Next]_vars => QTypeOK'
  <1> SUFFICES ASSUME QInv, [Next]_vars PROVE QTypeOK'
    OBVIOUS
  <1> QTypeOK
    BY DEF QInv
  <1>1. ASSUME NEW t \in Torrents, NEW seed \in BOOLEAN, NEW gone \in BOOLEAN,
               NEW doStart \in BOOLEAN, Add(t, seed, gone, doStart)
        PROVE  QTypeOK'
    <2>1. session \subseteq session' /\ session' \subseteq Torrents
      BY <1>1 DEF Add, QTypeOK
    <2>2. /\ batch' \in {NoBatch} \cup [move : Moves, torrents : Seq(session'), i : Nat]
          /\ batch' # NoBatch => batch'.i \in DOMAIN batch'.torrents
      BY <1>1, <2>1 DEF Add, QTypeOK
    <2>3. starting' \in [tor : session' \cup {None}, wait : BOOLEAN]
      BY <1>1, <2>1 DEF Add, QTypeOK
    <2>4. torrentCount' \in Nat /\ queuePosition' \in [Torrents -> Nat]
      BY <1>1 DEF Add, QTypeOK
    <2>5. /\ isRunning' \in [Torrents -> BOOLEAN] /\ isStopping' \in [Torrents -> BOOLEAN]
          /\ isQueued' \in [Torrents -> BOOLEAN] /\ isSeed' \in [Torrents -> BOOLEAN]
          /\ lost' \in [Torrents -> BOOLEAN]
      BY <1>1 DEF Add, QTypeOK
    <2> QED
      BY <1>1, <2>1, <2>2, <2>3, <2>4, <2>5 DEF Add, QTypeOK, settings
  <1>2. ASSUME NEW t \in Torrents, Remove(t) PROVE QTypeOK'
    <2>1. torrentCount' \in Nat /\ queuePosition' \in [Torrents -> Nat]
      BY <1>2, RemoveKeepsNumbers
    <2>2. batch' = NoBatch /\ starting' = NoStart
      BY <1>2 DEF Remove, EventLoop
    <2> QED
      BY <1>2, <2>1, <2>2 DEF Remove, QTypeOK, settings, NoStart
  <1>3. ASSUME NEW t \in Torrents, StartCheck(t) PROVE QTypeOK'
    BY <1>3 DEF StartCheck, QTypeOK, places, flags, disk, settings
  <1>4. ASSUME StartFinish PROVE QTypeOK'
    BY <1>4 DEF StartFinish, QTypeOK, places, settings, NoStart
  <1>5. ASSUME NEW t \in Torrents, StartNow(t) PROVE QTypeOK'
    BY <1>5 DEF StartNow, QTypeOK, places, settings
  <1>6. ASSUME NEW t \in Torrents, AskStop(t) PROVE QTypeOK'
    BY <1>6 DEF AskStop, QTypeOK, places, disk, settings
  <1>7. ASSUME Pulse PROVE QTypeOK'
    BY <1>7 DEF Pulse, QTypeOK, places, settings
  <1>8. ASSUME NEW t \in Torrents, NEW where \in Positions, PlaceAt(t, where)
        PROVE  QTypeOK'
    <2>1. t \in session /\ where \in Int /\ SetQueuePosition(t, where)
      BY <1>8, QueueAssumption DEF PlaceAt
    <2>2. queuePosition' \in [Torrents -> Nat]
      BY <2>1, MoveShifts
    <2> QED
      BY <1>8, <2>2 DEF PlaceAt, QTypeOK, flags, disk, settings
  <1>9. ASSUME NEW move \in Moves, NEW S \in Batches, BatchBegin(move, S)
        PROVE  QTypeOK'
    <2>1. /\ batch' \in [move : Moves, torrents : Seq(session), i : Nat]
          /\ batch'.i \in DOMAIN batch'.torrents
      BY <1>9, BatchBegins
    <2> QED
      BY <1>9, <2>1 DEF BatchBegin, QTypeOK, places, flags, disk, settings
  <1>10. ASSUME BatchStep PROVE QTypeOK'
    <2>1. /\ batch' \in {NoBatch} \cup [move : Moves, torrents : Seq(session), i : Nat]
          /\ batch' # NoBatch => batch'.i \in DOMAIN batch'.torrents
      BY <1>10, BatchGoesOn
    <2>2. queuePosition' \in [Torrents -> Nat]
      <3>1. PICK t \in session, where \in Int : SetQueuePosition(t, where)
        BY <1>10, BatchGoesOn DEF BatchStep
      <3> QED
        BY <3>1, MoveShifts
    <2> QED
      BY <1>10, <2>1, <2>2 DEF BatchStep, QTypeOK, flags, disk, settings
  <1>11. ASSUME NEW t \in Torrents, NEW full \in BOOLEAN, Flip(t, full) PROVE QTypeOK'
    BY <1>11 DEF Flip, QTypeOK, places, settings
  <1>12. ASSUME NEW t \in Torrents, Traffic(t) PROVE QTypeOK'
    BY <1>12 DEF Traffic, QTypeOK, places, flags, settings
  <1>13. ASSUME NEW t \in Torrents, Disk(t) PROVE QTypeOK'
    BY <1>13 DEF Disk, QTypeOK, places, flags, settings
  <1>14. ASSUME NEW d \in Dirs, NEW n \in Sizes[d], SetQueueSize(d, n) PROVE QTypeOK'
    <2>1. n \in Nat
      BY QueueAssumption
    <2> QED
      BY <1>14, <2>1 DEF SetQueueSize, QTypeOK, places, flags, disk
  <1>15. ASSUME NEW d \in Switched, NEW on \in BOOLEAN, SetQueueEnabled(d, on)
         PROVE  QTypeOK'
    BY <1>15 DEF SetQueueEnabled, QTypeOK, places, flags, disk
  <1>16. ASSUME UNCHANGED vars PROVE QTypeOK'
    BY <1>16 DEF vars, QTypeOK, places, flags, disk, settings
  <1> QED
    BY <1>1, <1>2, <1>3, <1>4, <1>5, <1>6, <1>7, <1>8, <1>9, <1>10, <1>11, <1>12,
       <1>13, <1>14, <1>15, <1>16 DEF Next

LEMMA NumberedKept == QInv /\ [Next]_vars => Numbered'
  <1> SUFFICES ASSUME QInv, [Next]_vars PROVE Numbered'
    OBVIOUS
  <1>1. ASSUME UNCHANGED places PROVE Numbered'
    BY <1>1 DEF places, QInv, Numbered, QueueIsSequenced
  <1>2. ASSUME NEW t \in Torrents, NEW seed \in BOOLEAN, NEW gone \in BOOLEAN,
               NEW doStart \in BOOLEAN, Add(t, seed, gone, doStart)
        PROVE  Numbered'
    BY <1>2, AddKeepsNumbers
  <1>3. ASSUME NEW t \in Torrents, Remove(t) PROVE Numbered'
    BY <1>3, RemoveKeepsNumbers
  <1>4. ASSUME NEW t \in Torrents, NEW where \in Positions, PlaceAt(t, where)
        PROVE  Numbered'
    <2>1. /\ t \in session /\ where \in Int /\ SetQueuePosition(t, where)
          /\ UNCHANGED <<session, torrentCount>>
      BY <1>4, QueueAssumption DEF PlaceAt
    <2> QED
      BY <2>1, MoveKeepsNumbers
  <1>5. ASSUME BatchStep PROVE Numbered'
    <2>1. PICK t \in session, where \in Int : SetQueuePosition(t, where)
      BY <1>5, BatchGoesOn DEF BatchStep
    <2>2. UNCHANGED <<session, torrentCount>>
      BY <1>5 DEF BatchStep
    <2> QED
      BY <2>1, <2>2, MoveKeepsNumbers
  <1> QED
    BY <1>1, <1>2, <1>3, <1>4, <1>5
       DEF Next, vars, StartCheck, StartFinish, StartNow, AskStop, Pulse, BatchBegin,
           Flip, Traffic, Disk, SetQueueSize, SetQueueEnabled

LEMMA InvInitially == Init => QInv
  BY TypeInitially, FS_EmptySet DEF Init, QInv, Numbered, QueueIsSequenced

THEOREM InvHolds == Spec => []QInv
  <1>1. QInv /\ [Next]_vars => QInv'
    BY TypeKept, NumberedKept DEF QInv
  <1> QED
    BY <1>1, InvInitially, PTL DEF Spec

(* Type correctness of the queues, for all torrents, sizes and batches.      *)
THEOREM QueueTypeCorrect == Spec => []QTypeOK
  <1>1. QInv => QTypeOK
    BY DEF QInv
  <1> QED
    BY <1>1, InvHolds, PTL

(* The assertion queueIsSequenced of tr_torrentSetQueuePosition and          *)
(* freeTorrent never fails: after any sequence of additions, removals, moves *)
(* and steps of batch moves the n torrents have the positions 0 to n-1.      *)
THEOREM QueueIsSequencedHolds == Spec => []QueueIsSequenced
  <1>1. QInv => QueueIsSequenced
    BY DEF QInv, Numbered
  <1> QED
    BY <1>1, InvHolds, PTL
-----------------------------------------------------------------------------
(* A move of one torrent is a move in the abstract line: it goes right       *)
(* behind those that have the smaller positions afterwards.                  *)
LEMMA MoveIsMove ==
    ASSUME QInv, NEW t \in session, NEW where \in Int, SetQueuePosition(t, where),
           UNCHANGED <<session, torrentCount>>
    PROVE  \E front \in SUBSET session : Order!Move(t, front)
  <1> DEFINE front == {u \in session \ {t} : queuePosition'[u] < queuePosition'[t]}
             rest == session \ (front \cup {t})
  <1>1. /\ queuePosition' \in [Torrents -> Nat] /\ session' = session
        /\ session \subseteq Torrents /\ queuePosition \in [Torrents -> Nat]
        /\ \A u, v \in session : queuePosition'[u] = queuePosition'[v] => u = v
    BY MoveShifts, MoveKeepsNumbers DEF QInv, QTypeOK, Numbered, QueueIsSequenced
  <1>2. \A a, b \in session \ {t} :
           queuePosition'[a] < queuePosition'[b] <=> queuePosition[a] < queuePosition[b]
    BY MoveKeepsOthers
  <1>3. \A u \in rest : queuePosition'[t] < queuePosition'[u]
    BY <1>1
  <1>4. \A a \in front : \A b \in rest : <<a, b>> \in InFront
    <2>1. SUFFICES ASSUME NEW a \in front, NEW b \in rest
                   PROVE  queuePosition[a] < queuePosition[b]
      BY DEF InFront
    <2>2. queuePosition'[a] < queuePosition'[b]
      BY <1>1, <1>3
    <2> QED
      BY <2>2, <1>2
  <1>5. InFront' = (InFront \cap ((session \ {t}) \X (session \ {t})))
                     \cup (front \X {t}) \cup ({t} \X rest)
    <2>1. ASSUME NEW a \in session, NEW b \in session
          PROVE  queuePosition'[a] < queuePosition'[b] <=>
                    \/ a # t /\ b # t /\ queuePosition[a] < queuePosition[b]
                    \/ a \in front /\ b = t
                    \/ a = t /\ b \in rest
      BY <1>1, <1>2, <1>3
    <2>2. InFront' = {p \in session \X session : queuePosition'[p[1]] < queuePosition'[p[2]]}
      BY <1>1 DEF InFront
    <2> QED
      BY <2>1, <2>2 DEF InFront
  <1>6. front \in SUBSET session /\ front \subseteq session \ {t}
    OBVIOUS
  <1> QED
    BY <1>1, <1>4, <1>5, <1>6 DEF Order!Move, Order!Within, Order!Ahead

LEMMA AddIsJoin ==
    ASSUME QInv, NEW t \in Torrents, NEW seed \in BOOLEAN, NEW gone \in BOOLEAN,
           NEW doStart \in BOOLEAN, Add(t, seed, gone, doStart)
    PROVE  Order!Join(t)
  <1>1. /\ torrentCount \in Nat /\ session \subseteq Torrents
        /\ queuePosition \in [Torrents -> Nat]
        /\ \A u \in session : queuePosition[u] \in 0 .. torrentCount - 1
    BY DEF QInv, QTypeOK, Numbered, QueueIsSequenced
  <1>2. /\ t \notin session /\ session' = session \cup {t}
        /\ queuePosition' = [queuePosition EXCEPT ![t] = torrentCount]
    BY DEF Add
  <1>3. ASSUME NEW a \in session', NEW b \in session'
        PROVE  queuePosition'[a] < queuePosition'[b] <=>
                  \/ a \in session /\ b \in session /\ queuePosition[a] < queuePosition[b]
                  \/ a \in session /\ b = t
    BY <1>1, <1>2
  <1>4. InFront' = {p \in session' \X session' : queuePosition'[p[1]] < queuePosition'[p[2]]}
    BY DEF InFront
  <1>5. InFront' = InFront \cup (session \X {t})
    BY <1>2, <1>3, <1>4 DEF InFront
  <1> QED
    BY <1>2, <1>5 DEF Order!Join, Order!Ahead

LEMMA RemoveIsLeave ==
    ASSUME QInv, NEW t \in Torrents, Remove(t)
    PROVE  Order!Leave(t)
  <1>1. t \in session /\ session' = session \ {t}
    BY DEF Remove
  <1>2. \A a, b \in session \ {t} :
           queuePosition'[a] < queuePosition'[b] <=> queuePosition[a] < queuePosition[b]
    BY RemoveKeepsNumbers
  <1>3. InFront' = {p \in session' \X session' : queuePosition'[p[1]] < queuePosition'[p[2]]}
    BY DEF InFront
  <1>4. InFront' = InFront \cap ((session \ {t}) \X (session \ {t}))
    BY <1>1, <1>2, <1>3 DEF InFront
  <1> QED
    BY <1>1, <1>4 DEF Order!Leave, Order!Within

(* Positions implement the line of QueueOrder: joining at the back, closing  *)
(* up and moving one torrent at a time are all that ever happens to it.      *)
THEOREM QueueImplementsOrder == Spec => OrderSpec
  <1>1. Init => Order!Init
    BY DEF Init, Order!Init, InFront
  <1>2. QInv /\ [Next]_vars => [Order!Next]_(Order!vars)
    <2> SUFFICES ASSUME QInv, [Next]_vars PROVE [Order!Next]_(Order!vars)
      OBVIOUS
    <2>1. session \subseteq Torrents
      BY DEF QInv, QTypeOK
    <2>2. ASSUME UNCHANGED places PROVE UNCHANGED Order!vars
      BY <2>2 DEF places, Order!vars, InFront
    <2>3. ASSUME NEW t \in Torrents, NEW seed \in BOOLEAN, NEW gone \in BOOLEAN,
                 NEW doStart \in BOOLEAN, Add(t, seed, gone, doStart)
          PROVE  Order!Next
      BY <2>3, AddIsJoin DEF Order!Next
    <2>4. ASSUME NEW t \in Torrents, Remove(t) PROVE Order!Next
      BY <2>4, RemoveIsLeave DEF Order!Next
    <2>5. ASSUME NEW t \in Torrents, NEW where \in Positions, PlaceAt(t, where)
          PROVE  Order!Next
      <3>1. /\ t \in session /\ where \in Int /\ SetQueuePosition(t, where)
            /\ UNCHANGED <<session, torrentCount>>
        BY <2>5, QueueAssumption DEF PlaceAt
      <3> QED
        BY <3>1, <2>1, MoveIsMove DEF Order!Next
    <2>6. ASSUME BatchStep PROVE Order!Next
      <3>1. PICK t \in session, where \in Int : SetQueuePosition(t, where)
        BY <2>6, BatchGoesOn DEF BatchStep
      <3>2. UNCHANGED <<session, torrentCount>>
        BY <2>6 DEF BatchStep
      <3> QED
        BY <3>1, <3>2, <2>1, MoveIsMove DEF Order!Next
    <2> QED
      BY <2>2, <2>3, <2>4, <2>5, <2>6
         DEF Next, vars, StartCheck, StartFinish, StartNow, AskStop, Pulse, BatchBegin,
             Flip, Traffic, Disk, SetQueueSize, SetQueueEnabled
  <1> QED
    BY <1>1, <1>2, InvHolds, PTL DEF Spec, OrderSpec, Order!Spec
-----------------------------------------------------------------------------
(* The batch moves to the top and to the bottom.                             *)

(* Those the loop has dealt with stand in their old order at the end they    *)
(* were moved to, ahead of everybody outside the batch if it is the top;     *)
(* torrents that are added meanwhile stand behind all of them.               *)
BatchProgress ==
    batch # NoBatch =>
       LET q == batch.torrents
           i == batch.i
       IN  /\ \A j, k \in DOMAIN q : q[j] = q[k] => j = k
           /\ batch.move = "bottom" =>
                 \A j, k \in DOMAIN q :
                    j < k /\ k < i => queuePosition[q[j]] < queuePosition[q[k]]
           /\ batch.move = "top" =>
                 \A j \in DOMAIN q : i < j =>
                    /\ \A k \in DOMAIN q : j < k => queuePosition[q[j]] < queuePosition[q[k]]
                    /\ \A u \in session : (\A k \in DOMAIN q : u # q[k]) =>
                          queuePosition[q[j]] < queuePosition[u]

(* What the loop has to have done when a torrent is the last one. *)
BatchIsThrough(q, move) ==
    /\ \A j, k \in DOMAIN q : j < k => queuePosition[q[j]] < queuePosition[q[k]]
    /\ move = "top" =>
          \A u \in session : (\A k \in DOMAIN q : u # q[k]) =>
             \A j \in DOMAIN q : queuePosition[q[j]] < queuePosition[u]

LEMMA BatchIsTyped ==
    ASSUME QInv, batch # NoBatch
    PROVE  /\ batch \in [move : Moves, torrents : Seq(session), i : Nat]
           /\ DOMAIN batch.torrents = 1 .. Len(batch.torrents)
           /\ Len(batch.torrents) \in Nat
           /\ batch.i \in DOMAIN batch.torrents
           /\ \A j \in DOMAIN batch.torrents : batch.torrents[j] \in session
  BY DEF QInv, QTypeOK

(* Nothing is in front of a torrent that was moved to the top, and nothing   *)
(* is behind one that was moved to the bottom.                               *)
LEMMA MovedToTheEnd ==
    ASSUME QInv, NEW t \in session, NEW move \in {"top", "bottom"},
           SetQueuePosition(t, Target(move, t)), UNCHANGED <<session, torrentCount>>,
           NEW u \in session \ {t}
    PROVE  /\ move = "top" => queuePosition'[t] < queuePosition'[u]
           /\ move = "bottom" => queuePosition'[u] < queuePosition'[t]
  <1>1. /\ torrentCount \in Nat /\ torrentCount # 0
        /\ \A v \in session : queuePosition[v] \in 0 .. torrentCount - 1
    BY DEF QInv, QTypeOK, Numbered, QueueIsSequenced
  <1>2. Target(move, t) \in Int
    BY <1>1 DEF Target
  <1>3. Numbered'
    BY <1>2, MoveKeepsNumbers
  <1>4. /\ queuePosition'[t] \in 0 .. torrentCount - 1
        /\ queuePosition'[u] \in 0 .. torrentCount - 1
        /\ queuePosition'[t] # queuePosition'[u]
    BY <1>3 DEF Numbered, QueueIsSequenced
  <1>5. queuePosition'[t] = Place(Target(move, t))
    BY <1>2, MoveShifts
  <1>6. /\ move = "top" => queuePosition'[t] = 0
        /\ move = "bottom" => queuePosition'[t] = torrentCount - 1
    BY <1>1, <1>5 DEF Place, Target
  <1> QED
    BY <1>1, <1>4, <1>6

LEMMA BatchStepProgress ==
    ASSUME QInv, BatchProgress, BatchStep, NEW q, NEW i, NEW move \in {"top", "bottom"},
           batch.torrents = q, batch.i = i, batch.move = move
    PROVE  /\ batch' # NoBatch => BatchProgress'
           /\ batch' = NoBatch => BatchIsThrough(q, move)'
  <1> DEFINE t == q[i]
             next == IF FromFront(move) THEN i + 1 ELSE i - 1
  <1>0. batch # NoBatch
    BY DEF BatchStep
  <1>1. /\ DOMAIN q = 1 .. Len(q) /\ Len(q) \in Nat /\ i \in DOMAIN q
        /\ \A j \in DOMAIN q : q[j] \in session
    BY <1>0, BatchIsTyped
  <1>2. /\ SetQueuePosition(t, Target(move, t)) /\ Target(move, t) \in Int
        /\ t \in session /\ session' = session /\ torrentCount' = torrentCount
    BY BatchGoesOn DEF BatchStep
  <1>3. \A j, k \in DOMAIN q : q[j] = q[k] => j = k
    BY <1>0 DEF BatchProgress
  <1>4. \A j \in DOMAIN q : j # i => q[j] \in session \ {t}
    BY <1>1, <1>3
  <1>5. \A a, b \in session \ {t} :
           queuePosition[a] < queuePosition[b] => queuePosition'[a] < queuePosition'[b]
    BY <1>2, MoveKeepsOthers
  <1>6. \A a \in session \ {t} :
           /\ move = "top" => queuePosition'[t] < queuePosition'[a]
           /\ move = "bottom" => queuePosition'[a] < queuePosition'[t]
    BY <1>2, MovedToTheEnd
  <1>7. batch' = IF next \in DOMAIN q THEN [batch EXCEPT !.i = next] ELSE NoBatch
    BY DEF BatchStep
  <1>8. next \in DOMAIN q => /\ batch'.torrents = q /\ batch'.i = next /\ batch'.move = move
                             /\ batch' # NoBatch
    <2>1. SUFFICES ASSUME next \in DOMAIN q
                   PROVE  /\ batch'.torrents = q /\ batch'.i = next /\ batch'.move = move
      BY DEF NoBatch
    <2>2. batch' = [batch EXCEPT !.i = next]
      BY <1>7, <2>1
    <2> QED
      BY <1>0, <2>2, BatchIsTyped
  <1>9. CASE move = "bottom"
    <2>1. next = i + 1
      BY <1>9 DEF FromFront
    <2>2. ASSUME NEW j \in DOMAIN q, NEW k \in DOMAIN q, j < k, k < i + 1
          PROVE  queuePosition'[q[j]] < queuePosition'[q[k]]
      <3>1. CASE k = i
        <4>1. j # i
          BY <1>1, <2>2, <3>1
        <4> QED
          BY <1>4, <1>6, <1>9, <3>1, <4>1
      <3>2. CASE k # i
        <4>1. j < k /\ k < i /\ j # i
          BY <1>1, <2>2, <3>2
        <4>2. queuePosition[q[j]] < queuePosition[q[k]]
          BY <1>0, <1>9, <4>1 DEF BatchProgress
        <4> QED
          BY <1>4, <1>5, <3>2, <4>1, <4>2
      <3> QED
        BY <3>1, <3>2
    <2>3. CASE next \in DOMAIN q
      BY <1>3, <1>8, <1>9, <2>1, <2>2, <2>3 DEF BatchProgress
    <2>4. CASE next \notin DOMAIN q
      <3>1. \A k \in DOMAIN q : k < i + 1
        BY <1>1, <2>1, <2>4
      <3> QED
        BY <1>7, <1>9, <2>2, <2>4, <3>1 DEF BatchIsThrough
    <2> QED
      BY <2>3, <2>4
  <1>10. CASE move = "top"
    <2>1. next = i - 1
      BY <1>10 DEF FromFront
    <2>2. ASSUME NEW j \in DOMAIN q, NEW k \in DOMAIN q, i - 1 < j, j < k
          PROVE  queuePosition'[q[j]] < queuePosition'[q[k]]
      <3>1. CASE j = i
        <4>1. k # i
          BY <1>1, <2>2, <3>1
        <4> QED
          BY <1>4, <1>6, <1>10, <3>1, <4>1
      <3>2. CASE j # i
        <4>1. i < j /\ j < k /\ k # i
          BY <1>1, <2>2, <3>2
        <4>2. queuePosition[q[j]] < queuePosition[q[k]]
          BY <1>0, <1>10, <4>1 DEF BatchProgress
        <4> QED
          BY <1>4, <1>5, <3>2, <4>1, <4>2
      <3> QED
        BY <3>1, <3>2
    <2>3. ASSUME NEW j \in DOMAIN q, i - 1 < j,
                 NEW u \in session, \A k \in DOMAIN q : u # q[k]
          PROVE  queuePosition'[q[j]] < queuePosition'[u]
      <3>0. u \in session \ {t}
        BY <1>1, <2>3
      <3>1. CASE j = i
        BY <1>6, <1>10, <3>0, <3>1
      <3>2. CASE j # i
        <4>1. i < j
          BY <1>1, <2>3, <3>2
        <4>2. queuePosition[q[j]] < queuePosition[u]
          BY <1>0, <1>10, <2>3, <4>1 DEF BatchProgress
        <4> QED
          BY <1>4, <1>5, <3>0, <3>2, <4>2
      <3> QED
        BY <3>1, <3>2
    <2>4. CASE next \in DOMAIN q
      BY <1>2, <1>3, <1>8, <1>10, <2>1, <2>2, <2>3, <2>4 DEF BatchProgress
    <2>5. CASE next \notin DOMAIN q
      <3>1. \A j \in DOMAIN q : i - 1 < j
        BY <1>1, <2>1, <2>5
      <3> QED
        BY <1>2, <1>7, <1>10, <2>2, <2>3, <2>5, <3>1 DEF BatchIsThrough
    <2> QED
      BY <2>4, <2>5
  <1> QED
    BY <1>9, <1>10

LEMMA BatchProgressKept == QInv /\ BatchProgress /\ [Next]_vars => BatchProgress'
  <1> SUFFICES ASSUME QInv, BatchProgress, [Next]_vars PROVE BatchProgress'
    OBVIOUS
  <1>1. ASSUME UNCHANGED <<session, queuePosition, batch>> PROVE BatchProgress'
    BY <1>1 DEF BatchProgress
  <1>2. ASSUME EventLoop, UNCHANGED batch PROVE BatchProgress'
    BY <1>2 DEF EventLoop, BatchProgress
  <1>3. ASSUME NEW t \in Torrents, NEW seed \in BOOLEAN, NEW gone \in BOOLEAN,
               NEW doStart \in BOOLEAN, Add(t, seed, gone, doStart), batch # NoBatch
        PROVE  BatchProgress'
    <2>1. PICK q : q = batch.torrents
      OBVIOUS
    <2>2. /\ \A j \in DOMAIN q : q[j] \in session
          /\ batch.i \in DOMAIN q /\ DOMAIN q = 1 .. Len(q) /\ Len(q) \in Nat
      BY <1>3, <2>1, BatchIsTyped
    <2>3. /\ session' = session \cup {t} /\ t \notin session /\ batch' = batch
          /\ session \subseteq Torrents /\ torrentCount \in Nat
          /\ queuePosition' = [queuePosition EXCEPT ![t] = torrentCount]
          /\ queuePosition \in [Torrents -> Nat]
      BY <1>3 DEF Add, QInv, QTypeOK
    <2>4. /\ queuePosition'[t] = torrentCount
          /\ \A u \in session : queuePosition'[u] = queuePosition[u] /\ queuePosition[u] < torrentCount
      BY <2>3 DEF QInv, QTypeOK, Numbered, QueueIsSequenced
    <2>5. ASSUME NEW u \in session', \A k \in DOMAIN q : u # q[k],
                 NEW j \in DOMAIN q, batch.i < j, batch.move = "top"
          PROVE  queuePosition'[q[j]] < queuePosition'[u]
      <3>1. CASE u = t
        BY <2>2, <2>4, <3>1
      <3>2. CASE u # t
        BY <1>3, <2>1, <2>2, <2>3, <2>4, <2>5, <3>2 DEF BatchProgress
      <3> QED
        BY <3>1, <3>2
    <2>6. \A j \in DOMAIN q : queuePosition'[q[j]] = queuePosition[q[j]]
      BY <2>2, <2>4
    <2> QED
      BY <1>3, <2>1, <2>3, <2>5, <2>6 DEF BatchProgress
  <1>4. ASSUME NEW move \in Moves, NEW S \in Batches, BatchBegin(move, S)
        PROVE  BatchProgress'
    <2>1. PICK q \in [1..Cardinality(S) -> S] :
             /\ Sorted(q)
             /\ batch' = [move |-> move, torrents |-> q,
                          i |-> IF FromFront(move) THEN 1 ELSE Len(q)]
      BY <1>4 DEF BatchBegin
    <2>2. S \subseteq session /\ IsFiniteSet(S) /\ Cardinality(S) \in Nat
      <3>1. S \subseteq session /\ IsFiniteSet(session)
        BY <1>4 DEF BatchBegin, QInv, Numbered
      <3> QED
        BY <3>1, FS_Subset, FS_CardinalityType
    <2>3. DOMAIN q = 1 .. Len(q) /\ Len(q) \in Nat
      BY <2>1, <2>2
    <2>4. /\ batch'.torrents = q /\ batch'.move = move
          /\ batch'.i = IF FromFront(move) THEN 1 ELSE Len(q)
      BY <2>1
    <2>5. ASSUME NEW j \in DOMAIN q, NEW k \in DOMAIN q, q[j] = q[k] PROVE j = k
      <3>1. q[j] \in Torrents /\ queuePosition[q[j]] \in Nat
        BY <2>1, <2>2 DEF QInv, QTypeOK
      <3>2. ~(j < k) /\ ~(k < j)
        BY <2>1, <2>5, <3>1 DEF Sorted
      <3> QED
        BY <2>3, <3>2
    <2>6. CASE move = "bottom"
      <3>1. batch'.i = 1
        BY <2>4, <2>6 DEF FromFront
      <3>2. \A k \in DOMAIN q : ~(k < 1)
        BY <2>3
      <3> QED
        BY <2>4, <2>5, <2>6, <3>1, <3>2 DEF BatchProgress
    <2>7. CASE move = "top"
      <3>1. batch'.i = Len(q)
        BY <2>4, <2>7 DEF FromFront
      <3>2. \A k \in DOMAIN q : ~(Len(q) < k)
        BY <2>3
      <3> QED
        BY <2>4, <2>5, <2>7, <3>1, <3>2 DEF BatchProgress
    <2>8. CASE move \notin {"top", "bottom"}
      BY <2>4, <2>5, <2>8 DEF BatchProgress
    <2> QED
      BY <2>6, <2>7, <2>8
  <1>5. ASSUME BatchStep PROVE BatchProgress'
    <2>1. CASE batch.move \in {"top", "bottom"}
      <3>1. PICK q, i : batch.torrents = q /\ batch.i = i
        OBVIOUS
      <3> QED
        BY <1>5, <2>1, <3>1, BatchStepProgress DEF BatchProgress
    <2>2. CASE batch.move \notin {"top", "bottom"} /\ batch' # NoBatch
      <3>1. batch # NoBatch /\ batch'.torrents = batch.torrents /\ batch'.move = batch.move
        BY <1>5, <2>2, BatchIsTyped DEF BatchStep
      <3> QED
        BY <2>2, <3>1 DEF BatchProgress
    <2>3. CASE batch' = NoBatch
      BY <2>3 DEF BatchProgress
    <2> QED
      BY <2>1, <2>2, <2>3
  <1>6. ASSUME NEW t \in Torrents, NEW seed \in BOOLEAN, NEW gone \in BOOLEAN,
               NEW doStart \in BOOLEAN, Add(t, seed, gone, doStart)
        PROVE  BatchProgress'
    <2>1. CASE batch = NoBatch
      BY <1>6, <2>1 DEF Add, BatchProgress
    <2> QED
      BY <1>3, <1>6, <2>1
  <1> QED
    BY <1>1, <1>2, <1>4, <1>5, <1>6
       DEF Next, vars, places, Remove, StartCheck, StartFinish, StartNow, AskStop, PlaceAt,
           Pulse, Flip, Traffic, Disk, SetQueueSize, SetQueueEnabled

(* A batch move to the top or to the bottom ends with its torrents in the    *)
(* order they had, those moved to the top ahead of everybody else, however   *)
(* many torrents are added to the session while the loop runs.               *)
THEOREM BatchKeepsOrderHolds == Spec => BatchKeepsOrder
  <1> DEFINE Through ==
        batch.move \in {"top", "bottom"} /\ batch' = NoBatch =>
           LET q == batch.torrents
           IN  /\ \A j, k \in DOMAIN q :
                     j < k => queuePosition'[q[j]] < queuePosition'[q[k]]
               /\ batch.move = "top" =>
                     \A u \in session \ {q[j] : j \in DOMAIN q} :
                        \A j \in DOMAIN q : queuePosition'[q[j]] < queuePosition'[u]
  <1>1. Init => BatchProgress
    BY DEF Init, BatchProgress
  <1>2. QInv /\ BatchProgress /\ [Next]_vars => [Through]_vars
    <2> SUFFICES ASSUME QInv, BatchProgress, Next,
                        batch.move \in {"top", "bottom"}, batch' = NoBatch
                 PROVE  Through
      OBVIOUS
    <2>1. batch # NoBatch
      BY DEF NoBatch
    <2>2. BatchStep
      BY <2>1 DEF Next, EventLoop, Add, Remove, StartCheck, StartFinish, StartNow, AskStop,
                  PlaceAt, Pulse, BatchBegin, Flip, Traffic, Disk, SetQueueSize, SetQueueEnabled
    <2>3. PICK q, i, move : batch.torrents = q /\ batch.i = i /\ batch.move = move
      OBVIOUS
    <2>4. BatchIsThrough(q, move)'
      BY <2>2, <2>3, BatchStepProgress
    <2>5. session' = session
      BY <2>2 DEF BatchStep
    <2> QED
      BY <2>3, <2>4, <2>5 DEF BatchIsThrough
  <1> QED
    BY <1>1, <1>2, BatchProgressKept, InvHolds, PTL DEF Spec, BatchKeepsOrder
-----------------------------------------------------------------------------
(* The pulse and the slots.                                                  *)

LEMMA LeastNatural ==
    ASSUME NEW S \in SUBSET Nat, S # {}
    PROVE  \E x \in S : \A y \in S : x <= y
  <1> DEFINE R == {p \in Nat \X Nat : p[1] < p[2]}
  <1>1. IsWellFoundedOn(R, Nat)
    BY NatLessThanWellFounded DEF OpToRel
  <1>2. PICK x \in S : \A y \in S : ~(<<y, x>> \in R)
    <2> HIDE DEF R
    <2> QED
      BY <1>1, WFMin
  <1>3. \A y \in S : ~(y < x)
    BY <1>2
  <1> QED
    BY <1>3

BusyIn(d) == {t \in session : isRunning[t] /\ ~idle[t] /\ isSeed[t] = (d = "up")}

LEMMA BusyIsCounted ==
    ASSUME QInv, NEW d \in Dirs
    PROVE  /\ Active(d) = BusyIn(d) /\ Busy(d) = Cardinality(BusyIn(d))
           /\ IsFiniteSet(BusyIn(d)) /\ Busy(d) \in Nat
  <1>1. Busy(d) = Cardinality(BusyIn(d))
    BY DEF Busy, BusyIn
  <1>2. \A t \in session : isSeed[t] = (d = "up") <=> Direction(t) = d
    BY DEF QInv, QTypeOK, Dirs, Direction
  <1>3. Active(d) = BusyIn(d)
    BY <1>2 DEF Active, BusyIn, IsStalled
  <1>4. IsFiniteSet(session) /\ BusyIn(d) \subseteq session
    BY DEF QInv, Numbered, BusyIn
  <1>5. IsFiniteSet(BusyIn(d))
    BY <1>4, FS_Subset
  <1> QED
    BY <1>1, <1>3, <1>5, FS_CardinalityType

(* The slots are what the busy torrents leave of the size of the queue.      *)
LEMMA SlotsAreCounted ==
    ASSUME QInv, NEW d \in Dirs, NEW stopped
    PROVE  LET n == Cardinality(BusyIn(d) \ stopped)
           IN  /\ n \in Nat /\ n <= Busy(d)
               /\ FreeSlots(d, stopped) \in Nat
               /\ queueEnabled[d] =>
                     FreeSlots(d, stopped) = IF queueSize[d] > n THEN queueSize[d] - n ELSE 0
  <1>1. /\ BusyIn(d) \ stopped \subseteq BusyIn(d) /\ IsFiniteSet(BusyIn(d))
        /\ Busy(d) = Cardinality(BusyIn(d)) /\ Active(d) = BusyIn(d)
    BY BusyIsCounted
  <1>2. /\ Cardinality(BusyIn(d) \ stopped) \in Nat
        /\ Cardinality(BusyIn(d) \ stopped) <= Busy(d)
    BY <1>1, FS_Subset, FS_CardinalityType
  <1>3. torrentCount \in Nat /\ queueSize[d] \in Nat
    BY DEF QInv, QTypeOK
  <1>4. PICK m \in Int : m = queueSize[d] - Cardinality(BusyIn(d) \ stopped)
    BY <1>2, <1>3
  <1>5. Max({0, m}) = IF m > 0 THEN m ELSE 0
    <2>1. Max({0, m}) = IF 0 > m THEN 0 ELSE m
      BY MaxOfTwo
    <2> QED
      BY <2>1
  <1> QED
    BY <1>1, <1>2, <1>3, <1>4, <1>5 DEF FreeSlots

(* No more torrents are picked for a direction than it has free slots: all   *)
(* the others that are picked stand ahead of the last one.                   *)
LEMMA NoMoreThanSlots ==
    ASSUME QInv, NEW d \in Dirs, NEW stopped
    PROVE  /\ IsFiniteSet(NextQueued(d, stopped))
           /\ Cardinality(NextQueued(d, stopped)) <= FreeSlots(d, stopped)
  <1> DEFINE N == NextQueued(d, stopped)
             S == Waiting(d) \ stopped
             n == FreeSlots(d, stopped)
  <1>1. n \in Nat
    BY SlotsAreCounted
  <1>2. /\ IsFiniteSet(session) /\ session \subseteq Torrents
        /\ torrentCount \in Nat /\ queuePosition \in [Torrents -> Nat]
        /\ \A t \in session : queuePosition[t] \in 0 .. torrentCount - 1
        /\ \A t, u \in session : queuePosition[t] = queuePosition[u] => t = u
    BY DEF QInv, QTypeOK, Numbered, QueueIsSequenced
  <1>3. /\ N \subseteq S /\ S \subseteq session
        /\ \A t \in N : Cardinality(AheadOf(t, S)) < n
    BY DEF NextQueued, Waiting
  <1> HIDE DEF N, S, n
  <1>4. IsFiniteSet(N) /\ IsFiniteSet(S) /\ N \subseteq session
    BY <1>2, <1>3, FS_Subset
  <1>5. CASE N = {}
    BY <1>1, <1>5, FS_EmptySet DEF N, n
  <1>6. CASE N # {}
    <2> DEFINE Behind == {torrentCount - 1 - queuePosition[t] : t \in N}
    <2>1. Behind \in SUBSET Nat /\ Behind # {}
      BY <1>2, <1>4, <1>6
    <2>2. PICK x \in Behind : \A y \in Behind : x <= y
      BY <2>1, LeastNatural
    <2>3. PICK t \in N : x = torrentCount - 1 - queuePosition[t]
      BY <2>2
    <2>4. ASSUME NEW u \in N PROVE queuePosition[u] <= queuePosition[t]
      <3>1. torrentCount - 1 - queuePosition[t] <= torrentCount - 1 - queuePosition[u]
        BY <2>2, <2>3
      <3>2. queuePosition[u] \in Int /\ queuePosition[t] \in Int
        BY <1>2, <1>4
      <3> QED
        BY <1>2, <3>1, <3>2
    <2>5. N \ {t} \subseteq AheadOf(t, S)
      BY <1>2, <1>3, <1>4, <2>4 DEF AheadOf
    <2>6. AheadOf(t, S) \subseteq S
      BY DEF AheadOf
    <2>7. IsFiniteSet(AheadOf(t, S)) /\ Cardinality(N \ {t}) <= Cardinality(AheadOf(t, S))
      BY <1>4, <2>5, <2>6, FS_Subset
    <2>8. Cardinality(N \ {t}) = Cardinality(N) - 1
      BY <1>4, FS_RemoveElement
    <2>9. Cardinality(N) \in Nat /\ Cardinality(AheadOf(t, S)) \in Nat
      BY <1>4, <2>7, FS_CardinalityType
    <2>10. Cardinality(AheadOf(t, S)) < n
      BY <1>3
    <2> QED
      BY <1>1, <1>4, <2>7, <2>8, <2>9, <2>10 DEF N, n
  <1> QED
    BY <1>5, <1>6

(* The pulse, by the torrents it starts.                                     *)
LEMMA PulseStarts ==
    ASSUME QInv, Pulse, NEW stopped, stopped = {t \in session : isStopping[t]},
           NEW t \in session, isRunning'[t]
    PROVE  \/ isRunning[t] /\ t \notin stopped /\ (idle'[t] <=> idle[t])
           \/ ~lost[t] /\ \E d \in Dirs : queueEnabled[d] /\ t \in NextQueued(d, stopped)
  <1>1. t \in Torrents
    BY DEF QInv, QTypeOK
  <1> QED
    BY <1>1 DEF Pulse

LEMMA StartedByPulse ==
    ASSUME QInv, Pulse, NEW stopped, stopped = {t \in session : isStopping[t]},
           NEW d \in Dirs, queueEnabled[d], NEW t \in NextQueued(d, stopped), ~lost[t]
    PROVE  isRunning'[t]
  <1>1. t \in Torrents
    BY DEF QInv, QTypeOK, NextQueued, Waiting
  <1> QED
    BY <1>1 DEF Pulse

(* The pulse starts the torrents of a queue in the order of their positions: *)
(* those ahead of one that is started have fewer ahead of them, so they are  *)
(* picked with it.                                                           *)
THEOREM NoOvertakingHolds == Spec => NoOvertaking
  <1> DEFINE InTurn ==
        Pulse => \A t, u \in session :
           /\ isQueued[t] /\ isRunning'[t] /\ ~isRunning[t]
           /\ isQueued[u] /\ isSeed[u] = isSeed[t] /\ queuePosition[u] < queuePosition[t]
           => isRunning'[u] \/ isStopping[u] \/ lost[u]
  <1>1. QInv => InTurn
    <2> SUFFICES ASSUME QInv, Pulse, NEW t \in session, NEW u \in session,
                        isQueued[t], isRunning'[t], ~isRunning[t],
                        isQueued[u], isSeed[u] = isSeed[t],
                        queuePosition[u] < queuePosition[t],
                        ~isStopping[u], ~lost[u]
                 PROVE  isRunning'[u]
      OBVIOUS
    <2>1. PICK stopped : stopped = {v \in session : isStopping[v]}
      OBVIOUS
    <2>2. PICK d \in Dirs : queueEnabled[d] /\ t \in NextQueued(d, stopped)
      BY <2>1, PulseStarts
    <2> DEFINE S == Waiting(d) \ stopped
    <2>3. /\ t \in S /\ Direction(t) = d
          /\ Cardinality(AheadOf(t, S)) < FreeSlots(d, stopped)
      BY <2>2 DEF NextQueued, Waiting
    <2>4. u \in S
      BY <2>1, <2>3 DEF Waiting, Direction
    <2>5. /\ IsFiniteSet(session) /\ session \subseteq Torrents /\ S \subseteq session
          /\ queuePosition \in [Torrents -> Nat]
      BY DEF QInv, QTypeOK, Numbered, Waiting
    <2>6. \A v \in S : queuePosition[v] \in Nat
      BY <2>5
    <2> HIDE DEF S
    <2>7. AheadOf(u, S) \subseteq AheadOf(t, S) /\ AheadOf(t, S) \subseteq S
      BY <2>3, <2>4, <2>6 DEF AheadOf
    <2>8. IsFiniteSet(S) /\ IsFiniteSet(AheadOf(t, S)) /\ IsFiniteSet(AheadOf(u, S))
      BY <2>5, <2>7, FS_Subset
    <2>9. Cardinality(AheadOf(u, S)) <= Cardinality(AheadOf(t, S))
      BY <2>7, <2>8, FS_Subset
    <2>10. /\ Cardinality(AheadOf(u, S)) \in Nat /\ Cardinality(AheadOf(t, S)) \in Nat
           /\ FreeSlots(d, stopped) \in Nat
      BY <2>8, FS_CardinalityType, SlotsAreCounted
    <2>11. Cardinality(AheadOf(u, S)) < FreeSlots(d, stopped)
      BY <2>3, <2>9, <2>10
    <2>12. u \in NextQueued(d, stopped)
      BY <2>4, <2>11 DEF NextQueued, S
    <2> QED
      BY <2>1, <2>2, <2>12, StartedByPulse
  <1>2. QInv => [InTurn]_vars
    BY <1>1
  <1> QED
    BY <1>2, InvHolds, PTL DEF NoOvertaking

LEMMA BusyIsAtMost ==
    ASSUME NEW d \in Dirs, NEW S, IsFiniteSet(S), BusyIn(d)' \subseteq S
    PROVE  Busy(d)' \in Nat /\ Busy(d)' <= Cardinality(S) /\ Cardinality(S) \in Nat
  <1>1. Busy(d)' = Cardinality(BusyIn(d)')
    BY DEF Busy, BusyIn
  <1>2. PICK B : B = BusyIn(d)'
    OBVIOUS
  <1>3. IsFiniteSet(B) /\ Cardinality(B) <= Cardinality(S)
    BY <1>2, FS_Subset
  <1> QED
    BY <1>1, <1>2, <1>3, FS_CardinalityType

LEMMA BusyNext ==
    ASSUME NEW d \in Dirs, NEW t, t \in BusyIn(d)'
    PROVE  t \in session' /\ isRunning'[t] /\ ~idle'[t] /\ isSeed'[t] = (d = "up")
  BY DEF BusyIn

(* The pulse starts at most as many torrents as it has counted free slots,   *)
(* and the count leaves out exactly the torrents that it stops.              *)
LEMMA PulseFits ==
    ASSUME QInv, Pulse, NEW d \in Dirs, queueEnabled[d], Busy(d)' > Busy(d)
    PROVE  Busy(d)' <= queueSize[d]
  <1>1. PICK stopped : stopped = {t \in session : isStopping[t]}
    OBVIOUS
  <1> DEFINE N == NextQueued(d, stopped)
             B == BusyIn(d) \ stopped
  <1>2. BusyIn(d)' \subseteq N \cup B
    <2> SUFFICES ASSUME NEW t, t \in BusyIn(d)', t \notin N PROVE t \in B
      OBVIOUS
    <2>1. t \in session /\ isRunning'[t] /\ ~idle'[t] /\ isSeed[t] = (d = "up")
      BY BusyNext DEF Pulse, places
    <2>2. \A e \in Dirs : t \in NextQueued(e, stopped) => e = d
      BY <2>1 DEF NextQueued, Waiting, Direction, Dirs
    <2>3. isRunning[t] /\ t \notin stopped /\ (idle'[t] <=> idle[t])
      BY <1>1, <2>1, <2>2, PulseStarts
    <2> QED
      BY <2>1, <2>3 DEF BusyIn
  <1>3. IsFiniteSet(N) /\ Cardinality(N) <= FreeSlots(d, stopped)
    BY NoMoreThanSlots
  <1>4. IsFiniteSet(B)
    BY BusyIsCounted, FS_Subset
  <1> HIDE DEF N
  <1>5. /\ Cardinality(B) \in Nat /\ Cardinality(B) <= Busy(d)
        /\ FreeSlots(d, stopped) = IF queueSize[d] > Cardinality(B) THEN queueSize[d] - Cardinality(B) ELSE 0
    BY SlotsAreCounted
  <1> HIDE DEF B
  <1>6. /\ IsFiniteSet(N \cup B)
        /\ Cardinality(N \cup B) = Cardinality(N) + Cardinality(B) - Cardinality(N \cap B)
    BY <1>3, <1>4, FS_Union
  <1>7. Cardinality(N) \in Nat /\ Cardinality(N \cap B) \in Nat
    <2>1. IsFiniteSet(N \cap B)
      BY <1>3, FS_Subset
    <2> QED
      BY <1>3, <2>1, FS_CardinalityType
  <1>8. Busy(d)' \in Nat /\ Busy(d)' <= Cardinality(N \cup B)
    BY <1>2, <1>6, BusyIsAtMost
  <1>9. Busy(d) \in Nat /\ queueSize[d] \in Nat
    BY BusyIsCounted DEF QInv, QTypeOK
  <1> QED
    BY <1>3, <1>5, <1>6, <1>7, <1>8, <1>9

(* One torrent more is running. *)
LEMMA OneMoreBusy ==
    ASSUME QInv, NEW d \in Dirs, NEW t, BusyIn(d)' \subseteq BusyIn(d) \cup {t}
    PROVE  /\ Busy(d) \in Nat /\ Busy(d)' \in Nat /\ Busy(d)' <= Busy(d) + 1
           /\ t \notin BusyIn(d)' => Busy(d)' <= Busy(d)
  <1>1. IsFiniteSet(BusyIn(d)) /\ Busy(d) = Cardinality(BusyIn(d)) /\ Busy(d) \in Nat
    BY BusyIsCounted
  <1>2. /\ IsFiniteSet(BusyIn(d) \cup {t})
        /\ Cardinality(BusyIn(d) \cup {t}) \in {Busy(d), Busy(d) + 1}
    BY <1>1, FS_AddElement
  <1>3. Busy(d)' \in Nat /\ Busy(d)' <= Busy(d) + 1
    BY <1>1, <1>2, BusyIsAtMost
  <1>4. t \notin BusyIn(d)' => Busy(d)' <= Busy(d)
    <2> SUFFICES ASSUME t \notin BusyIn(d)' PROVE Busy(d)' <= Busy(d)
      OBVIOUS
    <2>1. BusyIn(d)' \subseteq BusyIn(d)
      OBVIOUS
    <2> QED
      BY <1>1, <2>1, BusyIsAtMost
  <1> QED
    BY <1>1, <1>3, <1>4

LEMMA AddFits ==
    ASSUME QInv, NEW t \in Torrents, NEW seed \in BOOLEAN, NEW gone \in BOOLEAN,
           NEW doStart \in BOOLEAN, Add(t, seed, gone, doStart),
           NEW d \in Dirs, queueEnabled[d], Busy(d)' > Busy(d)
    PROVE  Busy(d)' <= queueSize[d]
  <1>1. /\ session' = session \cup {t} /\ t \notin session /\ session \subseteq Torrents
        /\ idle' = idle
        /\ \A u \in session : isRunning'[u] = isRunning[u] /\ isSeed'[u] = isSeed[u]
    BY DEF Add, QInv, QTypeOK
  <1>2. BusyIn(d)' \subseteq BusyIn(d) \cup {t}
    <2> SUFFICES ASSUME NEW u, u \in BusyIn(d)', u # t PROVE u \in BusyIn(d)
      OBVIOUS
    <2>1. u \in session' /\ isRunning'[u] /\ ~idle'[u] /\ isSeed'[u] = (d = "up")
      BY BusyNext
    <2> QED
      BY <1>1, <2>1 DEF BusyIn
  <1>3. /\ Busy(d) \in Nat /\ Busy(d)' \in Nat /\ Busy(d)' <= Busy(d) + 1
        /\ t \notin BusyIn(d)' => Busy(d)' <= Busy(d)
    BY <1>2, OneMoreBusy
  <1>4. t \in BusyIn(d)'
    BY <1>3
  <1>5. isRunning'[t] /\ isSeed'[t] = (d = "up")
    BY <1>4, BusyNext
  <1>6. d = IF seed THEN "up" ELSE "down"
    BY <1>5 DEF Add, QInv, QTypeOK, Dirs
  <1>7. FreeSlots(d, {}) # 0
    BY <1>5, <1>6 DEF Add, QInv, QTypeOK
  <1>8. Busy(d) < queueSize[d] /\ queueSize[d] \in Nat
    <2>1. BusyIn(d) \ {} = BusyIn(d) /\ Busy(d) = Cardinality(BusyIn(d))
      BY BusyIsCounted
    <2>2. PICK none : none = {}
      OBVIOUS
    <2>3. queueSize[d] > Cardinality(BusyIn(d) \ none)
      BY <1>7, <2>2, SlotsAreCounted
    <2> QED
      BY <2>1, <2>2, <2>3 DEF QInv, QTypeOK
  <1> QED
    BY <1>3, <1>8

(* A torrentStart that has found a free slot, and not yet taken it, still    *)
(* finds its queue within its size: the torrentInits in between count too.   *)
StartFits ==
    \A d \in Dirs :
       /\ starting.tor # None /\ ~starting.wait
       /\ Direction(starting.tor) = d /\ queueEnabled[d]
       => Busy(d) <= queueSize[d]

LEMMA StartCheckFits ==
    ASSUME QInv, NEW t \in Torrents, StartCheck(t)
    PROVE  StartFits'
  <1> SUFFICES ASSUME NEW d \in Dirs, ~starting'.wait, Direction(t) = d, queueEnabled[d]
               PROVE  Busy(d) <= queueSize[d]
    <2>1. starting'.tor = t
      BY DEF StartCheck
    <2>2. Direction(t)' = Direction(t) /\ \A d \in Dirs : Busy(d)' = Busy(d)
      BY DEF StartCheck, places, flags, disk, Direction, Busy
    <2>3. queueEnabled' = queueEnabled /\ queueSize' = queueSize
      BY DEF StartCheck, settings
    <2>4. \A d \in Dirs : Direction(starting.tor)' = Direction(t)'
      BY <2>1 DEF Direction
    <2> QED
      BY <2>1, <2>2, <2>3, <2>4 DEF StartFits
  <1>1. FreeSlots(d, {}) # 0
    BY DEF StartCheck
  <1>2. BusyIn(d) \ {} = BusyIn(d) /\ Busy(d) = Cardinality(BusyIn(d)) /\ Busy(d) \in Nat
    BY BusyIsCounted
  <1>3. PICK none : none = {}
    OBVIOUS
  <1>4. queueSize[d] > Cardinality(BusyIn(d) \ none)
    BY <1>1, <1>3, SlotsAreCounted
  <1> QED
    BY <1>2, <1>3, <1>4 DEF QInv, QTypeOK

(* Steps that leave the busy torrents, the start and the settings alone. *)
LEMMA StartFitsStays ==
    ASSUME StartFits, starting' = starting, isRunning' = isRunning, idle' = idle,
           isSeed' = isSeed, session' = session, settings' = settings
    PROVE  StartFits'
  <1>1. \A d \in Dirs : Busy(d)' = Busy(d)
    BY DEF Busy
  <1>2. Direction(starting.tor)' = Direction(starting.tor)
    BY DEF Direction
  <1> QED
    BY <1>1, <1>2 DEF StartFits, settings

(* The torrent of a start is in the session, so a torrentInit adds another. *)
LEMMA AddKeepsStartFits ==
    ASSUME QInv, StartFits, NEW t \in Torrents, NEW seed \in BOOLEAN, NEW gone \in BOOLEAN,
           NEW doStart \in BOOLEAN, Add(t, seed, gone, doStart)
    PROVE  StartFits'
  <1>1. starting' = starting /\ queueEnabled' = queueEnabled /\ queueSize' = queueSize
    BY DEF Add, settings
  <1> SUFFICES ASSUME NEW d \in Dirs, starting.tor # None, ~starting.wait,
                      Direction(starting.tor)' = d, queueEnabled[d]
               PROVE  Busy(d)' <= queueSize[d]
    BY <1>1 DEF StartFits
  <1>2. starting.tor \in session /\ starting.tor # t
    BY DEF QInv, QTypeOK, Add
  <1>3. Direction(starting.tor) = d
    BY <1>1, <1>2 DEF Direction, Add, QInv, QTypeOK
  <1>4. Busy(d) <= queueSize[d]
    BY <1>3 DEF StartFits
  <1>5. Busy(d) \in Nat /\ Busy(d)' \in Nat
    <2>1. session' = session \cup {t} /\ IsFiniteSet(session)
      BY DEF Add, QInv, Numbered
    <2>2. IsFiniteSet(session \cup {t}) /\ BusyIn(d)' \subseteq session \cup {t}
      BY <2>1, FS_AddElement, BusyNext
    <2> QED
      BY <2>2, BusyIsAtMost, BusyIsCounted
  <1>6. CASE Busy(d)' > Busy(d)
    BY <1>6, AddFits
  <1>7. CASE ~(Busy(d)' > Busy(d))
    BY <1>4, <1>5, <1>7 DEF QInv, QTypeOK
  <1> QED
    BY <1>6, <1>7

(* Without a start there is nothing to say of it, and most handlers of the   *)
(* event thread run only then.                                               *)
LEMMA NoStartFits ==
    ASSUME starting' = NoStart
    PROVE  StartFits'
  BY DEF StartFits, NoStart

LEMMA StartFitsKept == QInv /\ StartFits /\ [Next]_vars => StartFits'
  <1> SUFFICES ASSUME QInv, StartFits, [Next]_vars PROVE StartFits'
    OBVIOUS
  <1>1. ASSUME EventLoop, starting' = starting PROVE StartFits'
    BY <1>1, NoStartFits DEF EventLoop
  <1>2. ASSUME NEW t \in Torrents, NEW seed \in BOOLEAN, NEW gone \in BOOLEAN,
               NEW doStart \in BOOLEAN, Add(t, seed, gone, doStart)
        PROVE  StartFits'
    BY <1>2, AddKeepsStartFits
  <1>3. ASSUME NEW t \in Torrents, StartCheck(t) PROVE StartFits'
    BY <1>3, StartCheckFits
  <1>4. ASSUME NEW t \in Torrents,
               \/ Remove(t) \/ StartNow(t) \/ AskStop(t) \/ Traffic(t)
               \/ \E where \in Positions : PlaceAt(t, where)
               \/ \E full \in BOOLEAN : Flip(t, full)
        PROVE  StartFits'
    BY <1>1, <1>4 DEF Remove, StartNow, AskStop, Traffic, PlaceAt, Flip
  <1>5. ASSUME NEW t \in Torrents, Disk(t) PROVE StartFits'
    BY <1>5, StartFitsStays DEF Disk, places, flags
  <1>6. CASE StartFinish
    BY <1>6, NoStartFits DEF StartFinish
  <1>7. CASE Pulse
    BY <1>1, <1>7 DEF Pulse
  <1>8. CASE \E move \in Moves, S \in Batches : BatchBegin(move, S)
    BY <1>1, <1>8 DEF BatchBegin
  <1>9. CASE BatchStep
    BY <1>9, StartFitsStays DEF BatchStep, flags, disk
  <1>10. CASE \/ \E d \in Dirs : \E n \in Sizes[d] : SetQueueSize(d, n)
              \/ \E d \in Switched, on \in BOOLEAN : SetQueueEnabled(d, on)
    BY <1>1, <1>10 DEF SetQueueSize, SetQueueEnabled
  <1>11. CASE UNCHANGED vars
    BY <1>11, StartFitsStays DEF vars, places, flags, disk
  <1> QED
    BY <1>2, <1>3, <1>4, <1>5, <1>6, <1>7, <1>8, <1>9, <1>10, <1>11 DEF Next

(* Removing a torrent can only free a slot. *)
LEMMA RemoveFrees ==
    ASSUME QInv, NEW t \in Torrents, Remove(t), NEW d \in Dirs
    PROVE  Busy(d)' <= Busy(d)
  <1>1. BusyIn(d)' \subseteq BusyIn(d)
    <2> SUFFICES ASSUME NEW u, u \in BusyIn(d)' PROVE u \in BusyIn(d)
      OBVIOUS
    <2>1. u \in session' /\ isRunning'[u] /\ ~idle'[u] /\ isSeed'[u] = (d = "up")
      BY BusyNext
    <2>2. u \in session /\ u # t
      BY <2>1 DEF Remove
    <2>3. isRunning'[u] = isRunning[u] /\ idle'[u] = idle[u] /\ isSeed'[u] = isSeed[u]
      BY <2>2 DEF Remove, QInv, QTypeOK
    <2> QED
      BY <2>1, <2>2, <2>3 DEF BusyIn
  <1> QED
    BY <1>1, BusyIsCounted, BusyIsAtMost

(* The end of a torrentStart takes a slot only if one was free when it was   *)
(* counted; by then the queue was within its size, which leaves one more.    *)
LEMMA StartFinishFits ==
    ASSUME QInv, StartFits, StartFinish, NEW d \in Dirs, queueEnabled[d], Busy(d)' > Busy(d)
    PROVE  Busy(d)' <= queueSize[d] + 1
  <1> DEFINE t == starting.tor
  <1>1. t # None /\ t \in session /\ session' = session /\ isSeed' = isSeed
    BY DEF StartFinish, places, QInv, QTypeOK
  <1>2. BusyIn(d)' \subseteq BusyIn(d) \cup {t}
    <2> SUFFICES ASSUME NEW u, u \in BusyIn(d)', u # t PROVE u \in BusyIn(d)
      OBVIOUS
    <2>1. u \in session' /\ isRunning'[u] /\ ~idle'[u] /\ isSeed'[u] = (d = "up")
      BY BusyNext
    <2>2. u \in Torrents
      BY <1>1, <2>1 DEF QInv, QTypeOK
    <2>3. isRunning'[u] = isRunning[u] /\ idle'[u] = idle[u]
      BY <2>2 DEF StartFinish, QInv, QTypeOK
    <2> QED
      BY <1>1, <2>1, <2>3 DEF BusyIn
  <1>3. /\ Busy(d) \in Nat /\ Busy(d)' \in Nat /\ Busy(d)' <= Busy(d) + 1
        /\ t \notin BusyIn(d)' => Busy(d)' <= Busy(d)
    BY <1>2, OneMoreBusy
  <1>4. t \in BusyIn(d)'
    BY <1>3
  <1>5. isRunning'[t] /\ isSeed[t] = (d = "up")
    BY <1>1, <1>4, BusyNext
  <1>6. ~starting.wait /\ Direction(t) = d
    BY <1>1, <1>5 DEF StartFinish, Direction, QInv, QTypeOK, Dirs
  <1>7. Busy(d) <= queueSize[d] /\ queueSize[d] \in Nat
    BY <1>1, <1>6 DEF StartFits, QInv, QTypeOK
  <1> QED
    BY <1>3, <1>7

(* Only torrentInit and closeTorrent change which torrents there are. *)
LEMMA SessionChanges ==
    ASSUME Next, session' # session
    PROVE  \E t \in Torrents :
              Remove(t) \/ \E seed, gone, doStart \in BOOLEAN : Add(t, seed, gone, doStart)
  BY DEF Next, StartCheck, StartNow, AskStop, PlaceAt, Flip, Traffic, Disk, StartFinish,
         Pulse, BatchBegin, BatchStep, SetQueueSize, SetQueueEnabled, places

(* No start that heeds the queue takes more torrents than the queue has      *)
(* slots, however the user moves, stops and adds torrents; the one that a    *)
(* torrentInit overtakes takes one too many at most, never two, although     *)
(* any number of torrentInits may come in between.                           *)
THEOREM SlotsRespectedHolds == Spec => SlotsRespected
  <1> DEFINE Respected ==
        \A d \in Dirs : queueEnabled[d] /\ Busy(d)' > Busy(d) =>
           /\ Pulse \/ session' # session => Busy(d)' <= queueSize[d]
           /\ StartFinish => Busy(d)' <= queueSize[d] + 1
  <1>1. Init => StartFits
    BY DEF Init, StartFits, NoStart
  <1>2. QInv /\ StartFits /\ [Next]_vars => Respected \/ UNCHANGED vars
    <2> SUFFICES ASSUME QInv, StartFits, Next, NEW d \in Dirs,
                        queueEnabled[d], Busy(d)' > Busy(d)
                 PROVE  /\ Pulse \/ session' # session => Busy(d)' <= queueSize[d]
                        /\ StartFinish => Busy(d)' <= queueSize[d] + 1
      OBVIOUS
    <2>1. ASSUME Pulse PROVE Busy(d)' <= queueSize[d]
      BY <2>1, PulseFits
    <2>2. ASSUME session' # session PROVE Busy(d)' <= queueSize[d]
      <3>1. PICK t \in Torrents :
               Remove(t) \/ \E seed, gone, doStart \in BOOLEAN : Add(t, seed, gone, doStart)
        BY <2>2, SessionChanges
      <3>2. ~Remove(t)
        <4> SUFFICES ASSUME Remove(t) PROVE FALSE
          OBVIOUS
        <4>1. /\ Busy(d)' <= Busy(d) /\ Busy(d) \in Nat
          BY RemoveFrees, BusyIsCounted
        <4>2. Busy(d)' \in Nat
          <5>1. BusyIn(d)' \subseteq session /\ IsFiniteSet(session)
            BY BusyNext DEF Remove, QInv, Numbered
          <5> QED
            BY <5>1, BusyIsAtMost
        <4> QED
          BY <4>1, <4>2
      <3> QED
        BY <3>1, <3>2, AddFits
    <2>3. ASSUME StartFinish PROVE Busy(d)' <= queueSize[d] + 1
      BY <2>3, StartFinishFits
    <2> QED
      BY <2>1, <2>2, <2>3
  <1> QED
    BY InvHolds, StartFitsKept, <1>1, <1>2, PTL DEF Spec, SlotsRespected

-----------------------------------------------------------------------------
(* What WaitingIsServed rests on.                                            *)

(* Whom the pulse finds due, it starts: nothing that it stops or starts in   *)
(* the same breath takes the slot away.  Since the pulse comes again and     *)
(* again, only the torrent's turn being over can keep it waiting.            *)
DueAreStarted ==
    [][Pulse => \A t \in Torrents : Due(t) => isRunning'[t] /\ ~isQueued'[t]]_vars

(* From the count of the slots and the order of those ahead.                 *)
THEOREM DueAreStartedHolds == Spec => DueAreStarted
  <1> DEFINE Served == Pulse => \A t \in Torrents : Due(t) => isRunning'[t] /\ ~isQueued'[t]
  <1>1. QInv => Served
    <2> SUFFICES ASSUME QInv, Pulse, NEW t \in Torrents, Due(t)
                 PROVE  isRunning'[t] /\ ~isQueued'[t]
      OBVIOUS
    <2>1. PICK stopped : stopped = {v \in session : isStopping[v]}
      OBVIOUS
    <2>2. PICK d \in Dirs : d = Direction(t)
      BY DEF Direction, Dirs
    <2> DEFINE W == Waiting(d)
               S == W \ stopped
    <2>3. /\ t \in session /\ isQueued[t] /\ ~isStopping[t] /\ ~lost[t] /\ queueEnabled[d]
          /\ Cardinality(AheadOf(t, W)) < queueSize[d] - Busy(d)
      BY <2>2 DEF Due
    <2>4. t \in S
      BY <2>1, <2>2, <2>3 DEF Waiting
    <2>5. IsFiniteSet(W)
      <3>1. IsFiniteSet(session) /\ W \subseteq session
        BY DEF QInv, Numbered, Waiting
      <3> QED
        BY <3>1, FS_Subset
    <2> HIDE DEF W
    <2>6. AheadOf(t, S) \subseteq AheadOf(t, W) /\ AheadOf(t, W) \subseteq W
      BY DEF AheadOf
    <2>7. /\ IsFiniteSet(AheadOf(t, W)) /\ IsFiniteSet(AheadOf(t, S))
          /\ Cardinality(AheadOf(t, S)) <= Cardinality(AheadOf(t, W))
      BY <2>5, <2>6, FS_Subset
    <2>8. Cardinality(AheadOf(t, S)) \in Nat /\ Cardinality(AheadOf(t, W)) \in Nat
      BY <2>7, FS_CardinalityType
    <2> DEFINE n == Cardinality(BusyIn(d) \ stopped)
    <2>9. /\ n \in Nat /\ n <= Busy(d)
          /\ FreeSlots(d, stopped) = IF queueSize[d] > n THEN queueSize[d] - n ELSE 0
      BY <2>3, SlotsAreCounted
    <2>10. Busy(d) \in Nat /\ queueSize[d] \in Nat
      BY BusyIsCounted DEF QInv, QTypeOK
    <2> HIDE DEF n
    <2>11. Cardinality(AheadOf(t, S)) < FreeSlots(d, stopped)
      BY <2>3, <2>7, <2>8, <2>9, <2>10
    <2>12. t \in NextQueued(d, stopped)
      BY <2>4, <2>11 DEF NextQueued, W
    <2> QED
      BY <2>1, <2>3, <2>12 DEF Pulse
  <1>2. QInv => [Served]_vars
    BY <1>1
  <1> QED
    BY <1>2, InvHolds, PTL DEF DueAreStarted
=============================================================================
