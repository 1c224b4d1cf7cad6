------------------------- MODULE PeerRequestsProofs -------------------------
(***************************************************************************)
(* The safety properties of module PeerRequests, for any finite torrent,   *)
(* any peers and any webseeds.                                             *)
(*                                                                         *)
(* Whatever happens to the request list is one of two things: requests are *)
(* removed from it (Remove, BlockFrom), or blocks that may be asked for    *)
(* are added for one peer (Request).  One lemma for each says that the two *)
(* tables still agree; the actions only add what a peer is to be asked.    *)
(***************************************************************************)
EXTENDS PeerRequests, FiniteSetTheorems, TLAPS

Asked == Blocks \X Askers
In(p, R) == {r \in R : PieceOf[r[1]] = p}

\* The two tables, with the bound on the requests of a block.
Tables ==
  /\ requests \subseteq Asked
  /\ pending \in [Askers -> Nat]
  /\ count \in [Pieces -> Nat]
  /\ \A q \in Askers : pending[q] = Cardinality(Of(q))
  /\ \A p \in Pieces : count[p] <= Cardinality(In(p, requests))
  /\ \A b \in Blocks : Cardinality(For(b)) <= 2

\* What is asked of a peer is asked of one that is connected, for a block we
\* lack.
Sensible ==
  \A r \in requests : r[2] \in Peers => link[r[2]] # "off" /\ r[1] \notin have

Others ==
  /\ running \in BOOLEAN
  /\ have \subseteq Blocks
  /\ wanted \subseteq Pieces
  /\ link \in [Peers -> {"off", "choked", "open"}]
  /\ tasks \in [Webseeds -> SUBSET SUBSET Blocks]
  /\ listed \subseteq Pieces
  /\ endgame \in Nat
  /\ lost \in BOOLEAN
  /\ mishaps \in 0 .. MaxMishaps

\* The inductive invariant: no peer is connected to a torrent that is stopped.
RInv ==
  /\ Tables
  /\ Sensible
  /\ Others
  /\ ~running => \A p \in Peers : link[p] = "off"

-----------------------------------------------------------------------------
(* Finite sets.                                                            *)

LEMMA AskedIsFinite ==
  /\ IsFiniteSet(Asked)
  /\ \A R \in SUBSET Asked : IsFiniteSet(R) /\ Cardinality(R) \in Nat
<1>1. IsFiniteSet(Askers)
  BY PeerRequestsAssumption, FS_Union DEF Askers
<1>2. IsFiniteSet(Asked)
  BY <1>1, PeerRequestsAssumption, FS_Product DEF Asked
<1> QED
  BY <1>2, FS_Subset, FS_CardinalityType

LEMMA BlocksAreFinite ==
  \A S \in SUBSET Blocks : IsFiniteSet(S) /\ Cardinality(S) \in Nat
BY PeerRequestsAssumption, FS_Subset, FS_CardinalityType

LEMMA LessType == \A n, d \in Nat : Less(n, d) \in Nat /\ Less(n, d) >= n - d
BY DEF Less

\* Taking R away from X.
LEMMA TakenAway ==
  ASSUME NEW X \in SUBSET Asked, NEW R \in SUBSET Asked
  PROVE  /\ Cardinality(X \ R) = Less(Cardinality(X), Cardinality(X \cap R))
         /\ Less(Cardinality(X), Cardinality(R)) <= Cardinality(X \ R)
         /\ Cardinality(X \ R) <= Cardinality(X)
<1>1. /\ IsFiniteSet(X) /\ IsFiniteSet(R) /\ X \cap R \in SUBSET R /\ X \cap R \in SUBSET X
      /\ X \ R \in SUBSET X
      /\ Cardinality(X) \in Nat /\ Cardinality(R) \in Nat
      /\ Cardinality(X \cap R) \in Nat /\ Cardinality(X \ R) \in Nat
  BY AskedIsFinite
<1>2. Cardinality(X \ R) = Cardinality(X) - Cardinality(X \cap R)
  BY <1>1, FS_Difference
<1>3. Cardinality(X \cap R) <= Cardinality(R)
  BY <1>1, FS_Subset
<1>4. Cardinality(X \ R) <= Cardinality(X)
  BY <1>1, FS_Subset
<1> QED
  BY <1>1, <1>2, <1>3, <1>4 DEF Less

\* The blocks S, asked of q, are as many requests.
LEMMA AskedOfOne ==
  ASSUME NEW q \in Askers, NEW S \in SUBSET Blocks
  PROVE  /\ S \X {q} \in SUBSET Asked
         /\ Cardinality(S \X {q}) = Cardinality(S)
<1>1. IsFiniteSet(S) /\ Cardinality(S) \in Nat
  BY BlocksAreFinite
<1>2. IsFiniteSet({q}) /\ Cardinality({q}) = 1
  BY FS_Singleton
<1>3. Cardinality(S \X {q}) = Cardinality(S) * 1
  BY <1>1, <1>2, FS_Product
<1> QED
  BY <1>1, <1>3 DEF Asked

LEMMA JoinedDisjoint ==
  ASSUME NEW X \in SUBSET Asked, NEW Y \in SUBSET Asked, X \cap Y = {}
  PROVE  Cardinality(X \cup Y) = Cardinality(X) + Cardinality(Y)
<1>1. /\ IsFiniteSet(X) /\ IsFiniteSet(Y)
      /\ Cardinality(X) \in Nat /\ Cardinality(Y) \in Nat
  BY AskedIsFinite
<1>2. Cardinality(X \cup Y) = Cardinality(X) + Cardinality(Y) - Cardinality(X \cap Y)
  BY <1>1, FS_Union
<1>3. Cardinality(X \cap Y) = 0
  BY FS_EmptySet
<1> QED
  BY <1>1, <1>2, <1>3

-----------------------------------------------------------------------------
(* The two ways in which the request list changes.                         *)

\* Requests go, and no piece counts more of what is left.
LEMMA RemovingKeepsTables ==
  ASSUME Tables, NEW R \in SUBSET Asked,
         requests' = requests \ R,
         pending' = [q \in Askers |-> Less(pending[q], Cardinality(R \cap Of(q)))],
         count' \in [Pieces -> Nat],
         \A p \in Pieces : count'[p] <= Less(count[p], Cardinality(In(p, R)))
  PROVE  Tables'
<1>1. requests' \subseteq Asked
  BY DEF Tables
<1>2. ASSUME NEW q \in Askers
      PROVE  pending'[q] = Cardinality(Of(q)') /\ pending'[q] \in Nat
  <2>1. Of(q) \in SUBSET Asked /\ Of(q)' = Of(q) \ R /\ Of(q)' \in SUBSET Asked
    BY DEF Tables, Of
  <2>2. pending'[q] = Less(Cardinality(Of(q)), Cardinality(Of(q) \cap R))
    <3>1. R \cap Of(q) = Of(q) \cap R
      OBVIOUS
    <3> QED
      BY <3>1 DEF Tables
  <2>3. Cardinality(Of(q)') = Less(Cardinality(Of(q)), Cardinality(Of(q) \cap R))
    BY <2>1, TakenAway
  <2>4. Cardinality(Of(q)') \in Nat
    BY <2>1, AskedIsFinite
  <2> QED
    BY <2>2, <2>3, <2>4
<1>3. pending' \in [Askers -> Nat]
  BY <1>2
<1>4. ASSUME NEW p \in Pieces
      PROVE  count'[p] <= Cardinality(In(p, requests)')
  <2>1. /\ In(p, requests) \in SUBSET Asked /\ In(p, R) \in SUBSET Asked
        /\ In(p, requests)' = In(p, requests) \ In(p, R)
        /\ In(p, requests)' \in SUBSET Asked
    BY DEF Tables, In
  <2>2. /\ Cardinality(In(p, requests)) \in Nat /\ Cardinality(In(p, R)) \in Nat
        /\ Cardinality(In(p, requests)') \in Nat
    BY <2>1, AskedIsFinite
  <2>3. Less(Cardinality(In(p, requests)), Cardinality(In(p, R))) <= Cardinality(In(p, requests)')
    BY <2>1, TakenAway
  <2>4. /\ count[p] \in Nat /\ count[p] <= Cardinality(In(p, requests))
        /\ count'[p] \in Nat /\ count'[p] <= Less(count[p], Cardinality(In(p, R)))
    BY DEF Tables
  <2> QED
    BY <2>2, <2>3, <2>4 DEF Less
<1>5. ASSUME NEW b \in Blocks
      PROVE  Cardinality(For(b)') <= 2
  <2>1. For(b) \in SUBSET Asked /\ For(b)' = For(b) \ R /\ For(b)' \in SUBSET Asked
    BY DEF Tables, For
  <2>2. Cardinality(For(b)') <= Cardinality(For(b))
    BY <2>1, TakenAway
  <2>3. Cardinality(For(b)') \in Nat /\ Cardinality(For(b)) \in Nat /\ Cardinality(For(b)) <= 2
    BY <2>1, AskedIsFinite DEF Tables
  <2> QED
    BY <2>2, <2>3
<1> QED
  BY <1>1, <1>2, <1>3, <1>4, <1>5 DEF Tables

\* The count after pieceListRemoveRequest.
LEMMA UncountType ==
  ASSUME Tables, NEW R \in SUBSET Asked
  PROVE  /\ Uncount(R) \in [Pieces -> Nat]
         /\ \A p \in Pieces : Uncount(R)[p] = Less(count[p], Cardinality(In(p, R)))
<1>1. Uncount(R) = [p \in Pieces |-> Less(count[p], Cardinality(In(p, R)))]
  BY DEF Uncount, In
<1>2. \A p \in Pieces : In(p, R) \in SUBSET Asked
  BY DEF In
<1>3. \A p \in Pieces : count[p] \in Nat /\ Cardinality(In(p, R)) \in Nat
  BY <1>2, AskedIsFinite DEF Tables
<1>4. \A p \in Pieces : Less(count[p], Cardinality(In(p, R))) \in Nat
  BY <1>3, LessType
<1> QED
  BY <1>1, <1>4

LEMMA RemoveKeepsTables ==
  ASSUME Tables, NEW R \in SUBSET Asked, Remove(R)
  PROVE  Tables' /\ requests' = requests \ R
<1>1. /\ count' \in [Pieces -> Nat]
      /\ \A p \in Pieces : count'[p] = Less(count[p], Cardinality(In(p, R)))
  BY UncountType DEF Remove
<1>2. \A p \in Pieces : count'[p] <= Less(count[p], Cardinality(In(p, R)))
  BY <1>1
<1> QED
  BY <1>1, <1>2, RemovingKeepsTables DEF Remove

\* A block arrives, and its piece may be complete, or fail its check.
LEMMA BlockFromKeepsTables ==
  ASSUME Tables, Others, NEW q \in Askers, NEW b \in Blocks, BlockFrom(q, b)
  PROVE  /\ Tables' /\ requests' = requests \ For(b)
         /\ have' \subseteq have \cup {b}
         /\ listed' \subseteq Pieces /\ mishaps' \in 0 .. MaxMishaps
<1>1. For(b) \in SUBSET Asked
  BY DEF Tables, For
<1>2. /\ Uncount(For(b)) \in [Pieces -> Nat]
      /\ \A p \in Pieces : Uncount(For(b))[p] = Less(count[p], Cardinality(In(p, For(b))))
  BY <1>1, UncountType
<1>3. PieceOf[b] \in Pieces
  BY PeerRequestsAssumption
<1>4. \/ count' = Uncount(For(b))
      \/ count' = [Uncount(For(b)) EXCEPT ![PieceOf[b]] = 0]
  BY DEF BlockFrom, GotBlock
<1>5. /\ count' \in [Pieces -> Nat]
      /\ \A p \in Pieces : count'[p] <= Less(count[p], Cardinality(In(p, For(b))))
  <2>1. \A p \in Pieces : Uncount(For(b))[p] \in Nat
    BY <1>2
  <2>2. /\ count' \in [Pieces -> Nat]
        /\ \A p \in Pieces : count'[p] <= Uncount(For(b))[p]
    BY <1>2, <1>3, <1>4, <2>1
  <2> QED
    BY <1>2, <2>2
<1>6. Tables'
  BY <1>1, <1>5, RemovingKeepsTables DEF BlockFrom
<1>7. /\ have' \subseteq have \cup {b} /\ listed' \subseteq Pieces
      /\ mishaps' \in 0 .. MaxMishaps
  BY PeerRequestsAssumption DEF BlockFrom, GotBlock, Others, Mishap
<1> QED
  BY <1>6, <1>7 DEF BlockFrom

LEMMA NextEndgameType ==
  ASSUME Tables, Others
  PROVE  NextEndgame \in Nat
<1>1. Cardinality(requests) \in Nat
  BY AskedIsFinite DEF Tables
<1>2. IsFiniteSet(Askers)
  BY PeerRequestsAssumption, FS_Union DEF Askers
<1>3. IsFiniteSet(Downloading) /\ Cardinality(Downloading) \in Nat
  BY <1>2, FS_Subset, FS_CardinalityType DEF Downloading, Askers
<1>4. Downloading # {} => Cardinality(Downloading) # 0
  BY <1>3, FS_EmptySet
<1> DEFINE d == IF Downloading = {} THEN 1 ELSE Cardinality(Downloading)
<1>5. d \in Nat \ {0}
  BY <1>3, <1>4
<1> HIDE DEF d
<1>6. \A n \in Nat : n \div d \in Nat
  BY <1>5
<1>7. Cardinality(requests) \div d \in Nat /\ endgame \in Nat
  BY <1>1, <1>6 DEF Others
<1> QED
  BY <1>7 DEF NextEndgame, d

\* What may be asked for is asked for.
LEMMA RequestKeepsTables ==
  ASSUME Tables, Others, NEW q \in Askers, NEW S \in SUBSET Blocks, Request(q, S),
         \A b \in S : \/ For(b) = {}
                      \/ Cardinality(For(b)) = 1 /\ <<b, q>> \notin requests
  PROVE  /\ Tables' /\ requests' = requests \cup (S \X {q})
         /\ listed' \subseteq Pieces /\ endgame' \in Nat
<1>1. requests' = requests \cup (S \X {q})
  BY DEF Request
<1>2. Cardinality(S) \in Nat
  BY BlocksAreFinite
<1>3. ASSUME NEW b \in S
      PROVE  <<b, q>> \notin requests
  <2>1. <<b, q>> \in requests => <<b, q>> \in For(b)
    BY DEF For
  <2> QED
    BY <2>1
<1>4. requests' \subseteq Asked
  BY <1>1 DEF Tables, Asked
<1>5. ASSUME NEW x \in Askers
      PROVE  pending'[x] = Cardinality(Of(x)') /\ pending'[x] \in Nat
  <2>1. pending' = [pending EXCEPT ![q] = @ + Cardinality(S)]
    BY DEF Request
  <2>2. Of(x) \in SUBSET Asked /\ pending[x] = Cardinality(Of(x)) /\ pending[x] \in Nat
    BY DEF Tables, Of
  <2>3. CASE x = q
    <3>1. Of(x)' = Of(x) \cup (S \X {q})
      BY <1>1, <2>3 DEF Of
    <3>2. Of(x) \cap (S \X {q}) = {}
      BY <1>3, <2>3 DEF Of
    <3>3. S \X {q} \in SUBSET Asked /\ Cardinality(S \X {q}) = Cardinality(S)
      BY AskedOfOne
    <3>4. Cardinality(Of(x)') = Cardinality(Of(x)) + Cardinality(S)
      BY <2>2, <3>1, <3>2, <3>3, JoinedDisjoint
    <3>5. pending'[x] = pending[x] + Cardinality(S)
      BY <2>1, <2>3 DEF Tables
    <3> QED
      BY <1>2, <2>2, <3>4, <3>5
  <2>4. CASE x # q
    <3>1. Of(x)' = Of(x)
      BY <1>1, <2>4 DEF Of
    <3>2. pending'[x] = pending[x]
      BY <2>1, <2>4 DEF Tables
    <3> QED
      BY <2>2, <3>1, <3>2
  <2> QED
    BY <2>3, <2>4
<1>6. pending' \in [Askers -> Nat]
  BY <1>5 DEF Request, Tables
<1>7. ASSUME NEW p \in Pieces
      PROVE  count'[p] \in Nat /\ count'[p] <= Cardinality(In(p, requests)')
  <2> DEFINE T == S \cap BlocksOf(p)
  <2>1. T \in SUBSET Blocks /\ Cardinality(T) \in Nat
    BY BlocksAreFinite
  <2>2. /\ In(p, requests) \in SUBSET Asked /\ Cardinality(In(p, requests)) \in Nat
        /\ count[p] \in Nat /\ count[p] <= Cardinality(In(p, requests))
    BY AskedIsFinite DEF Tables, In
  <2>3. T \X {q} \in SUBSET Asked /\ Cardinality(T \X {q}) = Cardinality(T)
    BY <2>1, AskedOfOne
  <2>4. In(p, requests)' = In(p, requests) \cup (T \X {q})
    BY <1>1 DEF In, BlocksOf
  <2>5. In(p, requests) \cap (T \X {q}) = {}
    BY <1>3 DEF In
  <2>6. Cardinality(In(p, requests)') = Cardinality(In(p, requests)) + Cardinality(T)
    BY <2>2, <2>3, <2>4, <2>5, JoinedDisjoint
  <2>7. count'[p] = Rebuilt(Walked, p) + Cardinality(T)
    BY DEF Request
  <2>8. Rebuilt(Walked, p) \in Nat /\ Rebuilt(Walked, p) <= Cardinality(In(p, requests))
    BY <2>2 DEF Rebuilt
  <2> HIDE DEF T
  <2> QED
    BY <2>1, <2>2, <2>6, <2>7, <2>8
<1>8. count' \in [Pieces -> Nat]
  BY <1>7 DEF Request
<1>9. ASSUME NEW b \in Blocks
      PROVE  Cardinality(For(b)') <= 2
  <2>1. For(b) \in SUBSET Asked /\ IsFiniteSet(For(b)) /\ Cardinality(For(b)) <= 2
    BY AskedIsFinite DEF Tables, For
  <2>2. CASE b \in S
    <3>1. For(b)' = For(b) \cup {<<b, q>>}
      BY <1>1, <2>2 DEF For
    <3>2. Cardinality(For(b)) \in {0, 1}
      BY <2>2, FS_EmptySet
    <3>3. Cardinality(For(b)') = IF <<b, q>> \in For(b) THEN Cardinality(For(b))
                                 ELSE Cardinality(For(b)) + 1
      BY <2>1, <3>1, FS_AddElement
    <3> QED
      BY <3>2, <3>3
  <2>3. CASE b \notin S
    <3>1. For(b)' = For(b)
      BY <1>1, <2>3 DEF For
    <3> QED
      BY <2>1, <3>1
  <2> QED
    BY <2>2, <2>3
<1>10. listed' \subseteq Pieces /\ endgame' \in Nat
  BY NextEndgameType DEF Request, Walked, Others
<1> QED
  BY <1>1, <1>4, <1>5, <1>6, <1>7, <1>8, <1>9, <1>10 DEF Tables

\* What is askable is neither had nor asked for too often.
LEMMA AskableIsFree ==
  ASSUME NEW q, NEW pieces, NEW fast
  PROVE  /\ Askable(q, pieces, fast) \subseteq Blocks \ have
         /\ \A b \in Askable(q, pieces, fast) :
              \/ For(b) = {}
              \/ Cardinality(For(b)) = 1 /\ <<b, q>> \notin requests
BY DEF Askable

-----------------------------------------------------------------------------
(* The actions.                                                            *)

LEMMA InitHolds == Init => RInv
<1> SUFFICES ASSUME Init PROVE RInv
  OBVIOUS
<1>1. /\ \A q \in Askers : Of(q) = {}
      /\ \A b \in Blocks : For(b) = {}
      /\ \A p \in Pieces : In(p, requests) = {}
  BY DEF Init, Of, For, In
<1>2. Cardinality({}) = 0
  BY FS_EmptySet
<1>3. Tables
  <2>1. \A q \in Askers : pending[q] = Cardinality(Of(q))
    BY <1>1, <1>2 DEF Init
  <2>2. \A p \in Pieces : count[p] <= Cardinality(In(p, requests))
    BY <1>1, <1>2 DEF Init
  <2>3. \A b \in Blocks : Cardinality(For(b)) <= 2
    BY <1>1, <1>2
  <2>4. requests \subseteq Asked /\ pending \in [Askers -> Nat] /\ count \in [Pieces -> Nat]
    BY DEF Init
  <2> QED
    BY <2>1, <2>2, <2>3, <2>4 DEF Tables
<1>4. Others
  <2>1. mishaps \in 0 .. MaxMishaps
    BY PeerRequestsAssumption DEF Init
  <2>2. tasks \in [Webseeds -> SUBSET SUBSET Blocks] /\ link \in [Peers -> {"off", "choked", "open"}]
    BY DEF Init
  <2> QED
    BY <2>1, <2>2 DEF Init, Others
<1> QED
  BY <1>3, <1>4 DEF Init, RInv, Sensible

\* Nothing happens to the tables.
LEMMA SameTables ==
  ASSUME Tables, UNCHANGED <<requests, pending, count>>
  PROVE  Tables'
BY DEF Tables, Of, For, In

\* The requests that stay were sensible before.
LEMMA RemovingIsSensible ==
  ASSUME Sensible, requests' \subseteq requests,
         \A r \in requests' : r[2] \in Peers => link'[r[2]] = link[r[2]],
         \A r \in requests' : r[1] \in have' => r[1] \in have
  PROVE  Sensible'
BY DEF Sensible

LEMMA PeerStep ==
  ASSUME RInv, NEW p \in Peers,
         \/ Connect(p) \/ Unchoke(p) \/ Choke(p) \/ Disconnect(p) \/ Pulse(p)
         \/ \E b \in Blocks : PeerBlock(p, b) \/ Reject(p, b)
  PROVE  RInv'
<1> USE DEF RInv
<1>0. p \in Askers /\ Peers \subseteq Askers
  BY DEF Askers
<1>1. CASE Connect(p)
  <2>1. Tables'
    BY <1>1, SameTables DEF Connect
  <2>2. Sensible'
    BY <1>1 DEF Connect, Sensible, Others
  <2> QED
    BY <1>1, <2>1, <2>2 DEF Connect, Others
<1>2. CASE Unchoke(p)
  <2>1. Tables'
    BY <1>2, SameTables DEF Unchoke
  <2>2. Sensible'
    BY <1>2 DEF Unchoke, Sensible, Others
  <2> QED
    BY <1>2, <2>1, <2>2 DEF Unchoke, Others
<1>3. CASE Choke(p)
  <2> DEFINE R == IF p \in Fext THEN {} ELSE Of(p)
  <2>1. R \in SUBSET Asked
    BY DEF Of, Tables
  <2>2. Remove(R)
    BY <1>3 DEF Choke
  <2> HIDE DEF R
  <2>3. Tables' /\ requests' = requests \ R
    BY <2>1, <2>2, RemoveKeepsTables
  <2>4. Sensible'
    BY <1>3, <2>3 DEF Choke, Sensible, Others
  <2> QED
    BY <1>3, <2>3, <2>4 DEF Choke, Others
<1>4. CASE Disconnect(p)
  <2>1. Of(p) \in SUBSET Asked
    BY DEF Of, Tables
  <2>2. Remove(Of(p))
    BY <1>4 DEF Disconnect
  <2>3. Tables' /\ requests' = requests \ Of(p)
    BY <2>1, <2>2, RemoveKeepsTables
  <2>4. Sensible'
    BY <1>4, <2>3 DEF Disconnect, Sensible, Others, Of
  <2> QED
    BY <1>4, <2>3, <2>4 DEF Disconnect, Others
<1>5. CASE Pulse(p)
  <2> DEFINE A == Askable(p, Walked \cap PeerHas[p], Desired >= NextEndgame)
  <2>1. PICK S \in SUBSET A : Request(p, S)
    BY <1>5 DEF Pulse
  <2>2. /\ A \subseteq Blocks \ have
        /\ \A b \in A : \/ For(b) = {}
                        \/ Cardinality(For(b)) = 1 /\ <<b, p>> \notin requests
    BY AskableIsFree
  <2> HIDE DEF A
  <2>3. /\ Tables' /\ requests' = requests \cup (S \X {p})
        /\ listed' \subseteq Pieces /\ endgame' \in Nat
    BY <1>0, <2>1, <2>2, RequestKeepsTables
  <2>4. Sensible'
    BY <1>5, <2>2, <2>3 DEF Pulse, Sensible
  <2> QED
    BY <1>5, <2>3, <2>4 DEF Pulse, Others
<1>6. ASSUME NEW b \in Blocks, PeerBlock(p, b)
      PROVE  RInv'
  <2>1. BlockFrom(p, b)
    BY <1>6 DEF PeerBlock
  <2>2. /\ Tables' /\ requests' = requests \ For(b)
        /\ have' \subseteq have \cup {b}
        /\ listed' \subseteq Pieces /\ mishaps' \in 0 .. MaxMishaps
    BY <1>0, <2>1, BlockFromKeepsTables
  <2>3. Sensible'
    BY <1>6, <2>2, RemovingIsSensible DEF PeerBlock, For
  <2> QED
    BY <1>6, <2>1, <2>2, <2>3 DEF PeerBlock, BlockFrom, Others
<1>7. ASSUME NEW b \in Blocks, Reject(p, b)
      PROVE  RInv'
  <2>1. {<<b, p>>} \in SUBSET Asked
    BY <1>0 DEF Asked
  <2>2. Tables' /\ requests' = requests \ {<<b, p>>}
    BY <1>7, <2>1, RemoveKeepsTables DEF Reject
  <2>3. Sensible'
    BY <1>7, <2>2, RemovingIsSensible DEF Reject
  <2> QED
    BY <1>7, <2>2, <2>3 DEF Reject, Others
<1> QED
  BY <1>1, <1>2, <1>3, <1>4, <1>5, <1>6, <1>7

LEMMA WebseedStep ==
  ASSUME RInv, NEW w \in Webseeds,
         \/ WebseedIdle(w)
         \/ \E K \in tasks[w] : WebseedBlock(w, K) \/ WebseedFails(w, K)
  PROVE  RInv'
<1> USE DEF RInv
<1>0. w \in Askers /\ w \notin Peers
  BY PeerRequestsAssumption DEF Askers
<1>1. CASE WebseedIdle(w)
  <2>0. PICK fast \in BOOLEAN :
          \E K \in SUBSET Runs(Askable(w, Walked, fast)) :
            Request(w, UNION K) /\ tasks' = [tasks EXCEPT ![w] = @ \cup K]
    BY <1>1 DEF WebseedIdle
  <2>1. PICK K \in SUBSET Runs(Askable(w, Walked, fast)) :
          Request(w, UNION K) /\ tasks' = [tasks EXCEPT ![w] = @ \cup K]
    BY <2>0
  <2> DEFINE A == Askable(w, Walked, fast)
  <2>2. /\ A \subseteq Blocks \ have
        /\ \A b \in A : \/ For(b) = {}
                        \/ Cardinality(For(b)) = 1 /\ <<b, w>> \notin requests
    BY AskableIsFree
  <2>3. K \in SUBSET SUBSET A
    BY <2>1 DEF Runs
  <2> HIDE DEF A
  <2>4. UNION K \in SUBSET A
    BY <2>3
  <2>5. /\ Tables' /\ requests' = requests \cup ((UNION K) \X {w})
        /\ listed' \subseteq Pieces /\ endgame' \in Nat
    BY <1>0, <2>1, <2>2, <2>4, RequestKeepsTables
  <2>6. Sensible'
    BY <1>0, <1>1, <2>5 DEF WebseedIdle, Sensible
  <2>7. tasks' \in [Webseeds -> SUBSET SUBSET Blocks]
    BY <2>1, <2>2, <2>3 DEF Others
  <2> QED
    BY <1>1, <2>5, <2>6, <2>7 DEF WebseedIdle, Others
<1>2. ASSUME NEW K \in tasks[w], WebseedBlock(w, K)
      PROVE  RInv'
  <2>1. PICK b \in K : /\ tasks' = [tasks EXCEPT ![w] = (@ \ {K}) \cup ({K \ {b}} \ {{}})]
                       /\ BlockFrom(w, b)
    BY <1>2 DEF WebseedBlock
  <2>2. K \in SUBSET Blocks /\ b \in Blocks
    BY DEF Others
  <2>3. /\ Tables' /\ requests' = requests \ For(b)
        /\ have' \subseteq have \cup {b}
        /\ listed' \subseteq Pieces /\ mishaps' \in 0 .. MaxMishaps
    BY <1>0, <2>1, <2>2, BlockFromKeepsTables
  <2>4. Sensible'
    BY <1>2, <2>3, RemovingIsSensible DEF WebseedBlock, For
  <2>5. tasks' \in [Webseeds -> SUBSET SUBSET Blocks]
    BY <2>1, <2>2 DEF Others
  <2> QED
    BY <1>2, <2>1, <2>2, <2>3, <2>4, <2>5 DEF WebseedBlock, BlockFrom, Others
<1>3. ASSUME NEW K \in tasks[w], WebseedFails(w, K)
      PROVE  RInv'
  <2>1. K \in SUBSET Blocks
    BY DEF Others
  <2>2. K \X {w} \in SUBSET Asked
    BY <1>0, <2>1 DEF Asked
  <2>3. Tables' /\ requests' = requests \ (K \X {w})
    BY <1>3, <2>2, RemoveKeepsTables DEF WebseedFails
  <2>4. Sensible'
    BY <1>3, <2>3, RemovingIsSensible DEF WebseedFails
  <2>5. tasks' \in [Webseeds -> SUBSET SUBSET Blocks]
    BY <1>3 DEF WebseedFails, Others
  <2> QED
    BY <1>3, <2>3, <2>4, <2>5 DEF WebseedFails, Others
<1> QED
  BY <1>1, <1>2, <1>3

LEMMA TorrentStep ==
  ASSUME RInv,
         \/ \E R \in SUBSET requests : RefillUpkeep(R)
         \/ Stop \/ Start
         \/ \E W \in SUBSET Pieces : SetFileDLs(W) \/ Verify(W)
  PROVE  RInv'
<1> USE DEF RInv
<1>1. ASSUME NEW R \in SUBSET requests, RefillUpkeep(R)
      PROVE  RInv'
  <2>1. R \in SUBSET Asked
    BY DEF Tables
  <2>2. Tables' /\ requests' = requests \ R
    BY <1>1, <2>1, RemoveKeepsTables DEF RefillUpkeep
  <2>3. Sensible'
    BY <1>1, <2>2, RemovingIsSensible DEF RefillUpkeep
  <2> QED
    BY <1>1, <2>2, <2>3 DEF RefillUpkeep, Others
<1>2. CASE Stop
  <2> DEFINE R == {r \in requests : r[2] \in Peers}
  <2>1. R \in SUBSET Asked
    BY DEF Tables
  <2>2. Tables' /\ requests' = requests \ R
    BY <1>2, <2>1, RemoveKeepsTables DEF Stop
  <2>3. Sensible'
    BY <1>2, <2>2 DEF Stop, Sensible
  <2>4. mishaps' \in 0 .. MaxMishaps
    BY <1>2, PeerRequestsAssumption DEF Stop, Mishap, Others
  <2>5. link' = [p \in Peers |-> "off"]
    BY <1>2 DEF Stop
  <2>6. /\ link' \in [Peers -> {"off", "choked", "open"}]
        /\ \A p \in Peers : link'[p] = "off"
    BY <2>5
  <2> QED
    BY <1>2, <2>2, <2>3, <2>4, <2>6 DEF Stop, Others
<1>3. CASE Start
  <2>1. Tables'
    BY <1>3, SameTables DEF Start
  <2> QED
    BY <1>3, <2>1 DEF Start, Sensible, Others
<1>4. ASSUME NEW W \in SUBSET Pieces, SetFileDLs(W)
      PROVE  RInv'
  <2>1. /\ count' \in [Pieces -> Nat]
        /\ \A p \in Pieces : count'[p] <= count[p]
    BY <1>4 DEF SetFileDLs, Rebuilt, Tables
  <2>2. ASSUME NEW p \in Pieces
        PROVE  count'[p] <= Cardinality(In(p, requests))
    <3>1. Cardinality(In(p, requests)) \in Nat
      BY AskedIsFinite DEF In, Tables
    <3>2. count[p] \in Nat /\ count'[p] \in Nat /\ count[p] <= Cardinality(In(p, requests))
      BY <2>1 DEF Tables
    <3> QED
      BY <2>1, <3>1, <3>2
  <2>3. UNCHANGED <<requests, pending>>
    BY <1>4 DEF SetFileDLs
  <2>4. Tables'
    BY <2>1, <2>2, <2>3 DEF Tables, Of, For, In
  <2>5. listed' \subseteq Pieces
    BY <1>4 DEF SetFileDLs, Others
  <2> QED
    BY <1>4, <2>4, <2>5, PeerRequestsAssumption DEF SetFileDLs, Mishap, Sensible, Others
<1>5. ASSUME NEW W \in SUBSET Pieces, Verify(W)
      PROVE  RInv'
  <2>1. Tables'
    BY <1>5, SameTables DEF Verify
  <2>2. Sensible'
    BY <1>5 DEF Verify, Sensible
  <2> QED
    BY <1>5, <2>1, <2>2, PeerRequestsAssumption DEF Verify, SetHasPieces, Mishap, Others
<1> QED
  BY <1>1, <1>2, <1>3, <1>4, <1>5

LEMMA StepHolds == RInv /\ [Next]_vars => RInv'
<1> SUFFICES ASSUME RInv, [Next]_vars PROVE RInv'
  OBVIOUS
<1>1. CASE UNCHANGED vars
  <2>1. Tables'
    BY <1>1, SameTables DEF vars, RInv
  <2> QED
    BY <1>1, <2>1 DEF vars, RInv, Sensible, Others
<1>2. CASE Next
  BY <1>2, PeerStep, WebseedStep, TorrentStep DEF Next
<1> QED
  BY <1>1, <1>2

\* The tables, what is asked for and the rest are always as RInv says.
THEOREM RequestsAreSound == Spec => []RInv
BY InitHolds, StepHolds, PTL DEF Spec

-----------------------------------------------------------------------------
(* The properties.                                                         *)

LEMMA RInvImplies == RInv => TypeOK /\ TablesAgree /\ NoWaste
<1> SUFFICES ASSUME RInv PROVE TypeOK /\ TablesAgree /\ NoWaste
  OBVIOUS
<1>1. TypeOK
  BY DEF RInv, Tables, Others, TypeOK, Asked
<1>2. TablesAgree
  BY DEF RInv, Tables, TablesAgree, In
<1>3. NoWaste
  BY DEF RInv, Tables, Sensible, NoWaste
<1> QED
  BY <1>1, <1>2, <1>3

\* Every variable has its type; the counters of the tables stay natural numbers
\* whatever is rejected that was never asked for.
THEOREM RequestsTypeCorrect == Spec => []TypeOK
BY RequestsAreSound, RInvImplies, PTL

\* A peer's pendingReqsToPeer is the number of its requests, and no piece counts
\* more requests than it has (peer-mgr.c:709-718).
THEOREM TablesAgreeAlways == Spec => []TablesAgree
BY RequestsAreSound, RInvImplies, PTL

\* No block is asked of more than two, and a BitTorrent peer is asked only while
\* it is connected, for what is missing (peer-mgr.c:1388).
THEOREM NothingIsWasted == Spec => []NoWaste
BY RequestsAreSound, RInvImplies, PTL

-----------------------------------------------------------------------------
(* What EveryBlockArrives rests on.                                        *)

\* As long as no complete piece was lost, the piece list, if there is one, has
\* every wanted piece that is not complete: what nobody rebuilds when blocks
\* arrive and pieces fail is kept whole by taking out only what is complete.
PieceListIsWhole == ~lost /\ listed # {} => wanted \ CompleteIn(have) \subseteq listed

LEMMA FailedWasIncomplete ==
  ASSUME NEW b \in Blocks, GotBlock(b)
  PROVE  /\ CompleteIn(have) \subseteq CompleteIn(have')
         /\ listed \ CompleteIn(have') \subseteq listed'
<1> DEFINE p == PieceOf[b]
           h == have \cup {b}
<1>1. p \in Pieces /\ b \in BlocksOf(p)
  BY PeerRequestsAssumption DEF BlocksOf
<1>2. CASE b \notin have /\ BlocksOf(p) \subseteq h /\ have' = h /\ listed' = listed \ {p}
  <2>1. p \in CompleteIn(have')
    BY <1>1, <1>2 DEF CompleteIn
  <2>2. CompleteIn(have) \subseteq CompleteIn(have')
    BY <1>2 DEF CompleteIn
  <2> QED
    BY <1>2, <2>1, <2>2
<1>3. CASE b \notin have /\ have' = h \ BlocksOf(p) /\ listed' = listed
  <2> SUFFICES ASSUME NEW q \in CompleteIn(have) PROVE q \in CompleteIn(have')
    BY <1>3
  <2>1. q \in Pieces /\ BlocksOf(q) \subseteq have
    BY DEF CompleteIn
  <2>2. q # p
    BY <1>1, <1>3, <2>1
  <2>3. BlocksOf(q) \cap BlocksOf(p) = {}
    BY <2>2 DEF BlocksOf
  <2> QED
    BY <1>3, <2>1, <2>3 DEF CompleteIn
<1>4. CASE have' = h /\ listed' = listed
  BY <1>4 DEF CompleteIn
<1> QED
  BY <1>2, <1>3, <1>4 DEF GotBlock

LEMMA BlockKeepsList ==
  ASSUME PieceListIsWhole, NEW q \in Askers, NEW b \in Blocks, BlockFrom(q, b)
  PROVE  PieceListIsWhole'
<1>1. lost' = lost /\ wanted' = wanted /\ GotBlock(b)
  BY DEF BlockFrom
<1>2. listed' \subseteq listed
  BY <1>1 DEF GotBlock
<1> QED
  BY <1>1, <1>2, FailedWasIncomplete DEF PieceListIsWhole

LEMMA RequestKeepsList ==
  ASSUME PieceListIsWhole, NEW q \in Askers, NEW S, Request(q, S),
         have' = have, wanted' = wanted, lost' = lost
  PROVE  PieceListIsWhole'
BY DEF PieceListIsWhole, Request, Walked

LEMMA OthersKeepList ==
  ASSUME PieceListIsWhole, have' = have, wanted' = wanted, lost' = lost, listed' = listed
  PROVE  PieceListIsWhole'
BY DEF PieceListIsWhole

LEMMA VerifyKeepsList ==
  ASSUME PieceListIsWhole, NEW G \in SUBSET Pieces, Verify(G)
  PROVE  PieceListIsWhole'
<1>1. /\ wanted' = wanted /\ listed' = listed
      /\ have' = {b \in Blocks : PieceOf[b] \in G}
      /\ ~lost' => ~lost /\ CompleteIn(have) \subseteq G
  BY DEF Verify, SetHasPieces
<1>2. G \subseteq CompleteIn(have')
  BY <1>1 DEF CompleteIn, BlocksOf
<1> QED
  BY <1>1, <1>2 DEF PieceListIsWhole

LEMMA SelectionKeepsList ==
  ASSUME PieceListIsWhole, NEW W \in SUBSET Pieces, SetFileDLs(W)
  PROVE  PieceListIsWhole'
BY DEF PieceListIsWhole, SetFileDLs, IsSeed

LEMMA ListStep == RInv /\ PieceListIsWhole /\ [Next]_vars => PieceListIsWhole'
<1> SUFFICES ASSUME RInv, PieceListIsWhole, [Next]_vars PROVE PieceListIsWhole'
  OBVIOUS
<1>0. Peers \subseteq Askers /\ Webseeds \subseteq Askers
  BY DEF Askers
<1>1. ASSUME NEW p \in Peers, Connect(p) \/ Unchoke(p) \/ Choke(p) \/ Disconnect(p)
      PROVE  PieceListIsWhole'
  BY <1>1, OthersKeepList DEF Connect, Unchoke, Choke, Disconnect
<1>2. ASSUME NEW p \in Peers, Pulse(p) PROVE PieceListIsWhole'
  BY <1>0, <1>2, RequestKeepsList DEF Pulse
<1>3. ASSUME NEW p \in Peers, NEW b \in Blocks, PeerBlock(p, b) PROVE PieceListIsWhole'
  BY <1>0, <1>3, BlockKeepsList DEF PeerBlock
<1>4. ASSUME NEW p \in Peers, NEW b \in Blocks, Reject(p, b) PROVE PieceListIsWhole'
  BY <1>4, OthersKeepList DEF Reject
<1>5. ASSUME NEW R \in SUBSET requests, RefillUpkeep(R) PROVE PieceListIsWhole'
  BY <1>5, OthersKeepList DEF RefillUpkeep
<1>6. ASSUME NEW w \in Webseeds, WebseedIdle(w) PROVE PieceListIsWhole'
  BY <1>0, <1>6, RequestKeepsList DEF WebseedIdle
<1>7. ASSUME NEW w \in Webseeds, NEW K \in tasks[w], WebseedBlock(w, K) PROVE PieceListIsWhole'
  <2>1. K \subseteq Blocks
    BY DEF RInv, Others
  <2> QED
    BY <1>0, <1>7, <2>1, BlockKeepsList DEF WebseedBlock
<1>8. ASSUME NEW w \in Webseeds, NEW K \in tasks[w], WebseedFails(w, K) PROVE PieceListIsWhole'
  BY <1>8, OthersKeepList DEF WebseedFails
<1>9. CASE Stop \/ Start \/ UNCHANGED vars
  BY <1>9, OthersKeepList DEF Stop, Start, vars
<1> QED
  BY <1>1, <1>2, <1>3, <1>4, <1>5, <1>6, <1>7, <1>8, <1>9, VerifyKeepsList, SelectionKeepsList
     DEF Next

\* The piece list lacks nothing that is wanted, for any torrent and any peers;
\* run requests_stale shows why a piece must not have been lost.
THEOREM PieceListIsWholeHolds == Spec => []PieceListIsWhole
<1>1. Init => PieceListIsWhole
  BY DEF Init, PieceListIsWhole
<1> QED
  BY <1>1, ListStep, RequestsAreSound, PTL DEF Spec

\* The pulse of a peer that has everything asks it for something we lack,
\* as long as a wanted block is asked of nobody and no complete piece was
\* lost: neither the piece list nor the counters stand in its way.
PulseAsks ==
  [][\A p \in Peers :
       /\ Pulse(p) /\ PeerHas[p] = Pieces /\ ~lost
       /\ \E b \in Left : For(b) = {}
       => \E b \in Blocks \ have : <<b, p>> \in requests' /\ <<b, p>> \notin requests]_vars

\* The counter of the peer is right, so there is room for a request; and the
\* piece list, or the one made for the occasion, has the piece of the block.
THEOREM PulseAsksHolds == Spec => PulseAsks
<1> DEFINE Asks == \A p \in Peers :
             /\ Pulse(p) /\ PeerHas[p] = Pieces /\ ~lost
             /\ \E b \in Left : For(b) = {}
             => \E b \in Blocks \ have : <<b, p>> \in requests' /\ <<b, p>> \notin requests
<1>1. RInv /\ PieceListIsWhole => Asks
  <2> SUFFICES ASSUME RInv, PieceListIsWhole, NEW p \in Peers, Pulse(p), PeerHas[p] = Pieces,
                      ~lost, NEW b \in Left, For(b) = {}
               PROVE  \E c \in Blocks \ have : <<c, p>> \in requests' /\ <<c, p>> \notin requests
    OBVIOUS
  <2> DEFINE A == Askable(p, Walked \cap PeerHas[p], Desired >= NextEndgame)
  <2>1. /\ b \in Blocks \ have /\ PieceOf[b] \in wanted /\ PieceOf[b] \in Pieces
        /\ wanted \subseteq Pieces
    BY PeerRequestsAssumption DEF Left, RInv, Others
  <2>2. PieceOf[b] \in wanted \ CompleteIn(have)
    BY <2>1 DEF CompleteIn, BlocksOf
  <2>3. PieceOf[b] \in Walked \cap PeerHas[p]
    BY <2>1, <2>2 DEF Walked, PieceListIsWhole
  <2>4. b \in A
    BY <2>1, <2>3 DEF Askable
  <2>5. /\ A \subseteq Blocks \ have
        /\ \A c \in A : For(c) = {} \/ <<c, p>> \notin requests
    BY AskableIsFree
  <2> HIDE DEF A
  <2>6. PICK S \in SUBSET A : Fills(S, A, Desired - pending[p]) /\ Request(p, S)
    BY DEF Pulse, A
  <2>7. Desired - pending[p] > 0
    <3>1. p \in Askers /\ pending[p] \in Nat /\ Desired \in Nat \ {0}
      BY PeerRequestsAssumption DEF Askers, RInv, Tables
    <3>2. 100 * pending[p] <= 66 * Desired
      BY DEF Pulse
    <3> QED
      BY <3>1, <3>2
  <2>8. S # {}
    <3> SUFFICES ASSUME S = {} PROVE FALSE
      OBVIOUS
    <3>1. Cardinality(S) = 0
      BY FS_EmptySet
    <3> QED
      BY <2>4, <2>6, <2>7, <3>1 DEF Fills
  <2>9. PICK c \in S : TRUE
    BY <2>8
  <2>10. <<c, p>> \in requests'
    BY <2>6, <2>9 DEF Request
  <2>11. <<c, p>> \notin requests
    BY <2>5, <2>6, <2>9 DEF For
  <2> QED
    BY <2>5, <2>6, <2>9, <2>10, <2>11
<1>2. RInv /\ PieceListIsWhole => [Asks]_vars
  BY <1>1
<1> QED
  BY <1>2, RequestsAreSound, PieceListIsWholeHolds, PTL DEF PulseAsks
=============================================================================
