---------------------------- MODULE PeerRequests ----------------------------
(***************************************************************************)
(* Which blocks of a torrent are requested from whom: the request list and *)
(* the piece list of libtransmission/peer-mgr.c, used by the BitTorrent    *)
(* peers of peer-msgs.c and by the webseeds of webseed.c.                  *)
(*                                                                         *)
(* Peers send what they like: any block, any reject, a choke, nothing at   *)
(* all.  The order of the piece list, which requests are older than        *)
(* REQUEST_TTL_SECS and how a webseed counts its failures are left open.   *)
(* All blocks have one size.                                               *)
(***************************************************************************)
EXTENDS Integers, FiniteSets

CONSTANTS Peers,      \* BitTorrent peers
          Webseeds,   \* they have every piece
          Fext,       \* the peers with the fast extension
          PeerHas,    \* the pieces each peer has
          Blocks,     \* block indices
          Pieces,     \* piece indices
          PieceOf,    \* the piece of each block
          Honest,     \* the peers that have everything and answer in the end
          Desired,    \* desiredRequestCount of a peer that has unchoked us
          MaxTasks,   \* MAX_WEBSEED_CONNECTIONS
          MaxMishaps  \* bound: stops, selections, lost and failed pieces

ASSUME PeerRequestsAssumption ==
  /\ Blocks \subseteq Nat /\ IsFiniteSet(Blocks)
  /\ IsFiniteSet(Peers) /\ IsFiniteSet(Webseeds) /\ IsFiniteSet(Pieces)
  /\ Peers \cap Webseeds = {}
  /\ Fext \subseteq Peers /\ Honest \subseteq Peers
  /\ PeerHas \in [Peers -> SUBSET Pieces]
  /\ PieceOf \in [Blocks -> Pieces]
  /\ Desired \in Nat \ {0} /\ MaxTasks \in Nat /\ MaxMishaps \in Nat

VARIABLES
  running,   \* tor->isRunning
  have,      \* the blocks of tor->completion
  wanted,    \* the pieces that are not dnd
  link,      \* of each peer: "off", "choked" by it, or "open"
  tasks,     \* the blocks that each task of each webseed has yet to fetch
  requests,  \* swarm->requests: <<block, peer>>
  pending,   \* peer->pendingReqsToPeer
  listed,    \* the pieces of swarm->pieces, which is NULL when there are none
  count,     \* the requestCount of each of them
  endgame,   \* swarm->endgame
  lost,      \* history: a complete piece was found to be missing after all
  mishaps

vars == <<running, have, wanted, link, tasks, requests, pending, listed, count,
          endgame, lost, mishaps>>

Askers == Peers \cup Webseeds
BlocksOf(p) == {b \in Blocks : PieceOf[b] = p}
CompleteIn(h) == {p \in Pieces : BlocksOf(p) \subseteq h}
IsSeed(h, w) == w \subseteq CompleteIn(h)

Init ==
  /\ running = TRUE
  /\ have = {}
  /\ wanted = Pieces
  /\ link = [p \in Peers |-> "off"]
  /\ tasks = [w \in Webseeds |-> {}]
  /\ requests = {}
  /\ pending = [q \in Askers |-> 0]
  /\ listed = {}
  /\ count = [p \in Pieces |-> 0]
  /\ endgame = 0
  /\ lost = FALSE
  /\ mishaps = 0

Mishap == mishaps < MaxMishaps /\ mishaps' = mishaps + 1

-----------------------------------------------------------------------------
(* The two tables.                                                         *)

Of(q) == {r \in requests : r[2] = q}
For(b) == {r \in requests : r[1] = b}
Less(n, d) == IF n <= d THEN 0 ELSE n - d

\* Mutant: the number of requests is decreased below 0.
UncountBelow(R) ==
  [p \in Pieces |-> count[p] - Cardinality({r \in R : PieceOf[r[1]] = p})]

\* pieceListRemoveRequest for each of R, whether it is in the request list or not
Uncount(R) ==
  [p \in Pieces |-> Less(count[p], Cardinality({r \in R : PieceOf[r[1]] = p}))]

\* Mutant: the requests stay counted in their pieces.
RemoveFromList(R) ==
  /\ requests' = requests \ R
  /\ pending' = [q \in Askers |-> Less(pending[q], Cardinality(R \cap Of(q)))]
  /\ UNCHANGED count

\* Mutant: the peers still count the requests as pending.
RemoveStillPending(R) ==
  /\ requests' = requests \ R
  /\ count' = Uncount(R)
  /\ UNCHANGED pending

\* removeRequestFromTables: requestListRemove and pieceListRemoveRequest
Remove(R) ==
  /\ requests' = requests \ R
  /\ pending' = [q \in Askers |-> Less(pending[q], Cardinality(R \cap Of(q)))]
  /\ count' = Uncount(R)

\* pieceListRebuild keeps the counts of the pieces that stay.
Rebuilt(L, p) == IF p \in L \cap listed THEN count[p] ELSE 0

\* updateEndgame: the average number of requests when all that is left has
\* been requested
Downloading == {p \in Peers : pending[p] > 0} \cup {w \in Webseeds : tasks[w] # {}}
Left == {b \in Blocks : PieceOf[b] \in wanted} \ have
NextEndgame ==
  IF Cardinality(requests) < Cardinality(Left) THEN 0
  ELSE IF endgame # 0 THEN endgame
  ELSE Cardinality(requests) \div (IF Downloading = {} THEN 1 ELSE Cardinality(Downloading))

\* tr_peerMgrGetNextRequests walks this list.
Walked == IF listed = {} THEN wanted \ CompleteIn(have) ELSE listed

\* What q may be asked for: blocks that nobody is asked for and, in the
\* endgame, if it is fast enough, those that one other is asked for.
Askable(q, pieces, fast) ==
  {b \in Blocks \ have :
     /\ PieceOf[b] \in pieces
     /\ \/ For(b) = {}
        \/ /\ NextEndgame # 0 /\ fast
           /\ Cardinality(For(b)) = 1 /\ <<b, q>> \notin requests}

\* requestListAdd for each of the blocks S
Request(q, S) ==
  /\ requests' = requests \cup (S \X {q})
  /\ pending' = [pending EXCEPT ![q] = @ + Cardinality(S)]
  /\ listed' = Walked
  /\ count' = [p \in Pieces |-> Rebuilt(Walked, p) + Cardinality(S \cap BlocksOf(p))]
  /\ endgame' = NextEndgame

\* As many as are wanted, or all that there are.
Fills(S, A, n) == S \subseteq A /\ Cardinality(S) <= n /\ (S = A \/ Cardinality(S) = n)

-----------------------------------------------------------------------------
(* A block arrives.                                                        *)

\* tr_torrentGotBlock: the piece of b may be complete, and pass its check, or
\* fail it and be missing as a whole.
GotBlock(b) ==
  LET h == have \cup {b}
      p == PieceOf[b]
  IN \/ /\ b \notin have /\ BlocksOf(p) \subseteq h
        /\ \/ /\ have' = h
              /\ listed' = listed \ {p}
              /\ count' = [Uncount(For(b)) EXCEPT ![p] = 0]
              /\ UNCHANGED mishaps
           \/ /\ have' = h \ BlocksOf(p)
              /\ count' = Uncount(For(b))
              /\ Mishap
              /\ UNCHANGED listed
     \/ /\ b \in have \/ ~(BlocksOf(p) \subseteq h)
        /\ have' = h
        /\ count' = Uncount(For(b))
        /\ UNCHANGED <<listed, mishaps>>

\* Mutant: the other peers that were asked for the block are forgotten.
BlockFromOne(q, b) ==
  /\ requests' = requests \ {<<b, q>>}
  /\ pending' = [x \in Askers |-> Less(pending[x], Cardinality({<<b, q>>} \cap Of(x)))]
  /\ GotBlock(b)
  /\ UNCHANGED <<running, wanted, endgame, lost>>

\* peerCallbackFunc, TR_PEER_CLIENT_GOT_BLOCK, with cancelAllRequestsForBlock
BlockFrom(q, b) ==
  /\ requests' = requests \ For(b)
  /\ pending' = [x \in Askers |-> Less(pending[x], Cardinality(For(b) \cap Of(x)))]
  /\ GotBlock(b)
  /\ UNCHANGED <<running, wanted, endgame, lost>>

-----------------------------------------------------------------------------
(* BitTorrent peers.                                                       *)

Connect(p) ==
  /\ running /\ link[p] = "off"
  /\ link' = [link EXCEPT ![p] = "choked"]
  /\ UNCHANGED <<running, have, wanted, tasks, requests, pending, listed, count,
                 endgame, lost, mishaps>>

Unchoke(p) ==
  /\ link[p] = "choked"
  /\ link' = [link EXCEPT ![p] = "open"]
  /\ UNCHANGED <<running, have, wanted, tasks, requests, pending, listed, count,
                 endgame, lost, mishaps>>

\* A peer with the fast extension rejects the requests it drops.
Choke(p) ==
  /\ link[p] = "open"
  /\ link' = [link EXCEPT ![p] = "choked"]
  /\ Remove(IF p \in Fext THEN {} ELSE Of(p))
  /\ UNCHANGED <<running, have, wanted, tasks, listed, endgame, lost, mishaps>>

\* removePeer, and tr_peerDestruct with its peerDeclinedAllRequests
Disconnect(p) ==
  /\ link[p] # "off"
  /\ link' = [link EXCEPT ![p] = "off"]
  /\ Remove(Of(p))
  /\ UNCHANGED <<running, have, wanted, tasks, listed, endgame, lost, mishaps>>

\* updateBlockRequests, from peerPulse
Pulse(p) ==
  /\ link[p] = "open" /\ ~IsSeed(have, wanted)
  /\ 100 * pending[p] <= 66 * Desired
  /\ \E S \in SUBSET Askable(p, Walked \cap PeerHas[p], Desired >= NextEndgame) :
       /\ Fills(S, Askable(p, Walked \cap PeerHas[p], Desired >= NextEndgame),
                Desired - pending[p])
       /\ Request(p, S)
  /\ UNCHANGED <<running, have, wanted, link, tasks, lost, mishaps>>

\* clientGotBlock drops what was not asked for.
PeerBlock(p, b) ==
  /\ <<b, p>> \in requests /\ PieceOf[b] \notin CompleteIn(have)
  /\ BlockFrom(p, b)
  /\ UNCHANGED <<link, tasks>>

\* BT_FEXT_REJECT of any block
Reject(p, b) ==
  /\ p \in Fext /\ link[p] # "off"
  /\ Remove({<<b, p>>})
  /\ UNCHANGED <<running, have, wanted, link, tasks, listed, endgame, lost, mishaps>>

\* refillUpkeep: some of the requests are too old.
RefillUpkeep(R) ==
  /\ R # {}
  /\ R \subseteq {r \in requests : r[2] \in Peers}
  /\ Remove(R)
  /\ UNCHANGED <<running, have, wanted, link, tasks, listed, endgame, lost, mishaps>>

-----------------------------------------------------------------------------
(* Webseeds.                                                               *)

\* The runs of blocks without a gap in A that lie in one piece.
Runs(A) ==
  {R \in SUBSET A :
     /\ R # {} /\ \A b, c \in R : PieceOf[b] = PieceOf[c] /\ (b .. c) \subseteq R
     /\ \A b \in R, c \in A \ R : PieceOf[b] = PieceOf[c] => c # b + 1 /\ c # b - 1}

\* on_idle: one task for each run.  The blocks of a run count as one request
\* for a webseed, so that it may become fast as it walks.
WebseedIdle(w) ==
  /\ running /\ ~IsSeed(have, wanted)
  /\ \E want \in 1 .. MaxTasks - Cardinality(tasks[w]), fast \in BOOLEAN :
       /\ pending[w] + want >= NextEndgame => fast
       /\ \E K \in SUBSET Runs(Askable(w, Walked, fast)) :
            /\ Fills(K, Runs(Askable(w, Walked, fast)), want)
            /\ Request(w, UNION K)
            /\ tasks' = [tasks EXCEPT ![w] = @ \cup K]
  /\ UNCHANGED <<running, have, wanted, link, lost, mishaps>>

\* write_block_func: the next block of a task; the task ends with its last one.
WebseedBlock(w, K) ==
  /\ K \in tasks[w]
  /\ \E b \in K :
       /\ \A c \in K : b <= c
       /\ tasks' = [tasks EXCEPT ![w] = (@ \ {K}) \cup ({K \ {b}} \ {{}})]
       /\ BlockFrom(w, b)
  /\ UNCHANGED link

\* web_response_func, of a request that failed: fire_client_got_rejs
WebseedFails(w, K) ==
  /\ K \in tasks[w]
  /\ tasks' = [tasks EXCEPT ![w] = @ \ {K}]
  /\ Remove(K \X {w})
  /\ UNCHANGED <<running, have, wanted, link, listed, endgame, lost, mishaps>>

-----------------------------------------------------------------------------
(* The torrent.                                                            *)

\* stopSwarm removes the peers; the webseeds go on.
Stop ==
  /\ running /\ Mishap
  /\ running' = FALSE
  /\ link' = [p \in Peers |-> "off"]
  /\ Remove({r \in requests : r[2] \in Peers})
  /\ UNCHANGED <<have, wanted, tasks, listed, endgame, lost>>

Start ==
  /\ ~running
  /\ running' = TRUE
  /\ UNCHANGED <<have, wanted, link, tasks, requests, pending, listed, count,
                 endgame, lost, mishaps>>

\* tr_torrentSetFileDLs, with the pieceListRebuild at its end
SetFileDLs(W) ==
  /\ W # wanted /\ Mishap
  /\ wanted' = W
  /\ IF IsSeed(have, W) THEN UNCHANGED <<listed, count>>
     ELSE /\ listed' = W \ CompleteIn(have)
          /\ count' = [p \in Pieces |-> Rebuilt(W \ CompleteIn(have), p)]
  /\ UNCHANGED <<running, have, link, tasks, requests, pending, endgame, lost>>

\* A piece is complete, or misses all its blocks, after tr_torrentSetHasPiece.
SetHasPieces(G) ==
  /\ have' = {b \in Blocks : PieceOf[b] \in G}
  /\ lost' = (lost \/ \E p \in CompleteIn(have) : p \notin G)

\* A verification of the stopped torrent finds the pieces G.
Verify(G) ==
  /\ ~running /\ Mishap
  /\ SetHasPieces(G)
  /\ UNCHANGED <<running, wanted, link, tasks, requests, pending, listed, count, endgame>>

Next ==
  \/ \E p \in Peers :
       \/ Connect(p) \/ Unchoke(p) \/ Choke(p) \/ Disconnect(p) \/ Pulse(p)
       \/ \E b \in Blocks : PeerBlock(p, b) \/ Reject(p, b)
  \/ \E R \in SUBSET requests : RefillUpkeep(R)
  \/ \E w \in Webseeds :
       \/ WebseedIdle(w)
       \/ \E K \in tasks[w] : WebseedBlock(w, K) \/ WebseedFails(w, K)
  \/ Stop \/ Start
  \/ \E W \in SUBSET Pieces : SetFileDLs(W) \/ Verify(W)

Spec == Init /\ [][Next]_vars

\* A peer that is honest answers at last, however often the answer comes too
\* late.  A request that is never answered gets too old, and a transfer from a
\* webseed ends.  The pulse of the honest peer, twice a second, is not always
\* beaten to what becomes free: who answers nothing is closed as idle and a
\* webseed that fails has to wait.  Nobody else has to do anything.
Fairness ==
  /\ \A p \in Honest : SF_vars(Pulse(p)) /\ SF_vars(\E b \in Blocks : PeerBlock(p, b))
  /\ \A p \in Peers, b \in Blocks : WF_vars(RefillUpkeep({<<b, p>>}))
  /\ \A w \in Webseeds : WF_vars(\E K \in tasks[w] : WebseedFails(w, K))

FairSpec == Spec /\ Fairness

-----------------------------------------------------------------------------
(* Properties.                                                             *)

TypeOK ==
  /\ running \in BOOLEAN
  /\ have \subseteq Blocks
  /\ wanted \subseteq Pieces
  /\ link \in [Peers -> {"off", "choked", "open"}]
  /\ tasks \in [Webseeds -> SUBSET SUBSET Blocks]
  /\ requests \subseteq Blocks \X Askers
  /\ pending \in [Askers -> Nat]
  /\ listed \subseteq Pieces
  /\ count \in [Pieces -> Nat]
  /\ endgame \in Nat
  /\ lost \in BOOLEAN
  /\ mishaps \in 0 .. MaxMishaps

\* What is counted is what is in the request list (peer-mgr.c:709-718): each
\* peer's pendingReqsToPeer, from which its next requests are computed, is the
\* number of its requests, and no piece counts a request that is gone, which
\* would keep it behind the others for ever.
TablesAgree ==
  /\ \A q \in Askers : pending[q] = Cardinality(Of(q))
  /\ \A p \in Pieces :
       count[p] <= Cardinality({r \in requests : PieceOf[r[1]] = p})

\* "don't have more than two peers requesting this block" (peer-mgr.c:1388),
\* whatever times out, is rejected, choked, or asked for again; and what is
\* asked of a peer is asked of one that is connected, for a block we lack.
NoWaste ==
  /\ \A b \in Blocks : Cardinality(For(b)) <= 2
  /\ \A r \in requests : r[2] \in Peers => link[r[2]] # "off" /\ r[1] \notin have

\* One honest peer is enough: every wanted block arrives, although others take
\* requests and answer none of them, while it stays connected, unless a piece
\* is lost that was complete.
EveryBlockArrives ==
  \A p \in Honest :
    <>[](running /\ link[p] = "open") /\ []~lost => <>[]IsSeed(have, wanted)

\* The same when a piece was lost, to a verification or to a check of what a
\* peer asks for.  The piece list is too old then: "amount of time to keep a
\* list of request pieces lying around before it's considered too old and
\* needs to be rebuilt" (peer-mgr.c:78-79).
LostPieceArrives ==
  \A p \in Honest :
    <>[](running /\ link[p] = "open") => <>[]IsSeed(have, wanted)
=============================================================================
