----------------------------- MODULE BlockStore -----------------------------
(***************************************************************************)
(* What the disk cache promises to the rest of libtransmission: a block    *)
(* store with write-back.  A read returns what was written last; the disk  *)
(* holds, of every block, that value or an older one; a crash falls back   *)
(* to the disk.  Only a torrent one of whose writes has failed may lose    *)
(* blocks.                                                                 *)
(***************************************************************************)
CONSTANTS Torrents, Blocks, Data

VARIABLES store,    \* what a read of each block returns
          stable,   \* what is on the disk
          failed    \* torrents that have seen a write error

svars == <<store, stable, failed>>

Holdings == [Torrents -> [Blocks -> Data]]

Init == store \in Holdings /\ stable = store /\ failed = {}

\* u's blocks after block b of torrent t was overwritten with d
Overwrite(u, t, b, d) == IF u = t THEN [store[t] EXCEPT ![b] = d] ELSE store[u]

\* Every block of torrent u on the disk stays, or takes the value reads return.
Synced(u) == \A b \in Blocks : stable'[u][b] \in {stable[u][b], store'[u][b]}

SomeFail ==
  /\ failed \subseteq failed' /\ failed' \subseteq Torrents
  /\ store' \in Holdings /\ stable' \in Holdings

Write ==
  /\ SomeFail
  /\ \E t \in Torrents, b \in Blocks, d \in Data :
       \A u \in Torrents \ failed' : store'[u] = Overwrite(u, t, b, d) /\ Synced(u)

Sync ==
  /\ SomeFail
  /\ \A u \in Torrents \ failed' : store'[u] = store[u] /\ Synced(u)

Crash == store' = stable /\ UNCHANGED <<stable, failed>>

Next == Write \/ Sync \/ Crash

Spec == Init /\ [][Next]_svars
=============================================================================
