---------------------------- MODULE MCLifecycle ----------------------------
(* TorrentLifecycle with two torrents, the first one of the higher priority. *)
EXTENDS TorrentLifecycle

CONSTANTS t1, t2, n1, n2, n3

\* A magnet that is not verified on request, beside a torrent that is.
MagnetRpc == {"start", "stop", "remove"} \X {t1} \cup CallNames \X {t2}
\* Everything happens to the magnet; the other torrent is started and verified.
ClientMix == CallNames \X {t1} \cup {"start", "verify"} \X {t2}
NoCalls == {}
AnyDisk == SUBSET Pieces

MCPriority == [t \in Torrents |-> IF t = t1 THEN 1 ELSE 0]
=============================================================================
