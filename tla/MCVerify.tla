------------------------------ MODULE MCVerify ------------------------------
(* Two torrents, the first one of the higher priority.                     *)
EXTENDS Verify

CONSTANTS t1, t2, n1, n2, n3

MCPriority == [t \in {t1, t2} |-> IF t = t1 THEN 1 ELSE 0]
\* of its two pieces a torrent has one on the disk
OneGoodPiece == {{0}, {1}}
=============================================================================
