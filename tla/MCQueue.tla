------------------------------- MODULE MCQueue -------------------------------
(* The queues of a session with three torrents: t1 may be or become a seed,  *)
(* t2 may stall and t3 may lose its files.                                   *)
EXTENDS TorrentQueue
CONSTANTS t1, t2, t3

OneUpTwoDown == [up |-> {1}, down |-> {1, 2}]
Places == {-1, 3}
Pairs == {{t1, t2}}
=============================================================================
