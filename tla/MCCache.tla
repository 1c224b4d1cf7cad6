------------------------------ MODULE MCCache ------------------------------
(* Torrents with a piece of one block and a piece of two, or of two pieces *)
(* with one block each.                                                    *)
EXTENDS Cache, TLC

CONSTANTS t1, t2

OneAndTwo == [b \in 0 .. 2 |-> (b + 1) \div 2]
OneByOne == [b \in 0 .. 1 |-> b]

\* a file that ends inside the second piece, and one that starts there
TwoFiles == [i \in {0, 1} |-> IF i = 0 THEN [first |-> 0, last |-> 1] ELSE [first |-> 1, last |-> 2]]
OneFile == [i \in {0} |-> [first |-> 0, last |-> BlockCount - 1]]

Symmetric == Permutations(Torrents)
=============================================================================
