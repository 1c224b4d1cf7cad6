----------------------------- MODULE QueueOrder -----------------------------
(* What the queue of a session promises to whoever looks at it: its members  *)
(* stand in a line.  A new member joins at the end, a member that leaves     *)
(* lets the others close up, and a move takes one member to another place    *)
(* while everybody else keeps standing as before.                            *)
CONSTANT Members
VARIABLES line, ahead

vars == <<line, ahead>>

(* Everybody in S stands ahead of everybody in T. *)
Ahead(S, T) == S \X T
Within(S) == ahead \cap (S \X S)

Init == line = {} /\ ahead = {}

Join(m) ==
    /\ m \notin line
    /\ line' = line \cup {m}
    /\ ahead' = ahead \cup Ahead(line, {m})

Leave(m) ==
    /\ m \in line
    /\ line' = line \ {m}
    /\ ahead' = Within(line \ {m})

(* m goes right behind the members of front, who stood ahead of all the rest. *)
Move(m, front) ==
    /\ m \in line
    /\ front \subseteq line \ {m}
    /\ \A a \in front : \A b \in line \ (front \cup {m}) : <<a, b>> \in ahead
    /\ line' = line
    /\ ahead' = Within(line \ {m}) \cup Ahead(front, {m})
                  \cup Ahead({m}, line \ (front \cup {m}))

Next ==
    \E m \in Members :
        Join(m) \/ Leave(m) \/ \E front \in SUBSET line : Move(m, front)

Spec == Init /\ [][Next]_vars
=============================================================================
