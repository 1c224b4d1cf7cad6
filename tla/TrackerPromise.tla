--------------------------- MODULE TrackerPromise ---------------------------
(***************************************************************************)
(* What the announcer relies on of the code that talks to trackers: the    *)
(* callback of a request is called once, after the request was made.  One  *)
(* event may answer several requests, and a request may be made and fail,  *)
(* or make others fail, before the call that makes it returns.             *)
(***************************************************************************)
EXTENDS Naturals

CONSTANT Callers    \* the requests that have a callback

VARIABLES pending,  \* the requests that have been made and not answered
          answers   \* how often the callback of each request was called

Init == pending = {} /\ answers = [r \in Callers |-> 0]

Answered(S) ==
  answers' = [r \in Callers |-> IF r \in S THEN answers[r] + 1 ELSE answers[r]]

Answer(S) ==
  /\ S \subseteq pending
  /\ pending' = pending \ S
  /\ Answered(S)

Ask(r, S) ==
  /\ r \notin pending /\ answers[r] = 0
  /\ S \subseteq pending \cup {r}
  /\ pending' = (pending \cup {r}) \ S
  /\ Answered(S)

Next == \E S \in SUBSET Callers : Answer(S) \/ \E r \in Callers : Ask(r, S)

Spec == Init /\ [][Next]_<<pending, answers>>
=============================================================================
