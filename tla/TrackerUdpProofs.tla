-------------------------- MODULE TrackerUdpProofs --------------------------
(***************************************************************************)
(* The safety properties of module TrackerUdp, for any number of requests  *)
(* and any values of the intervals, and that it keeps TrackerPromise.      *)
(*                                                                         *)
(* The functions of announcer-udp.c call each other, so the proof follows  *)
(* them: Sound(s) is what each of them needs of a tracker and leaves       *)
(* behind, and Moves(s, u) says that on the way from s to u no request     *)
(* went anywhere but forward.                                              *)
(***************************************************************************)
EXTENDS TrackerUdp, TLAPS

Live == {"waiting", "sent"}

\* A connection is made only when there is none and an address is looked up
\* only when there is none; the callbacks that were called are those of the
\* requests that are done.
Sound(s) ==
  /\ s \in Trackers
  /\ s.connecting => s.connLeft = 0
  /\ s.dns => ~s.addr
  /\ s.ok
  /\ \A r \in Callers : s.answers[r] = IF s.state[r] = "done" THEN 1 ELSE 0

\* What is not pending stays as it is, and what is pending goes on or ends.
Moves(s, u) ==
  \A r \in Callers : \/ u.state[r] = s.state[r]
                     \/ s.state[r] \in Live /\ u.state[r] \in Live \cup {"done"}

LEMMA MovesOn ==
  ASSUME NEW s, NEW u, NEW w, Moves(s, u), Moves(u, w)
  PROVE  Moves(s, w)
BY DEF Moves, Live

\* Ending requests that are pending.
LEMMA FinishIsSound ==
  ASSUME NEW s, Sound(s), NEW S \in SUBSET Pending(s)
  PROVE  /\ Sound(Finish(s, S)) /\ Moves(s, Finish(s, S))
         /\ Finish(s, S).connecting = s.connecting /\ Finish(s, S).connLeft = s.connLeft
         /\ Finish(s, S).dns = s.dns /\ Finish(s, S).addr = s.addr
<1> DEFINE u == Finish(s, S)
<1>1. s.state \in [Requests -> States] /\ s.answers \in [Callers -> {0, 1}] /\ Callers \subseteq Requests
  BY DEF Sound, Trackers, Callers
<1>2. /\ u.state = [r \in Requests |-> IF r \in S THEN "done" ELSE s.state[r]]
      /\ u.answers = [r \in Callers |-> IF r \in S THEN s.answers[r] + 1 ELSE s.answers[r]]
  BY DEF Sound, Trackers, Finish
<1>3. \A r \in S : r \in Requests /\ s.state[r] \in Live
  BY DEF Pending, Live
<1>4. \A r \in Callers : u.answers[r] = IF u.state[r] = "done" THEN 1 ELSE 0
  <2> SUFFICES ASSUME NEW r \in Callers
               PROVE  u.answers[r] = IF u.state[r] = "done" THEN 1 ELSE 0
    OBVIOUS
  <2>1. /\ u.state[r] = IF r \in S THEN "done" ELSE s.state[r]
        /\ u.answers[r] = IF r \in S THEN s.answers[r] + 1 ELSE s.answers[r]
    BY <1>1, <1>2
  <2>2. s.answers[r] = IF s.state[r] = "done" THEN 1 ELSE 0
    BY DEF Sound
  <2> QED
    BY <1>3, <2>1, <2>2 DEF Live
<1>5. u.state \in [Requests -> States] /\ u.answers \in [Callers -> {0, 1}]
  <2>1. u.state \in [Requests -> States]
    BY <1>1, <1>2 DEF States
  <2>2. \A r \in Callers : (IF r \in S THEN s.answers[r] + 1 ELSE s.answers[r]) \in {0, 1}
    BY <1>1, <1>2, <1>4
  <2> QED
    BY <2>1, <2>2, <1>2
<1>6. /\ u.connecting = s.connecting /\ u.connLeft = s.connLeft /\ u.dns = s.dns
      /\ u.addr = s.addr /\ u.ok = s.ok
  BY DEF Sound, Trackers, Finish
<1>7. u \in Trackers
  BY <1>5 DEF Sound, Trackers, Finish
<1>8. Moves(s, u)
  BY <1>1, <1>2, <1>3 DEF Moves, Live
<1> QED
  BY <1>4, <1>6, <1>7, <1>8 DEF Sound

LEMMA FailAllIsSound ==
  ASSUME NEW s, Sound(s)
  PROVE  Sound(FailAll(s)) /\ Moves(s, FailAll(s))
BY FinishIsSound DEF FailAll

\* A refused connection, and one that times out.
LEMMA RefusedIsSound ==
  ASSUME NEW s, Sound(s)
  PROVE  Sound(Refused(s)) /\ Moves(s, Refused(s))
<1> DEFINE c == [s EXCEPT !.connecting = FALSE]
<1>1. Sound(c) /\ c.state = s.state
  BY DEF Sound, Trackers
<1>2. Sound(FailAll(c)) /\ Moves(c, FailAll(c))
  BY <1>1, FailAllIsSound
<1> QED
  BY <1>1, <1>2 DEF Refused, Moves

LEMMA TimeoutIsSound ==
  ASSUME NEW s, Sound(s), NEW closing \in BOOLEAN
  PROVE  Sound(TimeoutReqs(s, closing)) /\ Moves(s, TimeoutReqs(s, closing))
<1> DEFINE c == IF s.connecting /\ s.connAge > REQUEST_TTL THEN Refused(s) ELSE s
           S == {r \in Pending(c) : c.age[r] > REQUEST_TTL \/ (closing /\ closeLeft = 0)}
<1>1. Sound(c) /\ Moves(s, c)
  BY RefusedIsSound DEF Moves
<1>2. Sound(Finish(c, S)) /\ Moves(c, Finish(c, S))
  BY <1>1, FinishIsSound
<1>3. TimeoutReqs(s, closing) = Finish(c, S)
  BY DEF TimeoutReqs
<1> QED
  BY <1>1, <1>2, <1>3, MovesOn

\* With an address and a connection the assertions of tau_tracker_send_reqs
\* hold.
LEMMA SendIsSound ==
  ASSUME NEW s, Sound(s), s.addr, s.connLeft > 0
  PROVE  Sound(SendReqs(s)) /\ Moves(s, SendReqs(s))
<1> DEFINE u == SendReqs(s)
<1>1. s.state \in [Requests -> States] /\ Callers \subseteq Requests
  BY DEF Sound, Trackers, Callers
<1>2. u.state = [r \in Requests |-> IF s.state[r] # "waiting" THEN s.state[r]
                                    ELSE IF r \in Silent THEN "done" ELSE "sent"]
  BY DEF Sound, Trackers, SendReqs
<1>3. u.state \in [Requests -> States]
  BY <1>1, <1>2 DEF States
<1>4. /\ u.connecting = s.connecting /\ u.connLeft = s.connLeft /\ u.dns = s.dns
      /\ u.addr = s.addr /\ u.answers = s.answers
      /\ u.ok = (s.ok /\ ~s.dns /\ ~s.connecting /\ s.addr /\ s.connLeft > 0)
  BY DEF Sound, Trackers, SendReqs
<1>5. ~s.dns /\ ~s.connecting
  BY DEF Sound, Trackers
<1>6. u.ok
  BY <1>4, <1>5 DEF Sound
<1>7. u \in Trackers
  BY <1>3, <1>4, <1>6 DEF Sound, Trackers, SendReqs
<1>8. \A r \in Callers : u.answers[r] = IF u.state[r] = "done" THEN 1 ELSE 0
  BY <1>1, <1>2, <1>4 DEF Sound, Callers
<1>9. Moves(s, u)
  BY <1>1, <1>2 DEF Moves, Live, Callers
<1> QED
  BY <1>4, <1>5, <1>6, <1>7, <1>8, <1>9 DEF Sound

LEMMA ServeIsSound ==
  ASSUME NEW s, Sound(s), NEW closing \in BOOLEAN, lag \in Nat
  PROVE  Sound(Serve(s, closing)) /\ Moves(s, Serve(s, closing))
<1>1. CASE NeedsConnection(s)
  BY <1>1 DEF Serve, NeedsConnection, Sound, Trackers, Moves
<1>2. CASE ~NeedsConnection(s)
  <2> DEFINE c == TimeoutReqs(s, closing)
  <2>1. Sound(c) /\ Moves(s, c)
    BY TimeoutIsSound
  <2>2. CASE c.addr /\ c.connLeft > 0
    <3>1. Sound(SendReqs(c)) /\ Moves(c, SendReqs(c))
      BY <2>1, <2>2, SendIsSound
    <3>2. Serve(s, closing) = SendReqs(c)
      BY <1>2, <2>2 DEF Serve
    <3> QED
      BY <2>1, <3>1, <3>2, MovesOn
  <2>3. CASE ~(c.addr /\ c.connLeft > 0)
    BY <1>2, <2>1, <2>3 DEF Serve
  <2> QED
    BY <2>2, <2>3
<1> QED
  BY <1>1, <1>2

LEMMA ResolvedIsSound ==
  ASSUME NEW s, Sound(s)
  PROVE  Sound(Resolved(s)) /\ Moves(s, Resolved(s))
<1>1. ADDRESS_TTL \in 0 .. ADDRESS_TTL
  BY TrackerUdpAssumption
<1> QED
  BY <1>1 DEF Sound, Trackers, Resolved, Moves

\* tau_tracker_upkeep keeps a tracker sound, whatever it finds to do.
LEMMA UpkeepIsSound ==
  ASSUME NEW s, Sound(s), NEW closing \in BOOLEAN, lag \in Nat,
         NEW u \in AfterUpkeep(s, closing)
  PROVE  Sound(u) /\ Moves(s, u)
<1> DEFINE e == IF s.addrLeft = 0 THEN [s EXCEPT !.addr = FALSE] ELSE s
<1>1. Sound(e) /\ e.state = s.state /\ Moves(s, e)
  BY DEF Sound, Trackers, Moves
<1>2. \/ u = e \/ u = FailAll(e) \/ u = Serve(e, closing)
      \/ ~e.addr /\ u = [e EXCEPT !.dns = TRUE]
      \/ u = Serve(Resolved(e), closing)
  BY DEF AfterUpkeep
<1>3. CASE u = e
  BY <1>1, <1>3
<1>4. CASE u = FailAll(e)
  BY <1>1, <1>4, FailAllIsSound, MovesOn
<1>5. CASE u = Serve(e, closing)
  BY <1>1, <1>5, ServeIsSound, MovesOn
<1>6. CASE ~e.addr /\ u = [e EXCEPT !.dns = TRUE]
  <2>1. Sound(u) /\ u.state = e.state
    BY <1>1, <1>6 DEF Sound, Trackers
  <2> QED
    BY <1>1, <2>1 DEF Moves
<1>7. CASE u = Serve(Resolved(e), closing)
  <2>1. Sound(Resolved(e)) /\ Moves(e, Resolved(e))
    BY <1>1, ResolvedIsSound
  <2>2. Sound(u) /\ Moves(Resolved(e), u)
    BY <1>7, <2>1, ServeIsSound
  <2> QED
    BY <1>1, <2>1, <2>2, MovesOn
<1> QED
  BY <1>2, <1>3, <1>4, <1>5, <1>6, <1>7

-----------------------------------------------------------------------------
UInv == TypeOK /\ Sound(t)

\* What a step that makes no request does to the tracker.
Goes == Sound(t') /\ Moves(t, t')

LEMMA AskIsSound ==
  ASSUME UInv, NEW r \in Requests, Ask(r)
  PROVE  /\ Sound(t') /\ t.state[r] = "none"
         /\ Moves([t EXCEPT !.state[r] = "waiting", !.age[r] = lag], t')
<1> DEFINE s == [t EXCEPT !.state[r] = "waiting", !.age[r] = lag]
<1>1. /\ t \in Trackers /\ lag \in Nat /\ t.state[r] = "none"
      /\ t' \in AfterUpkeep(s, FALSE)
  BY DEF UInv, TypeOK, Ask
<1>2. s.state = [t.state EXCEPT ![r] = "waiting"] /\ s.age = [t.age EXCEPT ![r] = lag]
  BY <1>1 DEF Trackers
<1>3. s.state \in [Requests -> States] /\ s.age \in [Requests -> Nat]
  BY <1>1, <1>2 DEF Trackers, States
<1>4. s \in Trackers
  BY <1>1, <1>3 DEF Trackers
<1>5. Sound(s)
  <2>1. \A q \in Callers : s.answers[q] = IF s.state[q] = "done" THEN 1 ELSE 0
    BY <1>1, <1>2 DEF UInv, Sound, Trackers, Callers
  <2> QED
    BY <1>1, <1>4, <2>1 DEF UInv, Sound, Trackers
<1> QED
  BY <1>1, <1>5, UpkeepIsSound

LEMMA TickIsSound ==
  ASSUME UInv, Tick
  PROVE  Goes
<1>1. \A a \in Nat : Older(a) \in Nat
  BY TrackerUdpAssumption DEF Older
<1>2. t \in Trackers
  BY DEF UInv, TypeOK
<1>3. /\ [r \in Requests |-> Older(t.age[r])] \in [Requests -> Nat]
      /\ Older(t.connAge) \in Nat
  BY <1>1, <1>2 DEF Trackers
<1>4. t' \in Trackers
  BY <1>2, <1>3 DEF Trackers, Tick
<1>5. /\ t'.state = t.state /\ t'.answers = t.answers /\ t'.ok = t.ok /\ t'.dns = t.dns
      /\ t'.addr = t.addr /\ t'.connecting = t.connecting /\ t'.connLeft = t.connLeft
  BY <1>2 DEF Trackers, Tick
<1> QED
  BY <1>4, <1>5 DEF UInv, Sound, Moves, Goes

LEMMA NowTimerIsSound ==
  ASSUME UInv, NowTimer
  PROVE  Goes
<1>1. t \in Trackers /\ lag \in Nat
  BY DEF UInv, TypeOK
<1>2. \A m \in Nat : \A n \in 0 .. m : Less(n, lag) \in 0 .. m /\ (n = 0 => Less(n, lag) = 0)
  BY <1>1 DEF Less
<1>3. /\ Less(t.addrLeft, lag) \in 0 .. ADDRESS_TTL
      /\ Less(t.connLeft, lag) \in 0 .. CONNECTION_TTL
      /\ t.connLeft = 0 => Less(t.connLeft, lag) = 0
  BY <1>1, <1>2, TrackerUdpAssumption DEF Trackers
<1>4. t' \in Trackers
  BY <1>1, <1>3 DEF Trackers, NowTimer
<1>5. /\ t'.state = t.state /\ t'.answers = t.answers /\ t'.ok = t.ok /\ t'.dns = t.dns
      /\ t'.addr = t.addr /\ t'.connecting = t.connecting
      /\ t'.connLeft = Less(t.connLeft, lag)
  BY <1>1 DEF Trackers, NowTimer
<1> QED
  BY <1>3, <1>4, <1>5 DEF UInv, Sound, Moves, Goes

LEMMA ConnectAnswerIsSound ==
  ASSUME UInv, NEW b \in BOOLEAN, ConnectAnswer(b)
  PROVE  Goes
<1> DEFINE a == [t EXCEPT !.connecting = FALSE, !.connLeft = CONNECTION_TTL]
           s == IF b THEN a ELSE Refused(t)
<1>1. t \in Trackers /\ Sound(t) /\ lag \in Nat /\ t' \in AfterUpkeep(s, FALSE)
  BY DEF UInv, TypeOK, ConnectAnswer
<1>2. CONNECTION_TTL \in 0 .. CONNECTION_TTL
  BY TrackerUdpAssumption
<1>3. Sound(a) /\ a.state = t.state
  BY <1>1, <1>2 DEF Sound, Trackers
<1>4. Sound(s) /\ Moves(t, s)
  BY <1>1, <1>3, RefusedIsSound DEF Moves
<1> QED
  BY <1>1, <1>4, UpkeepIsSound, MovesOn DEF Goes

LEMMA DnsDoneIsSound ==
  ASSUME UInv, NEW b \in BOOLEAN, DnsDone(b)
  PROVE  Goes
<1>1. t \in Trackers /\ Sound(t) /\ lag \in Nat
  BY DEF UInv, TypeOK
<1>2. CASE b
  <2>1. Sound(Resolved(t)) /\ Moves(t, Resolved(t)) /\ t' \in AfterUpkeep(Resolved(t), FALSE)
    BY <1>1, <1>2, ResolvedIsSound DEF DnsDone
  <2> QED
    BY <1>1, <2>1, UpkeepIsSound, MovesOn DEF Goes
<1>3. CASE ~b
  <2> DEFINE s == [t EXCEPT !.dns = FALSE]
  <2>1. Sound(s) /\ s.state = t.state /\ t' = FailAll(s)
    BY <1>1, <1>3 DEF Sound, Trackers, DnsDone
  <2>2. Moves(t, s)
    BY <2>1 DEF Moves
  <2> QED
    BY <2>1, <2>2, FailAllIsSound, MovesOn DEF Goes
<1> QED
  BY <1>2, <1>3

LEMMA AnswerIsSound ==
  ASSUME UInv, NEW r \in Requests, Answer(r)
  PROVE  Goes
<1>1. Sound(t) /\ {r} \in SUBSET Pending(t) /\ t' = Finish(t, {r})
  BY DEF UInv, Answer, Pending
<1> QED
  BY <1>1, FinishIsSound DEF Goes

LEMMA CloseIsSound ==
  ASSUME UInv, Close
  PROVE  Goes
<1>1. t' = [t EXCEPT !.dns = FALSE, !.addr = FALSE]
  BY DEF Close
<1> QED
  BY <1>1 DEF UInv, Sound, Trackers, Moves, Goes

\* Every step but the making of a request only moves requests forward.
LEMMA StepGoes ==
  ASSUME UInv, [Next]_vars
  PROVE  Goes \/ \E r \in Requests : Ask(r)
<1>0. Sound(t) /\ lag \in Nat
  BY DEF UInv, TypeOK
<1>1. CASE Upkeep
  BY <1>0, <1>1, UpkeepIsSound DEF Upkeep, Goes
<1>2. CASE StartShutdown
  BY <1>0, <1>2, UpkeepIsSound DEF StartShutdown, Goes
<1>3. CASE ClosingUpkeep
  BY <1>0, <1>3, UpkeepIsSound DEF ClosingUpkeep, Goes
<1>4. CASE UNCHANGED vars
  BY <1>0, <1>4 DEF vars, Goes, Moves
<1> QED
  BY <1>1, <1>2, <1>3, <1>4, TickIsSound, NowTimerIsSound, ConnectAnswerIsSound, DnsDoneIsSound,
     AnswerIsSound, CloseIsSound DEF Next

LEMMA InvInitially == Init => UInv
<1> SUFFICES ASSUME Init PROVE UInv
  OBVIOUS
<1>1. /\ 0 \in 0 .. ADDRESS_TTL /\ 0 \in 0 .. CONNECTION_TTL
      /\ 0 \in 0 .. CLOSE_TTL /\ CLOSE_TTL \in 0 .. CLOSE_TTL
  BY TrackerUdpAssumption
<1>2. Callers \subseteq Requests
  BY DEF Callers
<1>3. NoTracker \in Trackers
  BY <1>1 DEF NoTracker, Trackers, States
<1>4. Sound(NoTracker)
  BY <1>2, <1>3 DEF NoTracker, Sound
<1> QED
  BY <1>1, <1>3, <1>4 DEF Init, UInv, TypeOK

LEMMA InvStep == UInv /\ [Next]_vars => UInv'
<1> SUFFICES ASSUME UInv, [Next]_vars PROVE UInv'
  OBVIOUS
<1>1. Sound(t')
  BY StepGoes, AskIsSound DEF Goes
<1>2. t' \in Trackers
  BY <1>1 DEF Sound
<1>3. phase' \in {"open", "closing", "closed"}
  BY DEF UInv, TypeOK, Next, vars, Ask, Answer, Upkeep, DnsDone, ConnectAnswer, Tick, NowTimer,
         StartShutdown, ClosingUpkeep, Close
<1>4. lag \in Nat /\ closeLeft \in 0 .. CLOSE_TTL
  BY DEF UInv, TypeOK
<1>5. lag' \in Nat /\ closeLeft' \in 0 .. CLOSE_TTL
  <2>1. CASE Tick
    <3>1. Older(lag) \in Nat /\ Less(closeLeft, 1) \in 0 .. CLOSE_TTL
      BY <1>4, TrackerUdpAssumption DEF Older, Less
    <3> QED
      BY <1>4, <2>1, <3>1 DEF Tick
  <2>2. CASE NowTimer
    BY <1>4, <2>2 DEF NowTimer
  <2> QED
    BY <1>4, <2>1, <2>2
       DEF Next, vars, Ask, Answer, Upkeep, DnsDone, ConnectAnswer, StartShutdown,
           ClosingUpkeep, Close
<1> QED
  BY <1>1, <1>2, <1>3, <1>5 DEF UInv, TypeOK

\* In every reachable state the tracker is sound.
THEOREM TrackerIsSound == Spec => []UInv
BY InvInitially, InvStep, PTL DEF Spec

\* Every variable keeps its type; no callback is called twice.
THEOREM TrackerTypeCorrect == Spec => []TypeOK
<1>1. UInv => TypeOK
  BY DEF UInv
<1> QED
  BY <1>1, TrackerIsSound, PTL

\* The assertions of tau_tracker_send_reqs never fail (announcer-udp.c:540-543).
THEOREM SendAssertsHoldAlways == Spec => []SendAssertsHold
<1>1. UInv => SendAssertsHold
  BY DEF UInv, Sound, SendAssertsHold
<1> QED
  BY <1>1, TrackerIsSound, PTL

-----------------------------------------------------------------------------
\* A step that moves requests forward answers those that end.
LEMMA GoesIsAnswer ==
  ASSUME UInv, Goes
  PROVE  \E S \in SUBSET Callers : Promise!Answer(S)
<1> DEFINE S == {r \in Made : t'.state[r] = "done"}
<1>1. t \in Trackers /\ t' \in Trackers /\ Callers \subseteq Requests
  BY DEF UInv, Goes, Sound, Callers
<1>2. S \subseteq Made /\ S \in SUBSET Callers
  BY DEF Made
<1>3. Made' = Made \ S
  BY <1>1 DEF Made, Goes, Moves, Live, Trackers, States
<1>4. \A r \in Callers : t'.answers[r] = IF r \in S THEN t.answers[r] + 1 ELSE t.answers[r]
  BY <1>1 DEF Made, UInv, Goes, Sound, Moves, Live
<1>5. t'.answers = [r \in Callers |-> IF r \in S THEN t.answers[r] + 1 ELSE t.answers[r]]
  BY <1>1, <1>4 DEF Trackers
<1> QED
  BY <1>2, <1>3, <1>5 DEF Promise!Answer, Promise!Answered

\* So does the making of a request, which may be among them.
LEMMA AskIsAsk ==
  ASSUME UInv, NEW r \in Requests, Ask(r)
  PROVE  \E S \in SUBSET Callers : Promise!Answer(S) \/ \E c \in Callers : Promise!Ask(c, S)
<1> DEFINE s == [t EXCEPT !.state[r] = "waiting", !.age[r] = lag]
           M == IF r \in Callers THEN Made \cup {r} ELSE Made
           S == {c \in M : t'.state[c] = "done"}
<1>1. Sound(t') /\ Moves(s, t') /\ t.state[r] = "none"
  BY AskIsSound
<1>2. t \in Trackers /\ t' \in Trackers /\ Callers \subseteq Requests /\ Sound(t)
  BY <1>1 DEF UInv, Sound, Callers
<1>3. s.state = [t.state EXCEPT ![r] = "waiting"]
  BY <1>2 DEF Trackers
<1>4. M = {c \in Callers : s.state[c] \in Live}
  BY <1>1, <1>2, <1>3 DEF Made, Live, Trackers
<1>5. Made' = M \ S
  BY <1>1, <1>2, <1>4 DEF Made, Moves, Live
<1>6. \A c \in Callers : t'.answers[c] = IF c \in S THEN t.answers[c] + 1 ELSE t.answers[c]
  <2> SUFFICES ASSUME NEW c \in Callers
               PROVE  t'.answers[c] = IF c \in S THEN t.answers[c] + 1 ELSE t.answers[c]
    OBVIOUS
  <2>1. /\ t'.answers[c] = IF t'.state[c] = "done" THEN 1 ELSE 0
        /\ t.answers[c] = IF t.state[c] = "done" THEN 1 ELSE 0
    BY <1>1, <1>2 DEF Sound
  <2>2. s.state[c] = IF c = r THEN "waiting" ELSE t.state[c]
    BY <1>2, <1>3 DEF Trackers
  <2>3. c \in S <=> s.state[c] \in Live /\ t'.state[c] = "done"
    BY <1>4
  <2>4. \/ t'.state[c] = s.state[c]
        \/ s.state[c] \in Live /\ t'.state[c] \in Live \cup {"done"}
    BY <1>1 DEF Moves
  <2> QED
    BY <2>1, <2>2, <2>3, <2>4, <1>1 DEF Live
<1>7. t'.answers = [c \in Callers |-> IF c \in S THEN t.answers[c] + 1 ELSE t.answers[c]]
  BY <1>2, <1>6 DEF Trackers
<1>8. S \in SUBSET Callers /\ S \subseteq M
  BY DEF Made
<1>9. CASE r \in Callers
  <2>1. r \notin Made /\ t.answers[r] = 0
    BY <1>1, <1>2, <1>9 DEF Made, Sound
  <2>2. Promise!Ask(r, S)
    BY <1>5, <1>7, <1>8, <1>9, <2>1 DEF Promise!Ask, Promise!Answered
  <2> QED
    BY <1>8, <1>9, <2>2
<1>10. CASE r \notin Callers
  <2>1. Promise!Answer(S)
    BY <1>5, <1>7, <1>8, <1>10 DEF Promise!Answer, Promise!Answered
  <2> QED
    BY <1>8, <2>1
<1> QED
  BY <1>9, <1>10

\* The tracker keeps its promise to the announcer: every callback is called
\* once, after its request was made, through refusals, timeouts, failed lookups
\* and the end of the session.
THEOREM TrackerKeepsPromise == Spec => PromiseSpec
<1>1. Init => Promise!Init
  <2> SUFFICES ASSUME Init PROVE Promise!Init
    OBVIOUS
  <2>1. t = NoTracker /\ Callers \subseteq Requests
    BY DEF Init, Callers
  <2>2. \A r \in Callers : t.state[r] = "none"
    BY <2>1 DEF NoTracker
  <2> QED
    BY <2>1, <2>2 DEF NoTracker, Promise!Init, Made
<1>2. UInv /\ [Next]_vars => Promise!Next
  BY StepGoes, GoesIsAnswer, AskIsAsk DEF Promise!Next
<1>3. UInv /\ [Next]_vars => [Promise!Next]_<<Made, t.answers>>
  BY <1>2
<1> QED
  BY <1>1, <1>3, TrackerIsSound, PTL DEF Spec, PromiseSpec, Promise!Spec

-----------------------------------------------------------------------------
(* What EveryRequestEnds rests on.                                         *)

\* The requests that tau_tracker_timeout_reqs looks for.
Overdue(s, closing) ==
  {r \in Pending(s) : s.age[r] > REQUEST_TTL \/ (closing /\ closeLeft = 0)}

LEMMA FinishEnds ==
  ASSUME NEW s, s \in Trackers, NEW S, NEW r \in Requests, r \in S \/ s.state[r] = "done"
  PROVE  Finish(s, S).state[r] = "done"
BY DEF Finish, Trackers

LEMMA TimeoutEnds ==
  ASSUME NEW s, Sound(s), NEW closing \in BOOLEAN, NEW r \in Overdue(s, closing)
  PROVE  TimeoutReqs(s, closing).state[r] = "done"
<1>1. r \in Requests /\ s \in Trackers
  BY DEF Overdue, Pending, Sound
<1>2. CASE s.connecting /\ s.connAge > REQUEST_TTL
  <2> DEFINE off == [s EXCEPT !.connecting = FALSE]
             c == Refused(s)
  <2>1. off \in Trackers /\ r \in Pending(off)
    BY <1>1 DEF Trackers, Overdue, Pending
  <2>2. c.state[r] = "done"
    BY <1>1, <2>1, FinishEnds DEF Refused, FailAll
  <2>3. c \in Trackers
    BY RefusedIsSound DEF Sound
  <2>4. TimeoutReqs(s, closing) =
          Finish(c, {q \in Pending(c) : c.age[q] > REQUEST_TTL \/ (closing /\ closeLeft = 0)})
    BY <1>2 DEF TimeoutReqs
  <2> QED
    BY <1>1, <2>2, <2>3, <2>4, FinishEnds
<1>3. CASE ~(s.connecting /\ s.connAge > REQUEST_TTL)
  <2>1. TimeoutReqs(s, closing) = Finish(s, Overdue(s, closing))
    BY <1>3 DEF TimeoutReqs, Overdue
  <2> QED
    BY <1>1, <2>1, FinishEnds
<1> QED
  BY <1>2, <1>3

\* The end of the upkeep ends what is overdue, or turns to the connection first.
LEMMA ServeEnds ==
  ASSUME NEW s, Sound(s), NEW closing \in BOOLEAN, NEW r \in Overdue(s, closing)
  PROVE  \/ Serve(s, closing).state[r] = "done"
         \/ Serve(s, closing).connecting /\ ~s.connecting
<1>1. CASE NeedsConnection(s)
  BY <1>1 DEF Serve, NeedsConnection, Sound, Trackers
<1>2. CASE ~NeedsConnection(s)
  <2> DEFINE c == TimeoutReqs(s, closing)
  <2>1. c.state[r] = "done" /\ c \in Trackers /\ r \in Requests
    BY TimeoutEnds, TimeoutIsSound DEF Sound, Overdue, Pending
  <2>2. SendReqs(c).state[r] = "done"
    BY <2>1 DEF SendReqs, Trackers
  <2>3. Serve(s, closing) = IF c.addr /\ c.connLeft > 0 THEN SendReqs(c) ELSE c
    BY <1>2 DEF Serve
  <2> QED
    BY <2>1, <2>2, <2>3
<1> QED
  BY <1>1, <1>2

LEMMA UpkeepEnds ==
  ASSUME NEW s, Sound(s), NEW closing \in BOOLEAN, NEW r \in Overdue(s, closing),
         NEW u \in AfterUpkeep(s, closing)
  PROVE  u.state[r] = "done" \/ (u.dns /\ ~s.dns) \/ (u.connecting /\ ~s.connecting)
<1> DEFINE e == IF s.addrLeft = 0 THEN [s EXCEPT !.addr = FALSE] ELSE s
<1>1. /\ Sound(e) /\ e.connecting = s.connecting /\ e.dns = s.dns
      /\ e.state = s.state /\ e.age = s.age
  BY DEF Sound, Trackers
<1>2. r \in Overdue(e, closing) /\ r \in Pending(e) /\ r \in Requests
  BY <1>1 DEF Overdue, Pending
<1>3. ~Idle(e)
  BY <1>2 DEF Idle
<1>4. \/ ~e.dns /\ u = [e EXCEPT !.dns = TRUE]
      \/ u = FailAll(e)
      \/ u = Serve(Resolved(e), closing)
      \/ u = Serve(e, closing)
  BY <1>3 DEF AfterUpkeep
<1>5. CASE ~e.dns /\ u = [e EXCEPT !.dns = TRUE]
  BY <1>1, <1>5 DEF Sound, Trackers
<1>6. CASE u = FailAll(e)
  BY <1>1, <1>2, <1>6, FinishEnds DEF FailAll, Sound
<1>7. CASE u = Serve(Resolved(e), closing)
  <2>1. Sound(Resolved(e))
    BY <1>1, ResolvedIsSound
  <2>2. r \in Overdue(Resolved(e), closing) /\ Resolved(e).connecting = e.connecting
    BY <1>1, <1>2 DEF Overdue, Pending, Resolved, Sound, Trackers
  <2> QED
    BY <1>1, <1>7, <2>1, <2>2, ServeEnds
<1>8. CASE u = Serve(e, closing)
  BY <1>1, <1>2, <1>8, ServeEnds
<1> QED
  BY <1>4, <1>5, <1>6, <1>7, <1>8

\* An upkeep that finds a request overdue ends it, unless it is the one that
\* has to begin a lookup or a connection; the next one will find those begun,
\* and ends the request though neither of them is ever answered.  Once the
\* session has waited for long enough, every request is overdue.
OverdueIsEnded ==
  [][/\ Upkeep => \A r \in Overdue(t, FALSE) :
          t'.state[r] = "done" \/ (t'.dns /\ ~t.dns) \/ (t'.connecting /\ ~t.connecting)
     /\ StartShutdown \/ ClosingUpkeep => \A r \in Overdue(t, TRUE) :
          t'.state[r] = "done" \/ (t'.dns /\ ~t.dns) \/ (t'.connecting /\ ~t.connecting)]_vars

\* However the functions of one upkeep call each other, the loop that looks at
\* the ages is reached, or the tracker is a step further towards it.
THEOREM OverdueIsEndedHolds == Spec => OverdueIsEnded
<1> DEFINE Ended(closing) ==
      \A r \in Overdue(t, closing) :
        t'.state[r] = "done" \/ (t'.dns /\ ~t.dns) \/ (t'.connecting /\ ~t.connecting)
<1>1. UInv => (Upkeep => Ended(FALSE)) /\ (StartShutdown \/ ClosingUpkeep => Ended(TRUE))
  BY UpkeepEnds DEF UInv, Upkeep, StartShutdown, ClosingUpkeep
<1>2. UInv => [(Upkeep => Ended(FALSE)) /\ (StartShutdown \/ ClosingUpkeep => Ended(TRUE))]_vars
  BY <1>1
<1> QED
  BY <1>2, TrackerIsSound, PTL DEF OverdueIsEnded
=============================================================================
