----------------------------- MODULE TrackerUdp -----------------------------
(***************************************************************************)
(* One UDP tracker of libtransmission/announcer-udp.c: the lookup of its   *)
(* address, the connection that every request needs, the requests that     *)
(* wait, are sent, answered, refused or time out, and the loop at the end  *)
(* of sessionCloseImpl that waits until no request is left.                *)
(*                                                                         *)
(* Two clocks tell the time: tr_time(), which the session's timer sets     *)
(* every second and which stands still once the session closes, and        *)
(* time(NULL).  lag is the difference.  What is compared with tr_time() is *)
(* kept as the time that is left of it, what is compared with time(NULL)   *)
(* as an age.  A datagram that is lost, or that comes twice or too late,   *)
(* matches no transaction id and changes nothing.                          *)
(***************************************************************************)
EXTENDS Integers

CONSTANTS Requests,        \* announces and scrapes
          Silent,          \* those without a callback: the "stopped" of removed torrents
          REQUEST_TTL,     \* TAU_REQUEST_TTL
          CONNECTION_TTL,  \* TAU_CONNECTION_TTL_SECS
          ADDRESS_TTL,     \* an hour
          CLOSE_TTL,       \* what tr_tracker_udp_start_shutdown allows
          MaxLag           \* the delay of the timer that sets tr_time()

ASSUME TrackerUdpAssumption ==
  /\ Silent \subseteq Requests
  /\ REQUEST_TTL \in Nat \ {0} /\ CONNECTION_TTL \in Nat \ {0}
  /\ ADDRESS_TTL \in Nat \ {0} /\ CLOSE_TTL \in Nat
  /\ MaxLag \in Nat

Callers == Requests \ Silent

VARIABLES
  phase,     \* "open", "closing", or "closed"
  t,         \* the tau_tracker
  closeLeft, \* tracker->close_at - time(NULL), 0 when it has passed
  lag        \* time(NULL) - tr_time()

vars == <<phase, t, closeLeft, lag>>

\* A request is "none" before it is made and "done" when it has been freed.
States == {"none", "waiting", "sent", "done"}

\* The fields of t:  state and age of each request, dns (a lookup is pending),
\* addr and addrLeft, connecting and connAge, connLeft, and, as history,
\* answers (calls of each callback) and ok (the assertions of
\* tau_tracker_send_reqs have held).
NoTracker ==
  [state |-> [r \in Requests |-> "none"], age |-> [r \in Requests |-> 0],
   dns |-> FALSE, addr |-> FALSE, addrLeft |-> 0,
   connecting |-> FALSE, connAge |-> 0, connLeft |-> 0,
   answers |-> [r \in Callers |-> 0], ok |-> TRUE]

Init ==
  /\ phase = "open"
  /\ t = NoTracker
  /\ closeLeft = CLOSE_TTL
  /\ lag = 0

-----------------------------------------------------------------------------
(* What the functions make of a tracker.                                   *)

Pending(s) == {r \in Requests : s.state[r] \in {"waiting", "sent"}}
Idle(s) == Pending(s) = {}

\* The requests S are answered, if they have a callback, and freed.
Finish(s, S) ==
  [s EXCEPT !.state = [r \in Requests |-> IF r \in S THEN "done" ELSE s.state[r]],
            !.answers = [r \in Callers |-> IF r \in S THEN s.answers[r] + 1 ELSE s.answers[r]]]

\* Mutant: the lists are not emptied after their requests failed.
FailAllAgain(s) == Finish(s, {r \in Requests : s.state[r] # "none"})

\* tau_tracker_fail_all
FailAll(s) == Finish(s, Pending(s))

\* tau_tracker_send_reqs, with its assertions; what has no callback is freed.
SendReqs(s) ==
  [s EXCEPT
    !.state = [r \in Requests |-> IF s.state[r] # "waiting" THEN s.state[r]
                                  ELSE IF r \in Silent THEN "done" ELSE "sent"],
    !.ok = @ /\ ~s.dns /\ ~s.connecting /\ s.addr /\ s.connLeft > 0]

\* on_tracker_connection_response to an error; its upkeep finds nothing to do.
Refused(s) == FailAll([s EXCEPT !.connecting = FALSE])

\* tau_tracker_timeout_reqs
TimeoutReqs(s, closing) ==
  LET c == IF s.connecting /\ s.connAge > REQUEST_TTL THEN Refused(s) ELSE s
  IN Finish(c, {r \in Pending(c) : c.age[r] > REQUEST_TTL \/ (closing /\ closeLeft = 0)})

NeedsConnection(s) == s.addr /\ s.connLeft = 0 /\ ~s.connecting

\* Mutant: nothing times out before the tracker is connected.
ServeConnected(s, closing) ==
  IF NeedsConnection(s) THEN [s EXCEPT !.connecting = TRUE, !.connAge = lag]
  ELSE IF s.addr /\ s.connLeft > 0 THEN SendReqs(TimeoutReqs(s, closing)) ELSE s

\* the end of tau_tracker_upkeep: connect, or else time out and send
Serve(s, closing) ==
  IF NeedsConnection(s) THEN [s EXCEPT !.connecting = TRUE, !.connAge = lag]
  ELSE LET c == TimeoutReqs(s, closing)
       IN IF c.addr /\ c.connLeft > 0 THEN SendReqs(c) ELSE c

\* tau_tracker_on_dns, of a lookup that found the address
Resolved(s) == [s EXCEPT !.dns = FALSE, !.addr = TRUE, !.addrLeft = ADDRESS_TTL]

\* tau_tracker_upkeep.  evdns_getaddrinfo may call back before it returns.
AfterUpkeep(s, closing) ==
  LET e == IF s.addrLeft = 0 THEN [s EXCEPT !.addr = FALSE] ELSE s
  IN IF Idle(e) THEN {e}
     ELSE IF ~e.addr /\ ~e.dns
          THEN {[e EXCEPT !.dns = TRUE], FailAll(e), Serve(Resolved(e), closing)}
          ELSE {Serve(e, closing)}

-----------------------------------------------------------------------------
(* The open session.                                                       *)

\* tr_tracker_udp_announce and tr_tracker_udp_scrape
Ask(r) ==
  /\ phase = "open"
  /\ t.state[r] = "none"
  /\ t' \in AfterUpkeep([t EXCEPT !.state[r] = "waiting", !.age[r] = lag], FALSE)
  /\ UNCHANGED <<phase, closeLeft, lag>>

\* tr_tracker_udp_upkeep, from the announcer's timer
Upkeep ==
  /\ phase = "open"
  /\ t' \in AfterUpkeep(t, FALSE)
  /\ UNCHANGED <<phase, closeLeft, lag>>

\* tau_tracker_on_dns
DnsDone(found) ==
  /\ phase = "open"
  /\ t.dns
  /\ IF found THEN t' \in AfterUpkeep(Resolved(t), FALSE)
              ELSE t' = FailAll([t EXCEPT !.dns = FALSE])
  /\ UNCHANGED <<phase, closeLeft, lag>>

\* Mutant: the connection is still marked as being made.
StaysConnecting(accepted) ==
  /\ phase = "open"
  /\ t.connecting
  /\ t' \in AfterUpkeep(IF accepted THEN [t EXCEPT !.connLeft = CONNECTION_TTL]
                        ELSE Refused(t), FALSE)
  /\ UNCHANGED <<phase, closeLeft, lag>>

\* tau_handle_message of the answer to a connect: on_tracker_connection_response
ConnectAnswer(accepted) ==
  /\ phase = "open"
  /\ t.connecting
  /\ t' \in AfterUpkeep(IF accepted
                        THEN [t EXCEPT !.connecting = FALSE, !.connLeft = CONNECTION_TTL]
                        ELSE Refused(t), FALSE)
  /\ UNCHANGED <<phase, closeLeft, lag>>

\* Mutant: the request is left in its list.
AnswerAgain(r) ==
  /\ phase = "open"
  /\ t.state[r] = "sent"
  /\ t' = [t EXCEPT !.answers[r] = @ + 1]
  /\ UNCHANGED <<phase, closeLeft, lag>>

\* tau_handle_message of the answer to a request
Answer(r) ==
  /\ phase = "open"
  /\ t.state[r] = "sent"
  /\ t' = Finish(t, {r})
  /\ UNCHANGED <<phase, closeLeft, lag>>

-----------------------------------------------------------------------------
(* Time.                                                                   *)

Older(a) == IF a > REQUEST_TTL THEN a ELSE a + 1
Less(n, d) == IF n <= d THEN 0 ELSE n - d

\* A second passes; while the session is open its timer keeps up.
Tick ==
  /\ phase # "closed"
  /\ phase = "open" => lag < MaxLag
  /\ t' = [t EXCEPT !.age = [r \in Requests |-> Older(t.age[r])], !.connAge = Older(@)]
  /\ lag' = Older(lag)
  /\ closeLeft' = IF phase = "closing" THEN Less(closeLeft, 1) ELSE closeLeft
  /\ UNCHANGED phase

\* onNowTimer: tr_time() is set.
NowTimer ==
  /\ phase = "open"
  /\ lag > 0
  /\ t' = [t EXCEPT !.addrLeft = Less(@, lag), !.connLeft = Less(@, lag)]
  /\ lag' = 0
  /\ UNCHANGED <<phase, closeLeft>>

-----------------------------------------------------------------------------
(* The end of the session.  No event is handled any more: sessionCloseImpl *)
(* runs in the event thread.                                               *)

\* tr_tracker_udp_start_shutdown, from tr_announcerClose
StartShutdown ==
  /\ phase = "open"
  /\ phase' = "closing"
  /\ t' \in AfterUpkeep(t, TRUE)
  /\ UNCHANGED <<closeLeft, lag>>

\* the loop of sessionCloseImpl
ClosingUpkeep ==
  /\ phase = "closing"
  /\ ~Idle(t)
  /\ t' \in AfterUpkeep(t, TRUE)
  /\ UNCHANGED <<phase, closeLeft, lag>>

\* tr_tracker_udp_close, as soon as tr_tracker_udp_is_idle: the tracker is freed.
Close ==
  /\ phase = "closing"
  /\ Idle(t)
  /\ phase' = "closed"
  /\ t' = [t EXCEPT !.dns = FALSE, !.addr = FALSE]
  /\ UNCHANGED <<closeLeft, lag>>

Next ==
  \/ \E r \in Requests : Ask(r) \/ Answer(r)
  \/ Upkeep
  \/ \E b \in BOOLEAN : DnsDone(b) \/ ConnectAnswer(b)
  \/ Tick \/ NowTimer
  \/ StartShutdown \/ ClosingUpkeep \/ Close

Spec == Init /\ [][Next]_vars

\* Time passes, the timers of the session run, and so does the closing loop.
\* Neither the resolver nor the tracker has to answer.
Fairness ==
  /\ WF_vars(Tick) /\ WF_vars(NowTimer)
  /\ WF_vars(Upkeep) /\ WF_vars(ClosingUpkeep) /\ WF_vars(Close)

FairSpec == Spec /\ Fairness

-----------------------------------------------------------------------------
(* Properties.                                                             *)

Trackers ==
  [state : [Requests -> States], age : [Requests -> Nat],
   dns : BOOLEAN, addr : BOOLEAN, addrLeft : 0 .. ADDRESS_TTL,
   connecting : BOOLEAN, connAge : Nat, connLeft : 0 .. CONNECTION_TTL,
   answers : [Callers -> {0, 1}], ok : BOOLEAN]

TypeOK ==
  /\ phase \in {"open", "closing", "closed"}
  /\ t \in Trackers
  /\ closeLeft \in 0 .. CLOSE_TTL
  /\ lag \in Nat

\* The assertions of tau_tracker_send_reqs hold whenever it is called: no
\* request is sent while an address is looked up or a connection is made, nor
\* with an id that has expired (announcer-udp.c:540-543).
SendAssertsHold == t.ok

\* The callback of every request is called once, and only when it was made,
\* through refused and late connections, failed lookups, timeouts and the end
\* of the session: the announcer gets its slots back (announcer.c:1020).
Made == {r \in Callers : t.state[r] \in {"waiting", "sent"}}
Promise == INSTANCE TrackerPromise WITH pending <- Made, answers <- t.answers
PromiseSpec == Promise!Spec

\* Nobody but the clock has to do anything for a request to be answered in
\* the end, not even when the session is closed meanwhile.
EveryRequestEnds ==
  \A r \in Requests : r \in Pending(t) ~> t.state[r] = "done"
=============================================================================
