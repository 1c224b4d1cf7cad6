-------------------------- MODULE TorrentLifecycle --------------------------
(***************************************************************************)
(* Starting, stopping, verifying and removing torrents: libtransmission/   *)
(* torrent.c over the verify thread of module Verify and the event pipe of *)
(* trevent.c.                                                              *)
(*                                                                         *)
(* Three threads take part.  The event thread runs every handler; an RPC   *)
(* request and a timer are handlers too.  A client thread (a GUI that      *)
(* links the library) calls the tr_torrent*() functions directly, which    *)
(* change some flags in place and send the rest through the pipe.  The     *)
(* verify thread sends its callback through the same pipe.                 *)
(*                                                                         *)
(* A handler holds the session lock from its start to its end, except      *)
(* that a stopTorrent() which came through the pipe has released it when   *)
(* it calls tr_torrentVerify; a client's critical section is one step.     *)
(* The pipe never fills up and the session is not closed here, and the     *)
(* download queues are disabled (module TorrentQueue has them).            *)
(***************************************************************************)
EXTENDS Verify, Sequences

CONSTANTS ClientCalls,  \* the calls the client thread makes, as <<call, torrent>>
          RpcCalls,     \* the requests RPC clients send, likewise
          MaxCalls      \* bound: calls made by the client and over RPC

CallNames == {"start", "stop", "verify", "remove"}
ASSUME CallsAssumption ==
  /\ ClientCalls \subseteq CallNames \X Torrents
  /\ RpcCalls \subseteq CallNames \X Torrents
  /\ MaxCalls \in Nat

VARIABLES
  pipe,              \* the tr_run_data written to the pipe and not yet read
  isRunning,         \* tor->isRunning
  isStopping,        \* tor->isStopping
  startAfterVerify,  \* tor->startAfterVerify
  startAfter,        \* verifyTorrent's local of that name, during its inline stop
  hasMetadata,       \* tr_torrentHasMetadata
  swarm,             \* tor->swarm->isRunning: peers and announcer are active
  client,            \* where the client thread is
  asked,             \* the last start, stop or remove asked for; none follows a remove
  overtaken,         \* history: the torrents started between a stop and its handler
  calls              \* calls made so far, against MaxCalls

flagVars == <<isRunning, isStopping, startAfterVerify, startAfter, hasMetadata, swarm, overtaken>>
askVars == <<client, asked, calls>>
lvars == <<vars, pipe, flagVars, askVars>>

ClientIdle == [pc |-> "idle", tor |-> None]

LInit ==
  /\ Init
  /\ \A t \in Magnets : have[t] = {} /\ disk[t] = {}
  /\ pipe = <<>>
  /\ isRunning \in [Torrents -> BOOLEAN]
  /\ isStopping = [t \in Torrents |-> FALSE]
  /\ startAfterVerify = [t \in Torrents |-> FALSE]
  /\ startAfter = FALSE
  /\ \A t \in Torrents : ~magnetVerify[t]
  /\ hasMetadata = [t \in Torrents |-> t \notin Magnets]
  /\ swarm = isRunning
  /\ overtaken = {}
  /\ client = ClientIdle
  /\ asked = [t \in Torrents |-> IF isRunning[t] THEN "start" ELSE "stop"]
  /\ calls = 0

SessionLocked == ev # Idle /\ ~(ev.phase = "call" /\ ev.caller = "loop")

Set(f, t, b) == [f EXCEPT ![t] = b]

\* tr_runInEventThread from another thread; the event thread calls directly
Message(fn, t, aborted) == [fn |-> fn, tor |-> t, aborted |-> aborted]
Post(fn, t) == pipe' = Append(pipe, Message(fn, t, FALSE))

InPipe(fns, t) == \E i \in DOMAIN pipe : pipe[i].fn \in fns /\ pipe[i].tor = t

-----------------------------------------------------------------------------
(* The verify thread, with the callback onVerifyDone().                    *)

LThread ==
  \/ /\ ThreadTake \/ ThreadEnd \/ ScanBegin \/ ScanPiece \/ ScanEnd
     /\ UNCHANGED <<pipe, flagVars, askVars>>
  \/ /\ ScanReport
     /\ pipe' = Append(pipe, Message("onVerifyDone", current, stopCurrent))
     /\ UNCHANGED <<flagVars, askVars>>

-----------------------------------------------------------------------------
(* The event thread.                                                       *)

\* history: a start in the event thread overtakes the stop that a client posted
Overtakes(t) == overtaken' = IF InPipe({"stopTorrent"}, t) THEN overtaken \cup {t} ELSE overtaken

\* Mutant: a torrent that is being verified is started at once.
TorrentStartAnyway(t, saf) ==
  /\ startAfterVerify' = saf
  /\ isRunning' = Set(isRunning, t, TRUE)
  /\ swarm' = Set(swarm, t, TRUE)
  /\ Overtakes(t)

\* torrentStart() called in the event thread, where torrentStartImpl() runs
\* inline; saf is startAfterVerify as the caller leaves it.
TorrentStart(t, saf) ==
  \/ /\ verifyState[t] # "none"
     /\ startAfterVerify' = Set(saf, t, TRUE)
     /\ UNCHANGED <<isRunning, swarm, overtaken>>
  \/ /\ verifyState[t] = "none"
     /\ isRunning[t] \/ FilesGone(t)
     /\ startAfterVerify' = saf
     /\ UNCHANGED <<isRunning, swarm, overtaken>>
  \/ /\ verifyState[t] = "none"
     /\ ~isRunning[t]
     /\ isRunning' = Set(isRunning, t, TRUE)
     /\ swarm' = Set(swarm, t, TRUE)
     /\ startAfterVerify' = saf
     /\ Overtakes(t)

\* torrentStartImpl(), when it comes through the pipe
StartImpl(t) ==
  /\ isRunning' = Set(isRunning, t, TRUE)
  /\ swarm' = Set(swarm, t, TRUE)
  /\ Overtakes(t)
  /\ UNCHANGED <<vars, isStopping, startAfterVerify, startAfter, hasMetadata>>

\* onVerifyDoneThreadFunc()
OnVerifyDone(t, aborted) ==
  /\ IF ~aborted /\ startAfterVerify[t]
     THEN TorrentStart(t, Set(startAfterVerify, t, FALSE))
     ELSE UNCHANGED <<startAfterVerify, isRunning, swarm, overtaken>>
  /\ UNCHANGED <<vars, isStopping, startAfter, hasMetadata>>

\* readFromPipe(): take the next message and run it.  A message about a freed
\* torrent would work on freed memory; the model drops it.
ReadFromPipe ==
  /\ ev = Idle
  /\ pipe # <<>>
  /\ pipe' = Tail(pipe)
  /\ LET m == Head(pipe) IN
     \/ m.tor \in freed /\ UNCHANGED <<vars, flagVars>>
     \/ /\ m.tor \notin freed
        /\ \/ m.fn = "torrentStartImpl" /\ StartImpl(m.tor)
           \/ m.fn = "onVerifyDone" /\ OnVerifyDone(m.tor, m.aborted)
           \/ m.fn = "stopTorrent" /\ CallStop(m.tor, "loop") /\ UNCHANGED flagVars
           \/ m.fn = "verifyTorrent" /\ CallVerify(m.tor) /\ UNCHANGED flagVars
           \/ m.fn = "removeTorrent" /\ CallRemove(m.tor) /\ UNCHANGED flagVars
  /\ UNCHANGED askVars

\* tr_verifyRemove, waiting in its loop or called from a nested handler
InRemove == (RemoveReturn \/ NestedCall) /\ UNCHANGED <<pipe, flagVars, askVars>>

\* Mutant: tr_peerMgrStopTorrent and tr_announcerTorrentStopped are not called.
StopTorrentForgetsSwarm == Stopped /\ UNCHANGED <<pipe, flagVars, askVars>>

\* stopTorrent() after tr_verifyRemove: the peers and the announcer are stopped.
StopTorrent ==
  /\ Stopped
  /\ swarm' = Set(swarm, ev.tor, FALSE)
  /\ UNCHANGED <<pipe, isRunning, isStopping, startAfterVerify, startAfter, hasMetadata,
                 overtaken, askVars>>

\* closeTorrent() after the tr_verifyRemove of its stopTorrent(), and freeTorrent()
CloseTorrent ==
  /\ Freed
  /\ swarm' = Set(swarm, ev.tor, FALSE)
  /\ isRunning' = Set(isRunning, ev.tor, FALSE)
  /\ UNCHANGED <<pipe, isStopping, startAfterVerify, startAfter, hasMetadata, overtaken, askVars>>

\* Mutant: a start that was put off until after the scan is forgotten.
StartAfterIfRunning(t) == isRunning[t] /\ ~isStopping[t]

\* verifyTorrent()'s startAfter: is the torrent to be started after the scan?
StartAfter(t) == (isRunning[t] \/ startAfterVerify[t]) /\ ~isStopping[t]

\* verifyTorrent() after tr_verifyRemove, of a running torrent: tr_torrentStop.
\* The handler has cleared isRunning and keeps the lock, so that no second one of
\* this torrent gets here before the first one is done.
VerifyStopsFirst ==
  /\ StopFirst
  /\ isRunning[ev.tor]
  /\ startAfter' = StartAfter(ev.tor)
  /\ isRunning' = Set(isRunning, ev.tor, FALSE)
  /\ isStopping' = Set(isStopping, ev.tor, FALSE)
  /\ UNCHANGED <<pipe, startAfterVerify, hasMetadata, swarm, overtaken, askVars>>

\* The rest of verifyTorrent(), of a torrent that did not run or is stopped now.
VerifyTorrent ==
  /\ ev.phase = "after" => ~isRunning[ev.tor]
  /\ LET start == IF ev.phase = "add" THEN startAfter ELSE StartAfter(ev.tor)
     IN \/ AddScan /\ startAfterVerify' = Set(startAfterVerify, ev.tor, start)
        \/ GiveUp /\ startAfterVerify' = Set(startAfterVerify, ev.tor, FALSE)
  /\ startAfter' = (startAfter /\ ev.phase # "add")
  /\ UNCHANGED <<pipe, isRunning, isStopping, hasMetadata, swarm, overtaken, askVars>>

\* Mutant: the torrent's isRunning flag is not cleared.
BandwidthPulseLeavesRunning(t) ==
  /\ ev = Idle
  /\ t \in Live /\ isStopping[t]
  /\ isStopping' = Set(isStopping, t, FALSE)
  /\ CallStop(t, "bandwidthPulse")
  /\ UNCHANGED <<pipe, isRunning, startAfterVerify, startAfter, hasMetadata, swarm,
                 overtaken, askVars>>

\* bandwidthPulse() stops a torrent that is ready to stop: tr_torrentStop, inline
BandwidthPulse(t) ==
  /\ ev = Idle
  /\ t \in Live /\ isStopping[t]
  /\ isRunning' = Set(isRunning, t, FALSE)
  /\ isStopping' = Set(isStopping, t, FALSE)
  /\ CallStop(t, "bandwidthPulse")
  /\ UNCHANGED <<pipe, startAfterVerify, startAfter, hasMetadata, swarm, overtaken, askVars>>

\* A peer of a running swarm delivers a piece.
GotPiece ==
  /\ ev = Idle
  /\ \E t \in Live, p \in Pieces :
       /\ swarm[t] /\ hasMetadata[t] /\ p \notin have[t]
       /\ have' = [have EXCEPT ![t] = @ \cup {p}]
       /\ disk' = [disk EXCEPT ![t] = @ \cup {p}]
  /\ UNCHANGED <<queueVars, pieceIndex, checked, verifyState, ev, closed, owed, report,
                 torrentVars, pipe, flagVars, askVars>>

\* tr_torrentSetMetadataPiece() of the last missing piece of the metadata
GotMetadata ==
  /\ ev = Idle
  /\ \E t \in Live :
       /\ swarm[t] /\ ~hasMetadata[t]
       /\ hasMetadata' = Set(hasMetadata, t, TRUE)
       /\ isStopping' = Set(isStopping, t, TRUE)
       /\ magnetVerify' = Set(magnetVerify, t, TRUE)
       /\ startAfterVerify' = Set(startAfterVerify, t, TRUE)
  /\ UNCHANGED <<queueVars, pieceVars, verifyState, ev, closed, owed, report, freed, doubled,
                 pipe, isRunning, startAfter, swarm, overtaken, askVars>>

\* tr_torrentSetLocalError() from a failing read or write
LocalError ==
  /\ ev = Idle
  /\ MayFail
  /\ \E t \in Live :
       /\ swarm[t]
       /\ isStopping' = IF isRunning[t] THEN Set(isStopping, t, TRUE) ELSE isStopping
  /\ UNCHANGED <<vars, pipe, isRunning, startAfterVerify, startAfter, hasMetadata, swarm,
                 overtaken, askVars>>

-----------------------------------------------------------------------------
(* RPC requests (rpcimpl.c), handled in the event thread.                  *)

Request(call, t) ==
  /\ ev = Idle
  /\ <<call, t>> \in RpcCalls /\ t \in Live
  /\ calls < MaxCalls
  /\ calls' = calls + 1
  /\ asked' = IF call = "verify" THEN asked ELSE [asked EXCEPT ![t] = call]
  /\ UNCHANGED <<client, pipe>>

RpcStart(t) ==
  /\ Request("start", t)
  /\ IF isRunning[t] THEN UNCHANGED <<startAfterVerify, isRunning, swarm, overtaken>>
                     ELSE TorrentStart(t, startAfterVerify)
  /\ UNCHANGED <<vars, isStopping, startAfter, hasMetadata>>

\* no tr_torrentStop here: the next bandwidthPulse() will call it
RpcStop(t) ==
  /\ Request("stop", t)
  /\ isStopping' = IF isRunning[t] THEN Set(isStopping, t, TRUE) ELSE isStopping
  /\ UNCHANGED <<vars, isRunning, startAfterVerify, startAfter, hasMetadata, swarm, overtaken>>

RpcVerify(t) == Request("verify", t) /\ CallVerify(t) /\ UNCHANGED flagVars

RpcRemove(t) == Request("remove", t) /\ CallRemove(t) /\ UNCHANGED flagVars

Rpc == \E t \in Torrents : RpcStart(t) \/ RpcStop(t) \/ RpcVerify(t) \/ RpcRemove(t)

-----------------------------------------------------------------------------
(* The client thread.                                                      *)

ClientCall(call, t) ==
  /\ client = ClientIdle
  /\ <<call, t>> \in ClientCalls
  /\ asked[t] # "remove"
  /\ calls < MaxCalls
  /\ calls' = calls + 1
  /\ asked' = IF call = "verify" THEN asked ELSE [asked EXCEPT ![t] = call]
  /\ UNCHANGED vars

\* torrentStart() reads the torrent's activity without a lock ...
ClientStart(t) ==
  /\ ClientCall("start", t)
  /\ client' = CASE verifyState[t] # "none" -> [pc |-> "startAfterVerify", tor |-> t]
                 [] verifyState[t] = "none" /\ isRunning[t] -> ClientIdle
                 [] OTHER -> [pc |-> "startNow", tor |-> t]
  /\ UNCHANGED <<pipe, flagVars>>

\* ... and acts on what it read: leave the start to the end of the scan, or
ClientStartAfterVerify ==
  /\ client.pc = "startAfterVerify"
  /\ startAfterVerify' = Set(startAfterVerify, client.tor, TRUE)
  /\ client' = ClientIdle
  /\ UNCHANGED <<vars, pipe, isRunning, isStopping, startAfter, hasMetadata, swarm, overtaken,
                 asked, calls>>

\* start now, with the session lock, unless the files disappeared.
ClientStartNow ==
  /\ client.pc = "startNow"
  /\ \/ /\ ~SessionLocked
        /\ isRunning' = Set(isRunning, client.tor, TRUE)
        /\ Post("torrentStartImpl", client.tor)
     \/ /\ FilesGone(client.tor)
        /\ UNCHANGED <<isRunning, pipe>>
  /\ client' = ClientIdle
  /\ UNCHANGED <<vars, isStopping, startAfterVerify, startAfter, hasMetadata, swarm, overtaken,
                 asked, calls>>

\* Mutant: nothing is sent to the event thread.
ClientStopFlagOnly(t) ==
  /\ ClientCall("stop", t)
  /\ ~SessionLocked
  /\ isRunning' = Set(isRunning, t, FALSE)
  /\ isStopping' = Set(isStopping, t, FALSE)
  /\ UNCHANGED <<client, pipe, startAfterVerify, startAfter, hasMetadata, swarm, overtaken>>

\* tr_torrentStop
ClientStop(t) ==
  /\ ClientCall("stop", t)
  /\ ~SessionLocked
  /\ isRunning' = Set(isRunning, t, FALSE)
  /\ isStopping' = Set(isStopping, t, FALSE)
  /\ Post("stopTorrent", t)
  /\ UNCHANGED <<client, startAfterVerify, startAfter, hasMetadata, swarm, overtaken>>

\* tr_torrentVerify
ClientVerify(t) ==
  /\ ClientCall("verify", t)
  /\ Post("verifyTorrent", t)
  /\ UNCHANGED <<client, flagVars>>

\* tr_torrentRemove
ClientRemove(t) ==
  /\ ClientCall("remove", t)
  /\ Post("removeTorrent", t)
  /\ UNCHANGED <<client, flagVars>>

Client ==
  \/ \E t \in Torrents : ClientStart(t) \/ ClientStop(t) \/ ClientVerify(t) \/ ClientRemove(t)
  \/ ClientStartAfterVerify
  \/ ClientStartNow

-----------------------------------------------------------------------------
Handler == ReadFromPipe \/ InRemove \/ StopTorrent \/ CloseTorrent \/ VerifyStopsFirst
           \/ VerifyTorrent
Peers == GotPiece \/ GotMetadata \/ LocalError

LNext == LThread \/ Handler \/ (\E t \in Torrents : BandwidthPulse(t)) \/ Peers \/ Rpc \/ Client

\* The threads run; the event loop serves the pipe and the bandwidth timer; a
\* client thread ends the call it is in.  Nobody has to call anything.
LFairness ==
  /\ WF_lvars(LThread)
  /\ WF_lvars(Handler)
  /\ \A t \in Torrents : SF_lvars(BandwidthPulse(t))
  /\ WF_lvars(ClientStartAfterVerify) /\ WF_lvars(ClientStartNow)

LSpec == LInit /\ [][LNext]_lvars /\ LFairness

-----------------------------------------------------------------------------
(* Properties.                                                             *)

\* Every variable has its type, and a verifyTorrent() that waits for its inline
\* stop, or is back from it, has made sure that its torrent does not count as
\* running.
LTypeOK ==
  /\ TypeOK
  /\ \A f \in {isRunning, isStopping, startAfterVerify, hasMetadata, swarm} :
        f \in [Torrents -> BOOLEAN]
  /\ startAfter \in BOOLEAN
  /\ overtaken \subseteq Torrents
  /\ \A i \in DOMAIN pipe : pipe[i].tor \in Torrents
  /\ client.pc \in {"idle", "startAfterVerify", "startNow"}
  /\ asked \in [Torrents -> {"start", "stop", "remove"}]
  /\ calls \in 0 .. MaxCalls
  /\ ev.caller = "verifyTorrent" \/ ev.phase = "add" => ~isRunning[ev.tor]

\* verify.c:223, assert (tr_isTorrent (tor)): freeTorrent() leaves no pointer to
\* the torrent with the verifier.  Not so for a magnet that was verified again
\* from its own verifyTorrent() (doubled), because tr_verifyRemove drops one of its
\* nodes only: one pointer may be left then.
SingleIsForgotten == \A t \in freed : ev.tor # t /\ Pointers(t) <= Leftover(t)

\* Between two handlers a torrent's isRunning flag and its swarm agree, when
\* all the requests come over RPC: nobody then sees a torrent that is said to
\* be running and has no peers, or the reverse.
RunningMeansSwarm == ev = Idle => \A t \in Live : isRunning[t] = swarm[t]

\* A torrent's peers are not active while its data is being verified or waits
\* for it (torrent.c:1708: "wait until that's done so we'll know what
\* completeness to use/announce"), when all the requests come over RPC and no
\* magnet is verified before its own verification.
NoSwarmWhileVerifying ==
  \A t \in Live : swarm[t] => t \notin Waiting /\ ~(current = t /\ thread \in {"mark", "scan"})

\* A client thread changes isRunning ahead of the handler that starts or stops
\* the swarm.  As long as the two differ that handler is on its way: stopTorrent
\* in the pipe or under way, for a swarm whose torrent is said not to run, and
\* torrentStartImpl in the pipe for the reverse.  The exception is a torrent whose
\* start ran after a client had called for its stop and before stopTorrent(), which
\* leaves the flag alone: it is said to run from then on (overtaken).
FlagAndSwarmMeet ==
  \A t \in Live :
    /\ swarm[t] /\ ~isRunning[t] =>
         (ev.fn = "stopTorrent" /\ ev.tor = t) \/ InPipe({"stopTorrent"}, t)
    /\ isRunning[t] /\ ~swarm[t] => InPipe({"torrentStartImpl"}, t) \/ t \in overtaken

\* A torrent that is ready to stop is stopped or gone, whatever is asked for
\* in the meantime.
StoppingEnds == \A t \in Torrents : isStopping[t] ~> (~isRunning[t] \/ t \in freed)

\* A magnet whose metadata has arrived is verified and then runs, unless it is
\* removed.
MagnetResumes ==
  \A t \in Torrents : magnetVerify[t] ~> ((swarm[t] /\ ~magnetVerify[t]) \/ t \in freed)
=============================================================================
