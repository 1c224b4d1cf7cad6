-------------------------- MODULE LifecycleProofs --------------------------
(***************************************************************************)
(* Safety properties of module TorrentLifecycle, for any number of         *)
(* torrents, calls and disks that fail.                                    *)
(*                                                                         *)
(* Every step of the lifecycle is one that module VerifyProofs knows       *)
(* (VerifierSteps), so that the verifier's invariants hold here too, in    *)
(* spite of the torrents' other business.  What holds of the flags and the *)
(* swarm is proved by the handlers that change them.                       *)
(***************************************************************************)
EXTENDS TorrentLifecycle, VerifyProofs, SequenceTheorems

-----------------------------------------------------------------------------
(* Types.                                                                  *)

Fns == {"torrentStartImpl", "onVerifyDone", "stopTorrent", "verifyTorrent", "removeTorrent"}
Messages == [fn : Fns, tor : Torrents, aborted : BOOLEAN]
Flags == [Torrents -> BOOLEAN]

FlagTypes ==
  /\ isRunning \in Flags /\ isStopping \in Flags /\ startAfterVerify \in Flags
  /\ hasMetadata \in Flags /\ swarm \in Flags
  /\ startAfter \in BOOLEAN
  /\ overtaken \subseteq Torrents

AskTypes ==
  /\ pipe \in Seq(Messages)
  /\ client.pc \in {"idle", "startAfterVerify", "startNow"}
  /\ client.pc # "idle" => client.tor \in Torrents
  /\ asked \in [Torrents -> {"start", "stop", "remove"}]
  /\ calls \in 0 .. MaxCalls

\* The metadata of a magnet arrives once, so that it is doubled at most once.
MagnetOnce == \A t \in Torrents : magnetVerify[t] \/ t \in doubled => hasMetadata[t]

\* A verifyTorrent() that waits for its inline stop has cleared isRunning.
CallerStopped == ev.caller = "verifyTorrent" \/ ev.phase = "add" => ~isRunning[ev.tor]

Base == TypeOK /\ Structure /\ FlagTypes /\ AskTypes /\ MagnetOnce /\ CallerStopped

LEMMA SetType ==
  ASSUME NEW f \in Flags, NEW t \in Torrents, NEW b \in BOOLEAN
  PROVE  Set(f, t, b) \in Flags
BY DEF Set, Flags

LEMMA SetValue ==
  ASSUME NEW f \in Flags, NEW t \in Torrents, NEW x \in Torrents
  PROVE  /\ Set(f, t, TRUE)[x] <=> (x = t \/ f[x])
         /\ Set(f, t, FALSE)[x] <=> (x # t /\ f[x])
BY DEF Set, Flags

\* The message that is read, and those that stay.
LEMMA HeadOfPipe ==
  ASSUME AskTypes, pipe # <<>>
  PROVE  Head(pipe) \in Messages /\ Tail(pipe) \in Seq(Messages)
BY HeadTailProperties DEF AskTypes

\* A handler that is on its way works on a torrent that is not freed.
LEMMA HandlerFacts ==
  ASSUME Base, ev # Idle
  PROVE  /\ ev.fn \in Handlers /\ ev.tor \in Torrents /\ ev.tor \in Live /\ ev.phase \in Phases
         /\ ev.caller \in Callers /\ ev = Frame(ev.fn, ev.tor, ev.phase, ev.caller)
BY EvFacts DEF Base, Structure, Live

\* The actions of a handler in its middle.
InHandler == InRemove \/ StopTorrent \/ CloseTorrent \/ VerifyStopsFirst \/ VerifyTorrent

LEMMA MiddleIsBusy == InHandler => ev # Idle
BY FrameFacts DEF InHandler, InRemove, RemoveReturn, NestedCall, StopTorrent, Stopped, CloseTorrent,
       Freed, VerifyStopsFirst, StopFirst, VerifyTorrent, AddScan, GiveUp

-----------------------------------------------------------------------------
(* The steps, by what they do to the verifier.                             *)

\* What leaves vars alone.
LEMMA QuietIsOther ==
  ASSUME Base, UNCHANGED vars
  PROVE  OtherStep
BY DEF OtherStep, vars, queueVars, Base, TypeOK, Structure

LEMMA PipeIsStep ==
  ASSUME Base, ReadFromPipe
  PROVE  EnterStep \/ (OtherStep /\ UNCHANGED vars)
<1>1. ev = Idle /\ pipe # <<>> /\ Head(pipe) \in Messages
  BY HeadOfPipe DEF ReadFromPipe, Base
<1>2. Head(pipe).tor \in Torrents
  BY <1>1 DEF Messages
<1>3. \/ UNCHANGED vars
      \/ /\ Head(pipe).tor \in Live
         /\ \/ CallStop(Head(pipe).tor, "loop") \/ CallVerify(Head(pipe).tor)
            \/ CallRemove(Head(pipe).tor)
  BY <1>2 DEF ReadFromPipe, StartImpl, OnVerifyDone, Live
<1>4. CASE UNCHANGED vars
  BY <1>4, QuietIsOther
<1> QED
  BY <1>1, <1>3, <1>4, CallsEnter DEF Base

LEMMA HandlerIsStep ==
  ASSUME Base, InHandler
  PROVE  VerifyStep
BY CallsEnter DEF Base, InHandler, InRemove, StopTorrent, CloseTorrent, VerifyStopsFirst,
       VerifyTorrent, VerifyStep

LEMMA PeersIsOther ==
  ASSUME Base, Peers
  PROVE  OtherStep
<1>1. CASE GotPiece
  <2>1. PICK t \in Torrents, p \in Pieces :
          /\ have' = [have EXCEPT ![t] = @ \cup {p}]
          /\ disk' = [disk EXCEPT ![t] = @ \cup {p}]
    BY <1>1 DEF GotPiece, Live
  <2>2. have' \in [Torrents -> SUBSET Pieces] /\ disk' \in [Torrents -> SUBSET Pieces]
    BY <2>1 DEF Base, TypeOK
  <2>3. magnetVerify' \in [Torrents -> BOOLEAN] /\ \A x \in doubled : ~magnetVerify'[x]
    BY <1>1 DEF GotPiece, torrentVars, Base, TypeOK, Structure
  <2> QED
    BY <1>1, <2>2, <2>3 DEF GotPiece, OtherStep, torrentVars
<1>2. CASE GotMetadata
  <2>1. PICK t \in Torrents : ~hasMetadata[t] /\ magnetVerify' = Set(magnetVerify, t, TRUE)
    BY <1>2 DEF GotMetadata, Live
  <2>2. magnetVerify' \in [Torrents -> BOOLEAN]
    BY <2>1, SetType DEF Base, TypeOK, Flags
  <2>3. \A x \in doubled : ~magnetVerify'[x]
    <3> SUFFICES ASSUME NEW x \in doubled PROVE ~magnetVerify'[x]
      OBVIOUS
    <3>1. x \in Torrents /\ x # t /\ ~magnetVerify[x]
      BY <2>1 DEF Base, TypeOK, Structure, MagnetOnce
    <3> QED
      BY <2>1, <3>1, SetValue DEF Base, TypeOK, Flags
  <2>4. have' \in [Torrents -> SUBSET Pieces] /\ disk' \in [Torrents -> SUBSET Pieces]
    BY <1>2 DEF GotMetadata, pieceVars, Base, TypeOK
  <2> QED
    BY <1>2, <2>2, <2>3, <2>4 DEF GotMetadata, OtherStep, pieceVars
<1>3. CASE LocalError
  BY <1>3, QuietIsOther DEF LocalError
<1> QED
  BY <1>1, <1>2, <1>3 DEF Peers

LEMMA RpcIsStep ==
  ASSUME Base, Rpc
  PROVE  EnterStep \/ (OtherStep /\ UNCHANGED vars)
<1>1. PICK t \in Torrents : RpcStart(t) \/ RpcStop(t) \/ RpcVerify(t) \/ RpcRemove(t)
  BY DEF Rpc
<1>2. ev = Idle /\ t \in Live
  BY <1>1 DEF RpcStart, RpcStop, RpcVerify, RpcRemove, Request
<1>3. UNCHANGED vars \/ CallVerify(t) \/ CallRemove(t)
  BY <1>1 DEF RpcStart, RpcStop, RpcVerify, RpcRemove
<1> QED
  BY <1>2, <1>3, QuietIsOther, CallsEnter DEF Base

LEMMA PulseIsStep ==
  ASSUME Base, NEW t \in Torrents, BandwidthPulse(t)
  PROVE  EnterStep
<1>1. ev = Idle /\ t \in Live /\ CallStop(t, "bandwidthPulse")
  BY DEF BandwidthPulse
<1> QED
  BY <1>1, CallsEnter DEF Base

LEMMA ClientIsQuiet == Client => UNCHANGED vars
BY DEF Client, ClientStart, ClientStop, ClientVerify, ClientRemove, ClientStartAfterVerify,
       ClientStartNow, ClientCall

LEMMA ThreadIsStep == LThread => VerifyThread
BY DEF LThread, VerifyThread

LEMMA VerifierSteps ==
  ASSUME Base, LNext
  PROVE  VerifyStep
<1>1. CASE LThread
  BY <1>1, ThreadIsStep DEF VerifyStep
<1>2. CASE ReadFromPipe \/ Rpc \/ \E t \in Torrents : BandwidthPulse(t)
  BY <1>2, PipeIsStep, RpcIsStep, PulseIsStep DEF VerifyStep
<1>3. CASE InHandler
  BY <1>3, HandlerIsStep
<1>4. CASE Peers \/ Client
  BY <1>4, PeersIsOther, ClientIsQuiet, QuietIsOther DEF VerifyStep
<1> QED
  BY <1>1, <1>2, <1>3, <1>4 DEF LNext, Handler, InHandler

-----------------------------------------------------------------------------
(* Where the event thread goes.                                            *)

LEMMA RemoveEnters ==
  ASSUME NEW fn, NEW t, NEW caller, Remove(fn, t, caller)
  PROVE  ev'.fn = fn /\ ev'.tor = t /\ ev'.phase \in {"waiting", "after"} /\ ev'.caller = caller
BY FrameFacts DEF Remove, RemoveCurrent, RemoveWaiting

\* The event loop, or its timer, enters a handler.
LEMMA LoopEnters ==
  ASSUME Base, ReadFromPipe \/ Rpc \/ \E t \in Torrents : BandwidthPulse(t)
  PROVE  /\ ev = Idle
         /\ ev'.caller # "verifyTorrent" /\ ev'.phase # "add"
<1>1. ev = Idle
  BY DEF ReadFromPipe, Rpc, RpcStart, RpcStop, RpcVerify, RpcRemove, Request, BandwidthPulse
<1>2. EnterStep \/ UNCHANGED vars
  BY PipeIsStep, RpcIsStep, PulseIsStep
<1>3. CASE EnterStep
  <2>1. PICK fn \in Handlers, t \in Live, caller \in Callers :
          Remove(fn, t, caller) /\ (caller # "verifyTorrent" \/ ev = Frame(fn, t, "call", caller))
    BY <1>3 DEF EnterStep
  <2>2. caller # "verifyTorrent"
    BY <1>1, <2>1, FrameFacts
  <2> QED
    BY <1>1, <2>1, <2>2, RemoveEnters
<1>4. CASE UNCHANGED vars
  BY <1>1, <1>4, FrameFacts DEF vars
<1> QED
  BY <1>2, <1>3, <1>4

\* The handler that waits in tr_verifyRemove goes on.
LEMMA InRemoveStays ==
  ASSUME Base, InRemove
  PROVE  /\ ev'.fn = ev.fn /\ ev'.tor = ev.tor /\ ev'.caller = ev.caller
         /\ ev'.phase \in {"waiting", "after"}
<1>1. CASE NestedCall
  BY <1>1, RemoveEnters DEF NestedCall
<1>2. CASE RemoveReturn
  <2>1. ev = Frame(ev.fn, ev.tor, ev.phase, ev.caller)
    BY <1>2, HandlerFacts, FrameFacts DEF RemoveReturn
  <2>2. ev' = Frame(ev.fn, ev.tor, "after", ev.caller)
    BY <1>2, <2>1 DEF RemoveReturn, Frame
  <2> QED
    BY <2>2, FrameFacts
<1> QED
  BY <1>1, <1>2 DEF InRemove

LEMMA EvStays == LThread \/ Peers \/ Client => ev' = ev
BY ClientIsQuiet DEF LThread, ThreadTake, ThreadEnd, ScanBegin, ScanPiece, ScanEnd, ScanReport,
       Peers, GotPiece, GotMetadata, LocalError, vars

\* Only the inline stop of verifyTorrent(), and what nests in it, is called by
\* verifyTorrent(), which goes on when that returns.
LEMMA StepCallerStopped ==
  ASSUME Base, LNext
  PROVE  CallerStopped'
<1> SUFFICES ASSUME ev'.caller = "verifyTorrent" \/ ev'.phase = "add"
             PROVE  ~isRunning'[ev'.tor]
  BY DEF CallerStopped
<1>1. CASE LThread \/ Peers
  BY <1>1, EvStays DEF LThread, Peers, GotPiece, GotMetadata, LocalError, flagVars, Base,
     CallerStopped
<1>2. CASE Client
  <2>1. ev' = ev /\ ev # Idle /\ ~isRunning[ev.tor]
    BY <1>2, EvStays, FrameFacts DEF Base, CallerStopped
  <2>2. SessionLocked
    BY <2>1, EvStays DEF SessionLocked
  <2>3. isRunning' = isRunning \/ \E t \in Torrents : isRunning' = Set(isRunning, t, FALSE)
    BY <1>2, <2>2 DEF Client, ClientStart, ClientStop, ClientVerify, ClientRemove,
                      ClientStartAfterVerify, ClientStartNow, flagVars
  <2>4. PICK x \in Torrents : x = ev.tor
    BY <2>1, HandlerFacts
  <2>5. ~isRunning'[x]
    <3>1. ~isRunning[x]
      BY <2>1, <2>4
    <3>2. \A t \in Torrents : ~Set(isRunning, t, FALSE)[x]
      BY <3>1, SetValue DEF Base, FlagTypes
    <3> QED
      BY <2>3, <3>1, <3>2
  <2> QED
    BY <2>1, <2>4, <2>5
<1>3. CASE ReadFromPipe \/ Rpc \/ \E t \in Torrents : BandwidthPulse(t)
  BY <1>3, LoopEnters
<1>4. CASE InRemove
  BY <1>4, InRemoveStays DEF InRemove, flagVars, Base, CallerStopped
<1>5. CASE StopTorrent
  <2>1. isRunning' = isRunning
    BY <1>5 DEF StopTorrent
  <2>2. CASE ev' = Return
    BY <2>1, <2>2, ReturnFacts, FrameFacts DEF Base, CallerStopped
  <2>3. CASE ev' = Frame("verifyTorrent", ev.tor, "call", ev.caller)
    BY <2>1, <2>3, FrameFacts DEF Base, CallerStopped
  <2> QED
    BY <1>5, <2>2, <2>3 DEF StopTorrent, Stopped
<1>6. CASE CloseTorrent
  BY <1>6, FrameFacts DEF CloseTorrent, Freed
<1>7. CASE VerifyStopsFirst
  <2>1. PICK x : x = ev.tor
    OBVIOUS
  <2>2. ev'.tor = x /\ x \in Torrents /\ isRunning' = Set(isRunning, x, FALSE)
    BY <1>7, <2>1, FrameFacts, HandlerFacts, MiddleIsBusy
       DEF VerifyStopsFirst, StopFirst, InHandler
  <2>3. x \in Torrents /\ isRunning \in Flags
    BY <2>2 DEF Base, FlagTypes
  <2>4. ~Set(isRunning, x, FALSE)[x]
    BY <2>3, SetValue
  <2> QED
    BY <2>2, <2>4
<1>8. CASE VerifyTorrent
  <2>1. ev' = Return /\ isRunning' = isRunning
    BY <1>8 DEF VerifyTorrent, AddScan, GiveUp
  <2> QED
    BY <2>1, ReturnFacts, FrameFacts DEF Base, CallerStopped
<1> QED
  BY <1>1, <1>2, <1>3, <1>4, <1>5, <1>6, <1>7, <1>8 DEF LNext, Handler

\* Only GotMetadata leaves a torrent to be verified.
LEMMA MagnetSteps ==
  ASSUME Base, LNext, NEW x \in Torrents
  PROVE  /\ magnetVerify'[x] => magnetVerify[x] \/ (GotMetadata /\ ~hasMetadata[x])
         /\ x \in doubled' =>
              x \in doubled \/ (magnetVerify[x] /\ x = ev.tor /\ ev.caller = "verifyTorrent")
         /\ hasMetadata[x] => hasMetadata'[x]
<1> DEFINE Goal ==
      /\ magnetVerify'[x] => magnetVerify[x] \/ (GotMetadata /\ ~hasMetadata[x])
      /\ x \in doubled' =>
           x \in doubled \/ (magnetVerify[x] /\ x = ev.tor /\ ev.caller = "verifyTorrent")
      /\ hasMetadata[x] => hasMetadata'[x]
<1> SUFFICES Goal
  OBVIOUS
<1>1. CASE UNCHANGED <<magnetVerify, doubled, hasMetadata>>
  BY <1>1
<1>2. CASE GotMetadata
  <2>1. PICK t \in Live : /\ ~hasMetadata[t]
                          /\ hasMetadata' = Set(hasMetadata, t, TRUE)
                          /\ magnetVerify' = Set(magnetVerify, t, TRUE)
    BY <1>2 DEF GotMetadata
  <2>2. t \in Torrents
    BY DEF Live
  <2>3. magnetVerify'[x] <=> (x = t \/ magnetVerify[x])
    BY <2>1, <2>2, SetValue DEF Base, TypeOK, Flags
  <2>4. hasMetadata'[x] <=> (x = t \/ hasMetadata[x])
    BY <2>1, <2>2, SetValue DEF Base, FlagTypes
  <2>5. doubled' = doubled
    BY <1>2 DEF GotMetadata
  <2> QED
    BY <1>2, <2>1, <2>3, <2>4, <2>5
<1>3. CASE ReadFromPipe \/ Rpc \/ \E t \in Torrents : BandwidthPulse(t)
  <2>1. hasMetadata' = hasMetadata
    BY <1>3 DEF ReadFromPipe, StartImpl, OnVerifyDone, Rpc, RpcStart, RpcStop, RpcVerify, RpcRemove,
                BandwidthPulse, flagVars
  <2>2. EnterStep \/ UNCHANGED vars
    BY <1>3, PipeIsStep, RpcIsStep, PulseIsStep
  <2> QED
    BY <1>1, <2>1, <2>2 DEF EnterStep, vars
<1>4. CASE StopTorrent
  <2>1. PICK t : t = ev.tor
    OBVIOUS
  <2>2. t \in Torrents /\ hasMetadata' = hasMetadata
    BY <1>4, <2>1, HandlerFacts, MiddleIsBusy DEF InHandler, StopTorrent
  <2>3. CASE magnetVerify[t] /\ magnetVerify' = [magnetVerify EXCEPT ![t] = FALSE]
             /\ doubled' = IF ev.caller = "verifyTorrent" THEN doubled \cup {t} ELSE doubled
    BY <2>1, <2>2, <2>3 DEF Base, TypeOK
  <2> QED
    BY <1>1, <1>4, <2>1, <2>2, <2>3 DEF StopTorrent, Stopped, torrentVars
<1>5. CASE LThread
  BY <1>1, <1>5 DEF LThread, ThreadTake, ThreadEnd, ScanBegin, ScanPiece, ScanEnd, ScanReport,
     torrentVars, flagVars
<1>6. CASE InRemove \/ CloseTorrent \/ VerifyStopsFirst \/ VerifyTorrent
  BY <1>1, <1>6 DEF InRemove, RemoveReturn, NestedCall, CloseTorrent, Freed, VerifyStopsFirst,
     StopFirst, VerifyTorrent, AddScan, GiveUp, torrentVars, flagVars
<1>7. CASE GotPiece \/ LocalError
  BY <1>1, <1>7 DEF GotPiece, LocalError, torrentVars, flagVars, vars
<1>8. CASE Client
  BY <1>1, <1>8, ClientIsQuiet
     DEF Client, ClientStart, ClientStop, ClientVerify, ClientRemove, ClientStartAfterVerify,
         ClientStartNow, flagVars, vars
<1> QED
  BY <1>2, <1>3, <1>4, <1>5, <1>6, <1>7, <1>8 DEF LNext, Handler, Peers

LEMMA StepMagnetOnce ==
  ASSUME Base, LNext
  PROVE  MagnetOnce'
<1> SUFFICES ASSUME NEW x \in Torrents, magnetVerify'[x] \/ x \in doubled'
             PROVE  hasMetadata'[x]
  BY DEF MagnetOnce
<1>1. magnetVerify[x] \/ x \in doubled => hasMetadata[x]
  BY DEF Base, MagnetOnce
<1>2. CASE GotMetadata /\ magnetVerify'[x] /\ ~magnetVerify[x]
  <2>1. PICK t \in Torrents : /\ magnetVerify' = Set(magnetVerify, t, TRUE)
                              /\ hasMetadata' = Set(hasMetadata, t, TRUE)
    BY <1>2 DEF GotMetadata, Live
  <2>2. x = t
    BY <1>2, <2>1, SetValue DEF Base, TypeOK, Flags
  <2> QED
    BY <2>1, <2>2, SetValue DEF Base, FlagTypes
<1> QED
  BY <1>1, <1>2, MagnetSteps

-----------------------------------------------------------------------------
(* Type correctness.                                                       *)

\* What start does to the flags.
LEMMA StartTypes ==
  ASSUME FlagTypes, NEW t \in Torrents, NEW saf \in Flags, TorrentStart(t, saf)
  PROVE  /\ isRunning' \in Flags /\ swarm' \in Flags /\ startAfterVerify' \in Flags
         /\ overtaken' \subseteq Torrents
BY SetType DEF TorrentStart, Overtakes, FlagTypes

LEMMA PipeFlagTypes ==
  ASSUME Base, ReadFromPipe
  PROVE  FlagTypes'
<1>1. Head(pipe) \in Messages
  BY HeadOfPipe DEF ReadFromPipe, Base
<1>2. Head(pipe).tor \in Torrents
  BY <1>1 DEF Messages
<1>3. CASE StartImpl(Head(pipe).tor)
  BY <1>2, <1>3, SetType DEF StartImpl, Overtakes, Base, FlagTypes
<1>4. CASE OnVerifyDone(Head(pipe).tor, Head(pipe).aborted)
  <2>1. Set(startAfterVerify, Head(pipe).tor, FALSE) \in Flags
    BY <1>2, SetType DEF Base, FlagTypes
  <2>2. /\ isRunning' \in Flags /\ swarm' \in Flags /\ startAfterVerify' \in Flags
        /\ overtaken' \subseteq Torrents
    BY <1>2, <1>4, <2>1, StartTypes DEF OnVerifyDone, Base, FlagTypes
  <2> QED
    BY <1>4, <2>2 DEF OnVerifyDone, Base, FlagTypes
<1>5. CASE UNCHANGED flagVars
  BY <1>5 DEF flagVars, Base, FlagTypes
<1> QED
  BY <1>3, <1>4, <1>5 DEF ReadFromPipe

LEMMA HandlerFlagTypes ==
  ASSUME Base, InHandler
  PROVE  FlagTypes'
<1> USE DEF Base, FlagTypes
<1>1. ev.tor \in Torrents
  BY HandlerFacts, MiddleIsBusy
<1>2. CASE InRemove
  BY <1>2 DEF InRemove, flagVars
<1>3. CASE StopTorrent
  BY <1>1, <1>3, SetType DEF StopTorrent
<1>4. CASE CloseTorrent
  BY <1>1, <1>4, SetType DEF CloseTorrent
<1>5. CASE VerifyStopsFirst
  <2>1. startAfter' \in BOOLEAN
    BY <1>5 DEF VerifyStopsFirst, StartAfter
  <2>2. isRunning' \in Flags /\ isStopping' \in Flags
    BY <1>1, <1>5, SetType DEF VerifyStopsFirst
  <2> QED
    BY <1>5, <2>1, <2>2 DEF VerifyStopsFirst
<1>6. CASE VerifyTorrent
  <2>1. (IF ev.phase = "add" THEN startAfter ELSE StartAfter(ev.tor)) \in BOOLEAN
    BY DEF StartAfter
  <2>2. startAfterVerify' \in Flags
    BY <1>1, <1>6, <2>1, SetType DEF VerifyTorrent
  <2> QED
    BY <1>6, <2>2 DEF VerifyTorrent
<1> QED
  BY <1>2, <1>3, <1>4, <1>5, <1>6 DEF InHandler

LEMMA FlagsKeepTypes ==
  ASSUME Base, LNext
  PROVE  FlagTypes'
<1> USE DEF Base, FlagTypes
<1>1. CASE LThread
  BY <1>1 DEF LThread, flagVars
<1>2. CASE ReadFromPipe
  BY <1>2, PipeFlagTypes
<1>3. CASE InHandler
  BY <1>3, HandlerFlagTypes
<1>4. CASE \E t \in Torrents : BandwidthPulse(t)
  BY <1>4, SetType DEF BandwidthPulse
<1>5. CASE GotPiece
  BY <1>5 DEF GotPiece, flagVars
<1>6. CASE GotMetadata
  BY <1>6, SetType DEF GotMetadata, Live
<1>7. CASE LocalError
  BY <1>7, SetType DEF LocalError, Live
<1>8. CASE Rpc
  <2>1. PICK t \in Torrents : RpcStart(t) \/ RpcStop(t) \/ RpcVerify(t) \/ RpcRemove(t)
    BY <1>8 DEF Rpc
  <2>2. CASE RpcStart(t)
    BY <2>2, StartTypes DEF RpcStart
  <2>3. CASE RpcStop(t)
    BY <2>3, SetType DEF RpcStop
  <2>4. CASE RpcVerify(t) \/ RpcRemove(t)
    BY <2>4 DEF RpcVerify, RpcRemove, flagVars
  <2> QED
    BY <2>1, <2>2, <2>3, <2>4
<1>9. CASE Client
  <2>1. CASE \E t \in Torrents : ClientStart(t) \/ ClientVerify(t) \/ ClientRemove(t)
    BY <2>1 DEF ClientStart, ClientVerify, ClientRemove, flagVars
  <2>2. CASE \E t \in Torrents : ClientStop(t)
    BY <2>2, SetType DEF ClientStop
  <2>3. CASE ClientStartAfterVerify
    BY <2>3, SetType DEF ClientStartAfterVerify, AskTypes
  <2>4. CASE ClientStartNow
    BY <2>4, SetType DEF ClientStartNow, AskTypes
  <2> QED
    BY <1>9, <2>1, <2>2, <2>3, <2>4 DEF Client
<1> QED
  BY <1>1, <1>2, <1>3, <1>4, <1>5, <1>6, <1>7, <1>8, <1>9 DEF LNext, Handler, InHandler, Peers

LEMMA PostType ==
  ASSUME AskTypes, NEW m \in Messages
  PROVE  Append(pipe, m) \in Seq(Messages)
BY AppendProperties DEF AskTypes

\* What happens to the pipe in a step.
LEMMA PipeSteps ==
  ASSUME Base, LNext
  PROVE  \/ pipe' = pipe
         \/ ReadFromPipe
         \/ \E m \in Messages : pipe' = Append(pipe, m)
<1> USE DEF Base
<1>1. CASE LThread
  <2>1. CASE ScanReport
    <3>1. Message("onVerifyDone", current, stopCurrent) \in Messages
      BY <2>1 DEF ScanReport, TypeOK, Structure, Busy, Message, Messages, Fns
    <3> QED
      BY <1>1, <3>1 DEF LThread
  <2> QED
    BY <1>1, <2>1 DEF LThread
<1>2. ASSUME NEW fn \in Fns, NEW t \in Torrents, Post(fn, t)
      PROVE  \E m \in Messages : pipe' = Append(pipe, m)
  <2>1. Message(fn, t, FALSE) \in Messages
    BY DEF Message, Messages
  <2> QED
    BY <1>2, <2>1 DEF Post
<1>3. CASE Client
  <2>1. \A fn \in {"torrentStartImpl", "stopTorrent", "verifyTorrent", "removeTorrent"} : fn \in Fns
    BY DEF Fns
  <2>2. client.pc = "startNow" => client.tor \in Torrents
    BY DEF AskTypes
  <2>3. \/ pipe' = pipe
        \/ \E fn \in Fns, t \in Torrents : Post(fn, t)
    BY <1>3, <2>1, <2>2 DEF Client, ClientStart, ClientStop, ClientVerify, ClientRemove,
                            ClientStartAfterVerify, ClientStartNow
  <2> QED
    BY <1>2, <2>3
<1>4. CASE Rpc
  BY <1>4 DEF Rpc, RpcStart, RpcStop, RpcVerify, RpcRemove, Request
<1>5. CASE InHandler \/ Peers \/ \E t \in Torrents : BandwidthPulse(t)
  BY <1>5 DEF InHandler, InRemove, StopTorrent, CloseTorrent, VerifyStopsFirst, VerifyTorrent,
              Peers, GotPiece, GotMetadata, LocalError, BandwidthPulse
<1> QED
  BY <1>1, <1>3, <1>4, <1>5 DEF LNext, Handler, InHandler

\* What has been asked for, and the calls that were made.
LEMMA AskedTypes ==
  ASSUME AskTypes, NEW t \in Torrents, NEW call \in CallNames,
         asked' = IF call = "verify" THEN asked ELSE [asked EXCEPT ![t] = call],
         calls < MaxCalls, calls' = calls + 1
  PROVE  asked' \in [Torrents -> {"start", "stop", "remove"}] /\ calls' \in 0 .. MaxCalls
<1>1. asked' \in [Torrents -> {"start", "stop", "remove"}]
  BY DEF AskTypes, CallNames
<1>2. calls' \in 0 .. MaxCalls
  BY CallsAssumption DEF AskTypes
<1> QED
  BY <1>1, <1>2

LEMMA ClientTypes ==
  ASSUME AskTypes, Client
  PROVE  /\ client'.pc \in {"idle", "startAfterVerify", "startNow"}
         /\ client'.pc # "idle" => client'.tor \in Torrents
         /\ asked' \in [Torrents -> {"start", "stop", "remove"}] /\ calls' \in 0 .. MaxCalls
<1>1. CASE \E t \in Torrents : ClientStart(t) \/ ClientStop(t) \/ ClientVerify(t) \/ ClientRemove(t)
  <2>1. PICK t \in Torrents : ClientStart(t) \/ ClientStop(t) \/ ClientVerify(t) \/ ClientRemove(t)
    BY <1>1
  <2>2. PICK call \in CallNames : ClientCall(call, t)
    BY <2>1 DEF ClientStart, ClientStop, ClientVerify, ClientRemove, CallNames
  <2>3. asked' \in [Torrents -> {"start", "stop", "remove"}] /\ calls' \in 0 .. MaxCalls
    BY <2>2, AskedTypes DEF ClientCall
  <2>4. CASE ClientStart(t)
    <3>1. \/ client' = ClientIdle
          \/ \E pc \in {"startAfterVerify", "startNow"} : client' = [pc |-> pc, tor |-> t]
      BY <2>4 DEF ClientStart
    <3> QED
      BY <2>3, <3>1 DEF ClientIdle
  <2>5. CASE client' = client
    BY <2>3, <2>5 DEF AskTypes
  <2> QED
    BY <2>1, <2>4, <2>5 DEF ClientStop, ClientVerify, ClientRemove
<1>2. CASE ClientStartAfterVerify \/ ClientStartNow
  <2>1. client' = ClientIdle /\ asked' = asked /\ calls' = calls
    BY <1>2 DEF ClientStartAfterVerify, ClientStartNow
  <2> QED
    BY <2>1 DEF ClientIdle, AskTypes
<1> QED
  BY <1>1, <1>2 DEF Client

LEMMA AsksKeepTypes ==
  ASSUME Base, LNext
  PROVE  AskTypes'
<1>1. pipe' \in Seq(Messages)
  BY PipeSteps, PostType, HeadOfPipe DEF ReadFromPipe, Base, AskTypes
<1>2. CASE UNCHANGED askVars
  BY <1>1, <1>2 DEF Base, AskTypes, askVars
<1>3. CASE LThread \/ ReadFromPipe \/ InHandler \/ Peers \/ \E t \in Torrents : BandwidthPulse(t)
  BY <1>2, <1>3 DEF LThread, ReadFromPipe, InHandler, InRemove, StopTorrent, CloseTorrent,
     VerifyStopsFirst, VerifyTorrent, Peers, GotPiece, GotMetadata, LocalError, BandwidthPulse
<1>4. CASE Rpc
  <2>1. PICK t \in Torrents, call \in CallNames : Request(call, t)
    BY <1>4 DEF Rpc, RpcStart, RpcStop, RpcVerify, RpcRemove, CallNames
  <2>2. asked' \in [Torrents -> {"start", "stop", "remove"}] /\ calls' \in 0 .. MaxCalls
    BY <2>1, AskedTypes DEF Request, Base
  <2> QED
    BY <1>1, <2>1, <2>2 DEF Request, Base, AskTypes
<1>5. CASE Client
  BY <1>1, <1>5, ClientTypes DEF Base, AskTypes
<1> QED
  BY <1>3, <1>4, <1>5 DEF LNext, Handler, InHandler

LEMMA StepBase ==
  ASSUME Base, [LNext]_lvars
  PROVE  Base'
<1>1. CASE LNext
  <2>1. VerifyStep
    BY <1>1, VerifierSteps
  <2>2. TypeOK' /\ Structure'
    BY <2>1, StepTypes, StepStructure DEF Base
  <2> QED
    BY <1>1, <2>2, FlagsKeepTypes, AsksKeepTypes, StepMagnetOnce, StepCallerStopped DEF Base
<1>2. CASE UNCHANGED lvars
  <2>1. OtherStep
    BY <1>2, QuietIsOther DEF lvars
  <2>2. TypeOK' /\ Structure'
    BY <2>1, StepTypes, StepStructure DEF Base, VerifyStep
  <2>3. FlagTypes' /\ AskTypes'
    BY <1>2 DEF lvars, flagVars, askVars, Base, FlagTypes, AskTypes
  <2>4. MagnetOnce' /\ CallerStopped'
    BY <1>2 DEF lvars, vars, flagVars, Base, MagnetOnce, CallerStopped
  <2> QED
    BY <2>2, <2>3, <2>4 DEF Base
<1> QED
  BY <1>1, <1>2

LEMMA InitBase == LInit => Base
<1> SUFFICES ASSUME LInit PROVE Base
  OBVIOUS
<1>1. TypeOK /\ Structure
  BY InitTypes, InitStructure DEF LInit
<1>2. FlagTypes
  BY DEF LInit, FlagTypes, Flags
<1>3. AskTypes
  <2>1. 0 \in 0 .. MaxCalls
    BY CallsAssumption
  <2>2. asked \in [Torrents -> {"start", "stop", "remove"}]
    BY DEF LInit
  <2> QED
    BY <2>1, <2>2 DEF LInit, ClientIdle, AskTypes
<1>4. MagnetOnce /\ CallerStopped
  BY FrameFacts DEF LInit, Init, MagnetOnce, CallerStopped
<1> QED
  BY <1>1, <1>2, <1>3, <1>4 DEF Base

\* The verifier keeps its invariant (TypeOK and Structure of Base) whatever the
\* torrents do besides: a handler works on a torrent that is not freed, the
\* verifier's pointers to a torrent are bounded by where its handler is, and a
\* magnet is verified from its own verifyTorrent() once at most.
THEOREM BaseHolds == LSpec => []Base
BY InitBase, StepBase, PTL DEF LSpec

\* Every variable has its type, and a verifyTorrent() that waits for its inline
\* stop, or is back from it, has cleared isRunning.
THEOREM LifecycleTypeCorrect == LSpec => []LTypeOK
<1>1. Base => LTypeOK
  <2> SUFFICES ASSUME Base PROVE LTypeOK
    OBVIOUS
  <2>1. \A i \in DOMAIN pipe : pipe[i].tor \in Torrents
    <3>1. pipe \in Seq(Messages) /\ DOMAIN pipe = 1 .. Len(pipe)
      BY LenProperties DEF Base, AskTypes
    <3>2. \A i \in DOMAIN pipe : pipe[i] \in Messages
      BY <3>1, ElementOfSeq
    <3> QED
      BY <3>2 DEF Messages
  <2> QED
    BY <2>1 DEF Base, FlagTypes, Flags, AskTypes, CallerStopped, LTypeOK
<1> QED
  BY <1>1, BaseHolds, PTL

\* freeTorrent() leaves no pointer to its torrent with the verifier or with a
\* handler, and exactly one at most of a torrent that is doubled.
THEOREM FreedIsForgotten == LSpec => []SingleIsForgotten
<1>1. Base => SingleIsForgotten
  BY DEF Base, Structure, SingleIsForgotten
<1> QED
  BY <1>1, BaseHolds, PTL

\* What module Verify promises holds among the rest of a torrent's life too: a
\* torrent is queued once, or twice if it is doubled, tr_verifyRemove leaves no
\* pointer of the first behind, the stop flag is up for no other torrent, and
\* verifyState says where a torrent is.
THEOREM VerifierHolds ==
  LSpec => [](QueuedOnce /\ RemovedIsReleased /\ StopHitsItsTorrent /\ StateTellsQueue)
<1>1. Base /\ Base' /\ Told /\ [LNext]_lvars => Told'
  <2> SUFFICES ASSUME Base, Base', Told, [LNext]_lvars PROVE Told'
    OBVIOUS
  <2>1. CASE LNext
    BY <2>1, VerifierSteps, StepTold DEF Base
  <2>2. CASE UNCHANGED lvars
    BY <2>2, SameTold DEF lvars, vars
  <2> QED
    BY <2>1, <2>2
<1>2. LInit => Told
  BY InitTold DEF LInit
<1>3. LSpec => []Told
  BY <1>1, <1>2, BaseHolds, PTL DEF LSpec
<1>4. Base => Structure
  BY DEF Base
<1> QED
  BY <1>3, <1>4, StructureSays, ToldSays, BaseHolds, PTL

-----------------------------------------------------------------------------
(* The isRunning flag and the swarm.                                       *)

Posted(fn, t) == InPipe({fn}, t)
StopPosted(t) == Posted("stopTorrent", t)
Stopping(t) == ev.fn = "stopTorrent" /\ ev.tor = t
StopsIt(t) == Stopping(t) \/ StopPosted(t)

SameRunning(t) == isRunning'[t] <=> isRunning[t]
SameSwarm(t) == swarm'[t] <=> swarm[t]
SameFlags(t) == SameRunning(t) /\ SameSwarm(t)
\* Torrent t is started, and a stop of it that is still in the pipe is overtaken.
Started(t) == isRunning'[t] /\ swarm'[t] /\ (StopPosted(t) => t \in overtaken')

LEMMA OvertakenTorrents ==
  ASSUME NEW t, Overtakes(t)
  PROVE  overtaken \subseteq overtaken' /\ (StopPosted(t) => t \in overtaken')
BY DEF Overtakes, StopPosted, Posted

LEMMA StartFlags ==
  ASSUME FlagTypes, NEW t \in Torrents, NEW x \in Torrents, NEW saf, TorrentStart(t, saf)
  PROVE  /\ SameFlags(x) \/ (Started(x) /\ x = t /\ verifyState[t] = "none")
         /\ overtaken \subseteq overtaken'
<1>1. CASE UNCHANGED <<isRunning, swarm, overtaken>>
  BY <1>1 DEF SameFlags, SameRunning, SameSwarm
<1>2. CASE /\ verifyState[t] = "none" /\ Overtakes(t)
           /\ isRunning' = Set(isRunning, t, TRUE) /\ swarm' = Set(swarm, t, TRUE)
  <2>1. isRunning'[x] <=> (x = t \/ isRunning[x])
    BY <1>2, SetValue DEF FlagTypes
  <2>2. swarm'[x] <=> (x = t \/ swarm[x])
    BY <1>2, SetValue DEF FlagTypes
  <2> QED
    BY <1>2, <2>1, <2>2, OvertakenTorrents DEF SameFlags, SameRunning, SameSwarm, Started
<1> QED
  BY <1>1, <1>2 DEF TorrentStart

LEMMA StartImplFlags ==
  ASSUME FlagTypes, NEW t \in Torrents, NEW x \in Torrents, StartImpl(t)
  PROVE  /\ IF x = t THEN Started(x) ELSE SameFlags(x)
         /\ overtaken \subseteq overtaken'
<1>1. isRunning'[x] <=> (x = t \/ isRunning[x])
  BY SetValue DEF StartImpl, FlagTypes
<1>2. swarm'[x] <=> (x = t \/ swarm[x])
  BY SetValue DEF StartImpl, FlagTypes
<1> QED
  BY <1>1, <1>2, OvertakenTorrents DEF StartImpl, SameFlags, SameRunning, SameSwarm, Started

\* What a message that is read does to the flags of torrent x.
LEMMA ReadFlags ==
  ASSUME Base, ReadFromPipe, NEW x \in Torrents
  PROVE  /\ \/ SameFlags(x)
            \/ Started(x) /\ (Head(pipe).fn = "onVerifyDone" => verifyState[x] = "none")
         /\ Head(pipe).fn = "torrentStartImpl" /\ Head(pipe).tor = x /\ x \in Live => Started(x)
         /\ overtaken \subseteq overtaken'
<1>1. Head(pipe) \in Messages
  BY HeadOfPipe DEF ReadFromPipe, Base
<1>2. Head(pipe).tor \in Torrents
  BY <1>1 DEF Messages
<1>3. CASE Head(pipe).fn = "torrentStartImpl" /\ StartImpl(Head(pipe).tor)
  BY <1>2, <1>3, StartImplFlags DEF Base
<1>4. CASE Head(pipe).fn = "onVerifyDone" /\ OnVerifyDone(Head(pipe).tor, Head(pipe).aborted)
  <2>1. CASE UNCHANGED <<isRunning, swarm, overtaken>>
    BY <1>4, <2>1 DEF SameFlags, SameRunning, SameSwarm
  <2>2. CASE \E saf : TorrentStart(Head(pipe).tor, saf)
    BY <1>2, <1>4, <2>2, StartFlags DEF Base
  <2> QED
    BY <1>4, <2>1, <2>2 DEF OnVerifyDone
<1>5. CASE /\ UNCHANGED <<isRunning, swarm, overtaken>>
           /\ Head(pipe).tor \in freed \/ Head(pipe).fn # "torrentStartImpl"
  BY <1>5 DEF SameFlags, SameRunning, SameSwarm, Live
<1> QED
  BY <1>3, <1>4, <1>5 DEF ReadFromPipe, flagVars

\* Who changes the flags of a torrent, and how.
FlagStep(x) ==
  \/ SameFlags(x)
  \/ /\ Started(x)
     /\ \/ ReadFromPipe /\ (Head(pipe).fn = "onVerifyDone" => verifyState[x] = "none")
        \/ Rpc /\ verifyState[x] = "none"
  \/ VerifyStopsFirst /\ ev.tor = x /\ ~isRunning'[x] /\ SameSwarm(x)
  \/ CloseTorrent /\ x \in freed'
  \/ StopTorrent /\ ev.tor = x /\ SameRunning(x) /\ ~swarm'[x]
  \/ BandwidthPulse(x) /\ ~isRunning'[x] /\ SameSwarm(x)
  \/ ClientStop(x) /\ ~isRunning'[x] /\ SameSwarm(x)
  \/ /\ ClientStartNow /\ ~SessionLocked /\ Post("torrentStartImpl", x)
     /\ isRunning'[x] /\ SameSwarm(x)

LEMMA HandlerFlags ==
  ASSUME Base, NEW x \in Torrents, InHandler
  PROVE  FlagStep(x)
<1> USE DEF FlagStep, SameFlags, SameRunning, SameSwarm, Base, FlagTypes
<1>1. PICK t \in Torrents : t = ev.tor
  BY HandlerFacts, MiddleIsBusy
<1>2. CASE UNCHANGED <<isRunning, swarm>>
  BY <1>2
<1>3. CASE StopTorrent
  <2>1. swarm'[x] <=> (x # t /\ swarm[x])
    BY <1>1, <1>3, SetValue DEF StopTorrent
  <2> QED
    BY <1>1, <1>3, <2>1 DEF StopTorrent
<1>4. CASE CloseTorrent
  <2>1. (swarm'[x] <=> (x # t /\ swarm[x])) /\ (isRunning'[x] <=> (x # t /\ isRunning[x]))
    BY <1>1, <1>4, SetValue DEF CloseTorrent
  <2> QED
    BY <1>1, <1>4, <2>1 DEF CloseTorrent, Freed
<1>5. CASE VerifyStopsFirst
  <2>1. isRunning'[x] <=> (x # t /\ isRunning[x])
    BY <1>1, <1>5, SetValue DEF VerifyStopsFirst
  <2> QED
    BY <1>1, <1>5, <2>1 DEF VerifyStopsFirst
<1> QED
  BY <1>2, <1>3, <1>4, <1>5 DEF InHandler, InRemove, VerifyTorrent, flagVars

LEMMA FlagSteps ==
  ASSUME Base, LNext, NEW x \in Torrents
  PROVE  FlagStep(x)
<1>1. CASE UNCHANGED <<isRunning, swarm>>
  BY <1>1 DEF FlagStep, SameFlags, SameRunning, SameSwarm
<1>2. CASE ReadFromPipe
  BY <1>2, ReadFlags DEF FlagStep
<1>3. CASE InHandler
  BY <1>3, HandlerFlags
<1>4. CASE \E t \in Torrents : BandwidthPulse(t)
  <2>1. PICK t \in Torrents : BandwidthPulse(t)
    BY <1>4
  <2>2. isRunning'[x] <=> (x # t /\ isRunning[x])
    BY <2>1, SetValue DEF BandwidthPulse, Base, FlagTypes
  <2>3. swarm' = swarm
    BY <2>1 DEF BandwidthPulse
  <2> QED
    BY <2>1, <2>2, <2>3 DEF FlagStep, SameFlags, SameRunning, SameSwarm
<1>5. CASE \E t \in Torrents : RpcStart(t)
  <2>1. PICK t \in Torrents : RpcStart(t)
    BY <1>5
  <2>2. CASE TorrentStart(t, startAfterVerify)
    BY <1>5, <2>2, StartFlags DEF FlagStep, Rpc, Base
  <2> QED
    BY <1>1, <2>1, <2>2 DEF RpcStart
<1>6. CASE \E t \in Torrents : ClientStop(t)
  <2>1. PICK t \in Torrents : ClientStop(t)
    BY <1>6
  <2>2. isRunning'[x] <=> (x # t /\ isRunning[x])
    BY <2>1, SetValue DEF ClientStop, Base, FlagTypes
  <2>3. swarm' = swarm
    BY <2>1 DEF ClientStop
  <2> QED
    BY <2>1, <2>2, <2>3 DEF FlagStep, SameFlags, SameRunning, SameSwarm
<1>7. CASE ClientStartNow
  <2>1. client.tor \in Torrents /\ swarm' = swarm
    BY <1>7 DEF ClientStartNow, Base, AskTypes
  <2>2. CASE /\ isRunning' = Set(isRunning, client.tor, TRUE) /\ ~SessionLocked
             /\ Post("torrentStartImpl", client.tor)
    <3>1. isRunning'[x] <=> (x = client.tor \/ isRunning[x])
      BY <2>1, <2>2, SetValue DEF Base, FlagTypes
    <3> QED
      BY <1>7, <2>1, <2>2, <3>1 DEF FlagStep, SameFlags, SameRunning, SameSwarm
  <2> QED
    BY <1>1, <1>7, <2>1, <2>2 DEF ClientStartNow
<1>8. CASE LThread \/ Peers
  BY <1>1, <1>8 DEF LThread, Peers, GotPiece, GotMetadata, LocalError, flagVars
<1>9. CASE \E t \in Torrents : RpcStop(t) \/ RpcVerify(t) \/ RpcRemove(t)
  BY <1>1, <1>9 DEF RpcStop, RpcVerify, RpcRemove, flagVars
<1>10. CASE ClientStartAfterVerify
            \/ \E t \in Torrents : ClientStart(t) \/ ClientVerify(t) \/ ClientRemove(t)
  BY <1>1, <1>10 DEF ClientStart, ClientVerify, ClientRemove, ClientStartAfterVerify, flagVars
<1> QED
  BY <1>2, <1>3, <1>4, <1>5, <1>6, <1>7, <1>8, <1>9, <1>10
     DEF LNext, Handler, InHandler, Rpc, Client

\* Once overtaken, the stop stays so.
LEMMA OvertakenStays ==
  ASSUME Base, LNext
  PROVE  overtaken \subseteq overtaken'
<1>1. CASE ReadFromPipe
  <2>1. CASE Torrents = {}
    BY <2>1, HeadOfPipe, <1>1 DEF Base, ReadFromPipe, Messages
  <2> QED
    BY <1>1, <2>1, ReadFlags
<1>2. CASE Rpc
  BY <1>2, StartFlags DEF Rpc, RpcStart, RpcStop, RpcVerify, RpcRemove, flagVars, Base
<1>3. CASE LThread \/ InHandler \/ Peers \/ \E t \in Torrents : BandwidthPulse(t)
  BY <1>3 DEF LThread, InHandler, InRemove, StopTorrent, CloseTorrent, VerifyStopsFirst,
     VerifyTorrent, Peers, GotPiece, GotMetadata, LocalError, BandwidthPulse, flagVars
<1>4. CASE Client
  BY <1>4 DEF Client, ClientStart, ClientStop, ClientVerify, ClientRemove, ClientStartAfterVerify,
              ClientStartNow, flagVars
<1> QED
  BY <1>1, <1>2, <1>3, <1>4 DEF LNext, Handler, InHandler

-----------------------------------------------------------------------------
(* A stop, or a start, stays on its way until it is made.                  *)

LEMMA AppendedStays ==
  ASSUME Base, NEW m \in Messages, pipe' = Append(pipe, m), NEW fn, NEW x
  PROVE  Posted(fn, x)' <=> Posted(fn, x) \/ (m.fn = fn /\ m.tor = x)
<1>1. pipe \in Seq(Messages)
  BY DEF Base, AskTypes
<1>2. /\ Len(pipe') = Len(pipe) + 1 /\ Len(pipe) \in Nat
      /\ \A i \in 1 .. Len(pipe) : pipe'[i] = pipe[i]
      /\ pipe'[Len(pipe) + 1] = m
      /\ DOMAIN pipe = 1 .. Len(pipe) /\ DOMAIN pipe' = 1 .. Len(pipe')
  BY <1>1, AppendProperties, LenProperties
<1>3. ASSUME Posted(fn, x)
      PROVE  Posted(fn, x)'
  BY <1>2, <1>3 DEF Posted, InPipe
<1>4. ASSUME m.fn = fn, m.tor = x
      PROVE  Posted(fn, x)'
  BY <1>2, <1>4 DEF Posted, InPipe
<1>5. ASSUME Posted(fn, x)'
      PROVE  Posted(fn, x) \/ (m.fn = fn /\ m.tor = x)
  BY <1>2, <1>5 DEF Posted, InPipe
<1> QED
  BY <1>3, <1>4, <1>5

LEMMA ReadStays ==
  ASSUME Base, pipe # <<>>, pipe' = Tail(pipe), NEW fn, NEW x
  PROVE  /\ Posted(fn, x) => Posted(fn, x)' \/ (Head(pipe).fn = fn /\ Head(pipe).tor = x)
         /\ Posted(fn, x)' => Posted(fn, x)
         /\ Head(pipe).fn = fn /\ Head(pipe).tor = x => Posted(fn, x)
<1>1. pipe \in Seq(Messages)
  BY DEF Base, AskTypes
<1>2. /\ Len(pipe) \in Nat /\ Len(pipe') = Len(pipe) - 1 /\ Head(pipe) = pipe[1]
      /\ \A i \in 1 .. Len(pipe') : pipe'[i] = pipe[i + 1]
      /\ DOMAIN pipe = 1 .. Len(pipe) /\ DOMAIN pipe' = 1 .. Len(pipe')
  BY <1>1, HeadTailProperties, LenProperties
<1>3. ASSUME Posted(fn, x)
      PROVE  Posted(fn, x)' \/ (Head(pipe).fn = fn /\ Head(pipe).tor = x)
  <2>1. PICK i \in 1 .. Len(pipe) : pipe[i].fn = fn /\ pipe[i].tor = x
    BY <1>2, <1>3 DEF Posted, InPipe
  <2>2. CASE i = 1
    BY <1>2, <2>1, <2>2
  <2>3. CASE i # 1
    <3>1. i - 1 \in 1 .. Len(pipe') /\ pipe'[i - 1] = pipe[i]
      BY <1>2, <2>3
    <3> QED
      BY <1>2, <2>1, <3>1 DEF Posted, InPipe
  <2> QED
    BY <2>2, <2>3
<1>4. ASSUME Posted(fn, x)'
      PROVE  Posted(fn, x)
  <2>1. PICK i \in 1 .. Len(pipe') : pipe'[i].fn = fn /\ pipe'[i].tor = x
    BY <1>2, <1>4 DEF Posted, InPipe
  <2>2. i + 1 \in 1 .. Len(pipe) /\ pipe[i + 1] = pipe'[i]
    BY <1>2
  <2> QED
    BY <1>2, <2>1, <2>2 DEF Posted, InPipe
<1>5. ASSUME Head(pipe).fn = fn, Head(pipe).tor = x
      PROVE  Posted(fn, x)
  <2>1. Len(pipe) # 0
    BY <1>1, EmptySeq, LenProperties
  <2>2. 1 \in DOMAIN pipe
    BY <1>2, <2>1
  <2> QED
    BY <1>2, <1>5, <2>2 DEF Posted, InPipe
<1> QED
  BY <1>3, <1>4, <1>5

\* A message stays in the pipe until it is read.
LEMMA PostedStays ==
  ASSUME Base, LNext, NEW fn, NEW x, Posted(fn, x)
  PROVE  Posted(fn, x)' \/ (ReadFromPipe /\ Head(pipe).fn = fn /\ Head(pipe).tor = x)
<1>1. CASE pipe' = pipe
  BY <1>1 DEF Posted, InPipe
<1>2. CASE ReadFromPipe
  BY <1>2, ReadStays DEF ReadFromPipe
<1>3. CASE \E m \in Messages : pipe' = Append(pipe, m)
  BY <1>3, AppendedStays
<1> QED
  BY <1>1, <1>2, <1>3, PipeSteps

\* Only a client's tr_torrentStop posts a stop.
LEMMA WhoPosts ==
  ASSUME Base, LNext, NEW x \in Torrents, StopPosted(x)'
  PROVE  StopPosted(x) \/ ClientStop(x)
<1>1. CASE pipe' = pipe
  BY <1>1 DEF StopPosted, Posted, InPipe
<1>2. CASE ReadFromPipe
  BY <1>2, ReadStays DEF ReadFromPipe, StopPosted
<1>3. CASE LThread
  <2>1. CASE ScanReport /\ pipe' = Append(pipe, Message("onVerifyDone", current, stopCurrent))
    <3>1. PICK m \in Messages : m.fn = "onVerifyDone" /\ pipe' = Append(pipe, m)
      BY <2>1 DEF ScanReport, Base, TypeOK, Structure, Busy, Message, Messages, Fns
    <3> QED
      BY <3>1, AppendedStays DEF StopPosted
  <2> QED
    BY <1>1, <1>3, <2>1 DEF LThread
<1>4. ASSUME NEW fn \in {"torrentStartImpl", "verifyTorrent", "removeTorrent"}, NEW t \in Torrents,
             Post(fn, t)
      PROVE  StopPosted(x)
  <2>1. PICK m \in Messages : m.fn = fn /\ m.tor = t /\ pipe' = Append(pipe, m)
    BY <1>4 DEF Post, Message, Messages, Fns
  <2> QED
    BY <2>1, AppendedStays DEF StopPosted
<1>5. CASE Client
  <2>1. CASE \E t \in Torrents : ClientStop(t)
    <3>1. PICK t \in Torrents : ClientStop(t)
      BY <2>1
    <3>2. PICK m \in Messages : m.fn = "stopTorrent" /\ m.tor = t /\ pipe' = Append(pipe, m)
      BY <3>1 DEF ClientStop, Post, Message, Messages, Fns
    <3> QED
      BY <3>1, <3>2, AppendedStays DEF StopPosted
  <2>2. CASE ClientStartNow
    <3>1. client.tor \in Torrents
      BY <2>2 DEF ClientStartNow, Base, AskTypes
    <3> QED
      BY <1>1, <1>4, <2>2, <3>1 DEF ClientStartNow
  <2> QED
    BY <1>1, <1>4, <1>5, <2>1, <2>2 DEF Client, ClientStart, ClientVerify, ClientRemove,
                                       ClientStartAfterVerify
<1>6. CASE InHandler \/ Peers \/ Rpc \/ \E t \in Torrents : BandwidthPulse(t)
  BY <1>1, <1>6 DEF InHandler, InRemove, StopTorrent, CloseTorrent, VerifyStopsFirst, VerifyTorrent,
     Peers, GotPiece, GotMetadata, LocalError, BandwidthPulse, Rpc, RpcStart, RpcStop, RpcVerify,
     RpcRemove, Request
<1> QED
  BY <1>2, <1>3, <1>5, <1>6 DEF LNext, Handler, InHandler

\* A handler that is stopping a torrent goes on until its swarm is down.
LEMMA StoppingStays ==
  ASSUME Base, LNext, NEW x \in Torrents, Stopping(x)
  PROVE  Stopping(x)' \/ (StopTorrent /\ ev.tor = x)
<1>1. ev # Idle
  BY FrameFacts DEF Stopping
<1>2. CASE LThread \/ Peers \/ Client
  BY <1>2, EvStays DEF Stopping
<1>3. CASE InRemove
  BY <1>3, InRemoveStays DEF Stopping
<1>4. CASE StopTorrent
  BY <1>4 DEF Stopping
<1>5. ~CloseTorrent /\ ~VerifyTorrent /\ ~VerifyStopsFirst
  BY DEF CloseTorrent, Freed, VerifyTorrent, AddScan, GiveUp, VerifyStopsFirst, StopFirst, Stopping
<1>6. ~ReadFromPipe /\ ~Rpc /\ \A t \in Torrents : ~BandwidthPulse(t)
  BY <1>1, LoopEnters
<1> QED
  BY <1>2, <1>3, <1>4, <1>5, <1>6 DEF LNext, Handler

LEMMA PulseStops ==
  ASSUME NEW x, BandwidthPulse(x)
  PROVE  Stopping(x)'
BY RemoveEnters DEF BandwidthPulse, CallStop, Stopping

LEMMA StopFirstStops ==
  ASSUME StopFirst
  PROVE  ev'.fn = "stopTorrent" /\ ev'.tor = ev.tor
BY FrameFacts DEF StopFirst

\* Who is stopping a torrent after a step.
LEMMA WhoStops ==
  ASSUME Base, LNext, NEW x \in Torrents, Stopping(x)'
  PROVE  \/ Stopping(x) \/ BandwidthPulse(x) \/ (VerifyStopsFirst /\ ev.tor = x)
         \/ ReadFromPipe /\ Head(pipe).fn = "stopTorrent" /\ Head(pipe).tor = x
<1>1. CASE UNCHANGED ev
  BY <1>1 DEF Stopping
<1>2. CASE LThread \/ Peers \/ Client
  BY <1>1, <1>2, EvStays
<1>3. CASE ReadFromPipe
  <2>1. Remove(Head(pipe).fn, Head(pipe).tor, "loop") \/ ev' = ev
    BY <1>3 DEF ReadFromPipe, CallStop, CallVerify, CallRemove, StartImpl, OnVerifyDone, vars
  <2> QED
    BY <1>1, <1>3, <2>1, RemoveEnters DEF Stopping
<1>4. CASE InRemove
  BY <1>4, InRemoveStays DEF Stopping
<1>5. CASE StopTorrent \/ CloseTorrent \/ VerifyTorrent
  <2>1. ev' = Idle \/ ev' = Return \/ ev' = Frame("verifyTorrent", ev.tor, "call", ev.caller)
    BY <1>5 DEF StopTorrent, Stopped, CloseTorrent, Freed, VerifyTorrent, AddScan, GiveUp
  <2>2. ev'.fn = "idle" \/ ev'.fn = "verifyTorrent"
    BY <2>1, ReturnFacts, FrameFacts DEF Base
  <2> QED
    BY <2>2 DEF Stopping
<1>6. CASE VerifyStopsFirst
  BY <1>6, StopFirstStops DEF VerifyStopsFirst, Stopping
<1>7. CASE \E t \in Torrents : BandwidthPulse(t)
  BY <1>7, RemoveEnters DEF BandwidthPulse, CallStop, Stopping
<1>8. CASE Rpc
  <2>1. ev'.fn \in {"verifyTorrent", "removeTorrent"} \/ UNCHANGED ev
    BY <1>8, RemoveEnters DEF Rpc, RpcStart, RpcStop, RpcVerify, RpcRemove, CallVerify, CallRemove,
                              vars
  <2> QED
    BY <1>1, <2>1 DEF Stopping
<1> QED
  BY <1>2, <1>3, <1>4, <1>5, <1>6, <1>7, <1>8 DEF LNext, Handler

\* A torrent is freed once and for all.
LEMMA FreedStays ==
  ASSUME Base, LNext
  PROVE  freed \subseteq freed'
BY VerifierSteps DEF VerifyStep, VerifyThread, ThreadTake, ThreadEnd, ScanBegin, ScanPiece, ScanEnd,
   ScanReport, EnterStep, RemoveReturn, StopFirst, AddScan, GiveUp, Stopped, Freed, OtherStep,
   torrentVars

\* Whoever stops a torrent clears its flag first.
LEMMA StoppersClear ==
  ASSUME Base, NEW x \in Torrents,
         BandwidthPulse(x) \/ ClientStop(x) \/ (VerifyStopsFirst /\ ev.tor = x)
  PROVE  ~isRunning'[x]
<1>1. isRunning' = Set(isRunning, x, FALSE)
  BY DEF BandwidthPulse, ClientStop, VerifyStopsFirst
<1> QED
  BY <1>1, SetValue DEF Base, FlagTypes

LEMMA StopEndsSwarm ==
  ASSUME Base, StopTorrent, NEW x \in Torrents, ev.tor = x
  PROVE  ~swarm'[x] /\ isRunning' = isRunning /\ Stopping(x)
<1>1. swarm' = Set(swarm, x, FALSE) /\ isRunning' = isRunning /\ ev.fn = "stopTorrent"
  BY DEF StopTorrent, Stopped
<1>2. swarm \in Flags
  BY DEF Base, FlagTypes
<1>3. ~Set(swarm, x, FALSE)[x]
  BY <1>2, SetValue
<1> QED
  BY <1>1, <1>3 DEF Stopping

\* Between two handlers nobody is stopping a torrent, and with the start of one a
\* stop is not lost sight of.
LEMMA IdleStops ==
  ASSUME Base, LNext, NEW x \in Torrents, ev = Idle, StopsIt(x)', isRunning'[x]
  PROVE  StopPosted(x)
<1>1. ~Stopping(x) /\ ~VerifyStopsFirst
  BY MiddleIsBusy, FrameFacts DEF Stopping, InHandler
<1>2. ~BandwidthPulse(x) /\ ~ClientStop(x)
  BY StoppersClear
<1>3. CASE StopPosted(x)'
  BY <1>2, <1>3, WhoPosts
<1>4. CASE Stopping(x)'
  BY <1>1, <1>2, <1>4, WhoStops, ReadStays DEF ReadFromPipe, StopPosted
<1> QED
  BY <1>3, <1>4 DEF StopsIt

LEMMA RemoveStops ==
  ASSUME ReadFromPipe, NEW x \in Live, Head(pipe).fn = "stopTorrent", Head(pipe).tor = x
  PROVE  Stopping(x)'
<1>1. Remove("stopTorrent", x, "loop")
  BY DEF ReadFromPipe, CallStop, Live
<1> QED
  BY <1>1, RemoveEnters DEF Stopping

LEMMA StopsItStays ==
  ASSUME Base, LNext, NEW x \in Live, StopsIt(x)
  PROVE  StopsIt(x)' \/ (StopTorrent /\ ev.tor = x)
<1>1. x \in Torrents /\ x \notin freed
  BY DEF Live
<1>2. CASE Stopping(x)
  BY <1>1, <1>2, StoppingStays DEF StopsIt
<1>3. CASE StopPosted(x)
  BY <1>1, <1>3, PostedStays, RemoveStops DEF StopPosted, StopsIt, Stopping
<1> QED
  BY <1>2, <1>3 DEF StopsIt

\* The stop of a swarm whose torrent is said not to run is on its way.
SwarmIsWatched == \A t \in Live : swarm[t] /\ ~isRunning[t] => StopsIt(t)

\* So is the start of a torrent that is said to run and has no swarm, or is about
\* to lose it; unless its stop has been overtaken.
StartIsWatched ==
  \A t \in Live : isRunning[t] /\ (StopsIt(t) \/ ~swarm[t]) =>
                    Posted("torrentStartImpl", t) \/ t \in overtaken

LEMMA StepSwarmWatched ==
  ASSUME Base, SwarmIsWatched, LNext
  PROVE  SwarmIsWatched'
<1> SUFFICES ASSUME NEW x \in Torrents, x \notin freed', swarm'[x], ~isRunning'[x]
             PROVE  StopsIt(x)'
  BY DEF SwarmIsWatched, Live
<1>1. x \in Live
  BY FreedStays DEF Live
<1>2. ~(StopTorrent /\ ev.tor = x)
  BY StopEndsSwarm
<1>3. CASE SameFlags(x)
  <2>1. StopsIt(x)
    BY <1>1, <1>3 DEF SameFlags, SameRunning, SameSwarm, SwarmIsWatched
  <2> QED
    BY <1>1, <1>2, <2>1, StopsItStays
<1>4. CASE BandwidthPulse(x)
  BY <1>4, PulseStops DEF StopsIt
<1>5. CASE VerifyStopsFirst /\ ev.tor = x
  BY <1>5, StopFirstStops DEF VerifyStopsFirst, StopsIt, Stopping
<1>6. CASE ClientStop(x)
  <2>1. PICK m \in Messages : m.fn = "stopTorrent" /\ m.tor = x /\ pipe' = Append(pipe, m)
    BY <1>6 DEF ClientStop, Post, Message, Messages, Fns
  <2> QED
    BY <2>1, AppendedStays DEF StopPosted, StopsIt
<1> QED
  BY <1>2, <1>3, <1>4, <1>5, <1>6, FlagSteps DEF FlagStep, Started

LEMMA StepStartWatched ==
  ASSUME Base, StartIsWatched, LNext
  PROVE  StartIsWatched'
<1> SUFFICES ASSUME NEW x \in Torrents, x \notin freed', isRunning'[x], StopsIt(x)' \/ ~swarm'[x]
             PROVE  Posted("torrentStartImpl", x)' \/ x \in overtaken'
  BY DEF StartIsWatched, Live
<1>1. x \in Live
  BY FreedStays DEF Live
<1>2. overtaken \subseteq overtaken'
  BY OvertakenStays
<1>3. CASE Started(x) /\ ev = Idle
  BY <1>3, IdleStops DEF Started
<1>4. ASSUME isRunning[x], StopsIt(x) \/ ~swarm[x]
      PROVE  Posted("torrentStartImpl", x)' \/ x \in overtaken'
  <2>1. Posted("torrentStartImpl", x) \/ x \in overtaken
    BY <1>1, <1>4 DEF StartIsWatched
  <2>2. CASE Posted("torrentStartImpl", x)
    <3>1. \/ Posted("torrentStartImpl", x)'
          \/ ReadFromPipe /\ Head(pipe).fn = "torrentStartImpl" /\ Head(pipe).tor = x
      BY <2>2, PostedStays
    <3>2. CASE ReadFromPipe /\ Head(pipe).fn = "torrentStartImpl" /\ Head(pipe).tor = x
      BY <1>1, <1>3, <3>2, ReadFlags DEF ReadFromPipe
    <3> QED
      BY <3>1, <3>2
  <2> QED
    BY <1>2, <2>1, <2>2
<1>5. CASE SameFlags(x)
  <2>1. isRunning[x] /\ (~swarm'[x] => ~swarm[x])
    BY <1>5 DEF SameFlags, SameRunning, SameSwarm
  <2>2. CASE StopsIt(x)'
    <3>1. ~BandwidthPulse(x) /\ ~ClientStop(x) /\ ~(VerifyStopsFirst /\ ev.tor = x)
      BY StoppersClear
    <3>2. StopsIt(x)
      BY <2>2, <3>1, WhoPosts, WhoStops, ReadStays DEF ReadFromPipe, StopsIt, StopPosted
    <3> QED
      BY <1>4, <2>1, <3>2
  <2> QED
    BY <1>4, <2>1, <2>2
<1>6. CASE StopTorrent /\ ev.tor = x
  <2>1. Stopping(x) /\ isRunning[x]
    BY <1>6, StopEndsSwarm
  <2> QED
    BY <1>4, <2>1 DEF StopsIt
<1>7. CASE Post("torrentStartImpl", x)
  <2>1. PICK m \in Messages : m.fn = "torrentStartImpl" /\ m.tor = x /\ pipe' = Append(pipe, m)
    BY <1>7 DEF Post, Message, Messages, Fns
  <2> QED
    BY <2>1, AppendedStays
<1> QED
  BY <1>3, <1>5, <1>6, <1>7, FlagSteps, LoopEnters DEF FlagStep

LEMMA StepWatched ==
  ASSUME Base, SwarmIsWatched, StartIsWatched, [LNext]_lvars
  PROVE  SwarmIsWatched' /\ StartIsWatched'
<1>1. CASE UNCHANGED lvars
  BY <1>1 DEF lvars, vars, flagVars, SwarmIsWatched, StartIsWatched, Live, StopsIt, Stopping,
              StopPosted, Posted, InPipe
<1> QED
  BY <1>1, StepSwarmWatched, StepStartWatched

LEMMA InitWatched == LInit => SwarmIsWatched /\ StartIsWatched
<1> SUFFICES ASSUME LInit PROVE SwarmIsWatched /\ StartIsWatched
  OBVIOUS
<1>1. \A t : ~StopsIt(t)
  BY FrameFacts DEF LInit, Init, StopsIt, Stopping, StopPosted, Posted, InPipe
<1> QED
  BY <1>1 DEF LInit, SwarmIsWatched, StartIsWatched

\* As long as a client thread's isRunning and the swarm differ, the handler that
\* will bring them together is in the pipe or under way.
THEOREM FlagAndSwarmMeetHolds == LSpec => []FlagAndSwarmMeet
<1>1. LSpec => [](SwarmIsWatched /\ StartIsWatched)
  <2>1. Base /\ SwarmIsWatched /\ StartIsWatched /\ [LNext]_lvars
        => (SwarmIsWatched /\ StartIsWatched)'
    BY StepWatched
  <2> QED
    BY <2>1, InitWatched, BaseHolds, PTL DEF LSpec
<1>2. SwarmIsWatched /\ StartIsWatched => FlagAndSwarmMeet
  BY DEF SwarmIsWatched, StartIsWatched, FlagAndSwarmMeet, StopsIt, Stopping, StopPosted, Posted
<1> QED
  BY <1>1, <1>2, PTL

-----------------------------------------------------------------------------
(* All the requests come over RPC.                                         *)

Answers == [fn : {"onVerifyDone"}, tor : Torrents, aborted : BOOLEAN]
OnlyAnswers == client = ClientIdle /\ pipe \in Seq(Answers)

\* No client steps, and no message but an answer of the verify thread.
LEMMA NoClient ==
  ASSUME ClientCalls = {}, OnlyAnswers
  PROVE  ~Client /\ \A t : ~ClientStop(t)
BY DEF OnlyAnswers, Client, ClientStart, ClientStop, ClientVerify, ClientRemove, ClientCall,
       ClientStartAfterVerify, ClientStartNow, ClientIdle

LEMMA HeadIsAnswer ==
  ASSUME OnlyAnswers, ReadFromPipe
  PROVE  Head(pipe).fn = "onVerifyDone" /\ Tail(pipe) \in Seq(Answers)
<1>1. pipe \in Seq(Answers) /\ pipe # <<>>
  BY DEF OnlyAnswers, ReadFromPipe
<1>2. Head(pipe) \in Answers /\ Tail(pipe) \in Seq(Answers)
  BY <1>1, HeadTailProperties
<1> QED
  BY <1>2 DEF Answers

LEMMA StepAnswers ==
  ASSUME ClientCalls = {}, Base, OnlyAnswers, [LNext]_lvars
  PROVE  OnlyAnswers'
<1>1. CASE LThread
  <2>1. CASE ScanReport /\ pipe' = Append(pipe, Message("onVerifyDone", current, stopCurrent))
             /\ UNCHANGED askVars
    <3>1. Message("onVerifyDone", current, stopCurrent) \in Answers
      BY <2>1 DEF ScanReport, Base, TypeOK, Structure, Busy, Message, Answers
    <3>2. pipe \in Seq(Answers)
      BY DEF OnlyAnswers
    <3>3. pipe' \in Seq(Answers)
      BY <2>1, <3>1, <3>2, AppendProperties
    <3> QED
      BY <2>1, <3>3 DEF OnlyAnswers, askVars
  <2> QED
    BY <1>1, <2>1 DEF LThread, OnlyAnswers, askVars
<1>2. CASE ReadFromPipe
  BY <1>2, HeadIsAnswer DEF ReadFromPipe, OnlyAnswers, askVars
<1>3. CASE Rpc
  BY <1>3 DEF Rpc, RpcStart, RpcStop, RpcVerify, RpcRemove, Request, OnlyAnswers
<1>4. CASE InHandler \/ Peers \/ \E t \in Torrents : BandwidthPulse(t)
  BY <1>4 DEF InHandler, InRemove, StopTorrent, CloseTorrent, VerifyStopsFirst, VerifyTorrent,
              Peers, GotPiece, GotMetadata, LocalError, BandwidthPulse, OnlyAnswers, askVars
<1>5. CASE UNCHANGED lvars
  BY <1>5 DEF lvars, askVars, OnlyAnswers
<1> QED
  BY <1>1, <1>2, <1>3, <1>4, <1>5, NoClient DEF LNext, Handler, InHandler

\* A handler that stops a torrent clears its flag first; else flag and swarm
\* agree.
SwarmTellsRunning ==
  \A t \in Live : IF Stopping(t) THEN ~isRunning[t] ELSE (isRunning[t] <=> swarm[t])

LEMMA StepTellsRunning ==
  ASSUME ClientCalls = {}, Base, OnlyAnswers, SwarmTellsRunning, [LNext]_lvars
  PROVE  SwarmTellsRunning'
<1>1. CASE LNext
  <2> SUFFICES ASSUME NEW x \in Torrents, x \notin freed'
               PROVE  IF Stopping(x)' THEN ~isRunning'[x] ELSE (isRunning'[x] <=> swarm'[x])
    BY DEF SwarmTellsRunning, Live
  <2>1. x \in Live
    BY <1>1, FreedStays DEF Live
  <2>2. FlagStep(x)
    BY <1>1, FlagSteps
  <2>3. ~ClientStop(x) /\ ~ClientStartNow
    BY NoClient DEF Client
  <2>4. BandwidthPulse(x) \/ (VerifyStopsFirst /\ ev.tor = x) => ~isRunning'[x] /\ Stopping(x)'
    BY StoppersClear, PulseStops, StopFirstStops DEF VerifyStopsFirst, Stopping
  <2>5. CASE Stopping(x)'
    <3>1. Stopping(x) \/ BandwidthPulse(x) \/ (VerifyStopsFirst /\ ev.tor = x)
      BY <1>1, <2>5, WhoStops, HeadIsAnswer
    <3>2. CASE Stopping(x)
      <4>1. ~isRunning[x] /\ ev # Idle
        BY <2>1, <3>2, FrameFacts DEF SwarmTellsRunning, Stopping
      <4>2. ~ReadFromPipe /\ ~Rpc
        BY <4>1, LoopEnters
      <4> QED
        BY <2>2, <2>3, <2>4, <2>5, <4>1, <4>2 DEF FlagStep, SameFlags, SameRunning
    <3> QED
      BY <2>4, <2>5, <3>1, <3>2
  <2>6. CASE ~Stopping(x)'
    <3>1. CASE Stopping(x)
      <4>1. StopTorrent /\ ev.tor = x
        BY <1>1, <2>6, <3>1, StoppingStays
      <4>2. ~isRunning[x]
        BY <2>1, <3>1 DEF SwarmTellsRunning
      <4> QED
        BY <2>6, <4>1, <4>2, StopEndsSwarm
    <3>2. CASE ~Stopping(x)
      <4>1. isRunning[x] <=> swarm[x]
        BY <2>1, <3>2 DEF SwarmTellsRunning
      <4>2. ~(StopTorrent /\ ev.tor = x)
        BY <3>2, StopEndsSwarm
      <4> QED
        BY <2>2, <2>3, <2>4, <2>6, <4>1, <4>2 DEF FlagStep, SameFlags, SameRunning, SameSwarm,
                                                  Started
    <3> QED
      BY <3>1, <3>2
  <2> QED
    BY <2>5, <2>6
<1>2. CASE UNCHANGED lvars
  BY <1>2 DEF lvars, vars, flagVars, SwarmTellsRunning, Live, Stopping
<1> QED
  BY <1>1, <1>2

LEMMA InitRpc == LInit => OnlyAnswers /\ SwarmTellsRunning
<1> SUFFICES ASSUME LInit PROVE OnlyAnswers /\ SwarmTellsRunning
  OBVIOUS
<1>1. OnlyAnswers
  BY EmptySeq DEF LInit, OnlyAnswers
<1>2. SwarmTellsRunning
  BY FrameFacts DEF LInit, Init, SwarmTellsRunning, Stopping
<1> QED
  BY <1>1, <1>2

LEMMA RpcHolds ==
  ASSUME ClientCalls = {}
  PROVE  LSpec => [](OnlyAnswers /\ SwarmTellsRunning)
<1>1. Base /\ OnlyAnswers /\ SwarmTellsRunning /\ [LNext]_lvars
      => (OnlyAnswers /\ SwarmTellsRunning)'
  BY StepAnswers, StepTellsRunning
<1> QED
  BY <1>1, InitRpc, BaseHolds, PTL DEF LSpec

\* With all the requests coming over RPC, flag and swarm of every torrent agree
\* whenever the event thread is between two handlers.
THEOREM FlagAndSwarmAgree ==
  ASSUME ClientCalls = {}
  PROVE  LSpec => []RunningMeansSwarm
<1>1. Base /\ SwarmTellsRunning => RunningMeansSwarm
  <2> SUFFICES ASSUME Base, SwarmTellsRunning, ev = Idle, NEW t \in Live
               PROVE  isRunning[t] = swarm[t]
    BY DEF RunningMeansSwarm
  <2>1. isRunning[t] <=> swarm[t]
    BY FrameFacts DEF SwarmTellsRunning, Stopping
  <2>2. isRunning[t] \in BOOLEAN /\ swarm[t] \in BOOLEAN
    BY DEF Base, FlagTypes, Flags, Live
  <2> QED
    BY <2>1, <2>2
<1> QED
  BY <1>1, BaseHolds, RpcHolds, PTL

-----------------------------------------------------------------------------
(* ... and no magnet is verified on request.                               *)

MagnetsUnasked == \A t \in Magnets : <<"verify", t>> \notin RpcCalls

OthersHaveMetadata == \A t \in Torrents \ Magnets : hasMetadata[t] /\ ~magnetVerify[t]

\* A verifyTorrent(), and what it calls, is not interrupted by the metadata of its
\* torrent, and so queues it once.
Verifies(frame) == frame.fn = "verifyTorrent" \/ frame.caller = "verifyTorrent"
VerifierHasMetadata == Verifies(ev) => ~magnetVerify[ev.tor]
NoneIsDoubled == doubled = {}

Engaged(t) == Waits(t) \/ InLoop(t)
NoSwarmIsBusy == \A t \in Live : swarm[t] => ~Engaged(t)

Unhurried ==
  /\ OthersHaveMetadata /\ VerifierHasMetadata /\ NoneIsDoubled /\ Told /\ NoSwarmIsBusy

LEMMA StepMetadata ==
  ASSUME Base, OthersHaveMetadata, LNext
  PROVE  OthersHaveMetadata'
BY MagnetSteps DEF OthersHaveMetadata

LEMMA StepDoubled ==
  ASSUME Base, VerifierHasMetadata, NoneIsDoubled, LNext
  PROVE  NoneIsDoubled'
<1>1. doubled' \subseteq Torrents
  BY StepBase DEF Base, TypeOK
<1> QED
  BY <1>1, MagnetSteps DEF VerifierHasMetadata, Verifies, NoneIsDoubled

\* Who is verifying after a step.
LEMMA WhoVerifies ==
  ASSUME Base, LNext, Verifies(ev')
  PROVE  \/ Verifies(ev) /\ ev'.tor = ev.tor
         \/ StopTorrent /\ ev' = Frame("verifyTorrent", ev.tor, "call", ev.caller)
         \/ \E t \in Torrents : RpcVerify(t) /\ ev'.tor = t
         \/ ReadFromPipe /\ Head(pipe).fn = "verifyTorrent"
<1>1. CASE UNCHANGED ev
  BY <1>1
<1>2. CASE LThread \/ Peers \/ Client
  BY <1>1, <1>2, EvStays
<1>3. CASE ReadFromPipe
  <2>1. Remove(Head(pipe).fn, Head(pipe).tor, "loop") \/ ev' = ev
    BY <1>3 DEF ReadFromPipe, CallStop, CallVerify, CallRemove, StartImpl, OnVerifyDone, vars
  <2> QED
    BY <1>1, <1>3, <2>1, RemoveEnters DEF Verifies
<1>4. CASE InRemove
  BY <1>4, InRemoveStays DEF Verifies
<1>5. CASE StopTorrent \/ VerifyTorrent
  <2>1. ev' = Return \/ (StopTorrent /\ ev' = Frame("verifyTorrent", ev.tor, "call", ev.caller))
    BY <1>5 DEF StopTorrent, Stopped, VerifyTorrent, AddScan, GiveUp
  <2>2. CASE ev' = Return
    BY <2>2, ReturnFacts, FrameFacts DEF Base, Verifies
  <2> QED
    BY <2>1, <2>2
<1>6. CASE CloseTorrent
  BY <1>6, FrameFacts DEF CloseTorrent, Freed, Verifies
<1>7. CASE VerifyStopsFirst
  BY <1>7, StopFirstStops DEF VerifyStopsFirst, StopFirst, Verifies
<1>8. CASE \E t \in Torrents : BandwidthPulse(t)
  BY <1>8, RemoveEnters DEF BandwidthPulse, CallStop, Verifies
<1>9. CASE \E t \in Torrents : RpcStart(t) \/ RpcStop(t) \/ RpcRemove(t)
  <2>1. UNCHANGED ev \/ \E t \in Torrents : Remove("removeTorrent", t, "loop")
    BY <1>9 DEF RpcStart, RpcStop, RpcRemove, CallRemove, vars
  <2> QED
    BY <1>1, <2>1, RemoveEnters DEF Verifies
<1>10. CASE \E t \in Torrents : RpcVerify(t)
  BY <1>10, RemoveEnters DEF RpcVerify, CallVerify
<1> QED
  BY <1>2, <1>3, <1>4, <1>5, <1>6, <1>7, <1>8, <1>9, <1>10 DEF LNext, Handler, Rpc

LEMMA StepVerifier ==
  ASSUME MagnetsUnasked, Base, OnlyAnswers, OthersHaveMetadata, VerifierHasMetadata, LNext
  PROVE  VerifierHasMetadata'
<1> SUFFICES ASSUME Verifies(ev')
             PROVE  ~magnetVerify'[ev'.tor]
  BY DEF VerifierHasMetadata
<1>1. CASE Verifies(ev) /\ ev'.tor = ev.tor
  <2>1. ev # Idle
    BY <1>1, FrameFacts DEF Verifies
  <2>2. ev.tor \in Torrents /\ ~GotMetadata
    BY <2>1, HandlerFacts DEF GotMetadata
  <2> QED
    BY <1>1, <2>2, MagnetSteps DEF VerifierHasMetadata
<1>2. CASE StopTorrent /\ ev' = Frame("verifyTorrent", ev.tor, "call", ev.caller)
  <2>1. PICK x \in Torrents : x = ev.tor
    BY <1>2, HandlerFacts, MiddleIsBusy DEF InHandler
  <2>2. ev'.tor = x
    BY <1>2, <2>1, FrameFacts
  <2>3. ev' # Idle /\ ev'.fn = "verifyTorrent" /\ ev'.phase = "call"
    BY <1>2, FrameFacts
  <2>4. ev' # Return
    BY <2>3, ReturnFacts, FrameFacts DEF Base
  <2>5. magnetVerify' = [magnetVerify EXCEPT ![x] = FALSE]
    BY <1>2, <2>1, <2>4 DEF StopTorrent, Stopped
  <2>6. ~magnetVerify'[x]
    BY <2>5 DEF Base, TypeOK
  <2> QED
    BY <2>2, <2>6
<1>3. CASE \E t \in Torrents : RpcVerify(t) /\ ev'.tor = t
  <2>1. PICK t \in Torrents : RpcVerify(t) /\ ev'.tor = t
    BY <1>3
  <2>2. t \in Torrents \ Magnets /\ magnetVerify' = magnetVerify
    BY <2>1 DEF RpcVerify, Request, CallVerify, MagnetsUnasked, torrentVars
  <2> QED
    BY <2>1, <2>2 DEF OthersHaveMetadata
<1> QED
  BY <1>1, <1>2, <1>3, WhoVerifies, HeadIsAnswer

\* A torrent gets busy only when the handler that verifies it queues it.
LEMMA EngagedGrows ==
  ASSUME Base, LNext, NEW x \in Torrents, Engaged(x)'
  PROVE  Engaged(x) \/ (VerifyTorrent /\ ev.tor = x)
<1> USE DEF Engaged, Waits, InLoop, Waiting
<1>1. CASE UNCHANGED queueVars
  BY <1>1 DEF queueVars
<1>2. ASSUME verifyList' \subseteq verifyList, current' = current, thread' = thread
      PROVE  Engaged(x)
  BY <1>2
<1>3. CASE LThread
  <2>1. CASE ThreadTake
    <3>1. PICK n \in verifyList : current' = n.tor /\ verifyList' = verifyList \ {n}
      BY <2>1 DEF ThreadTake, First
    <3> QED
      BY <3>1
  <2>2. CASE ThreadEnd
    BY <2>2 DEF ThreadEnd
  <2>3. CASE ScanBegin \/ ScanPiece \/ ScanEnd \/ ScanReport
    BY <2>3 DEF ScanBegin, ScanPiece, ScanEnd, ScanReport, queueVars
  <2> QED
    BY <1>3, <2>1, <2>2, <2>3 DEF LThread
<1>4. CASE EnterStep
  BY <1>2, <1>4 DEF EnterStep, Remove, RemoveCurrent, RemoveWaiting
<1>5. CASE InRemove
  BY <1>1, <1>2, <1>5 DEF InRemove, RemoveReturn, NestedCall, Remove, RemoveCurrent, RemoveWaiting
<1>6. CASE StopTorrent \/ CloseTorrent \/ VerifyStopsFirst
  BY <1>1, <1>6 DEF StopTorrent, Stopped, CloseTorrent, Freed, VerifyStopsFirst, StopFirst
<1>7. CASE VerifyTorrent
  <2>1. CASE AddScan
    <3>1. PICK t \in Torrents : t = ev.tor
      BY <1>7, HandlerFacts, MiddleIsBusy DEF InHandler
    <3>2. PICK n \in Node : n.tor = t /\ verifyList' = verifyList \cup {n}
      BY <2>1, <3>1, AddFacts DEF AddScan, Base
    <3>3. current' = current /\ (thread' = thread \/ thread' = "top")
      BY <2>1 DEF AddScan, VerifyAdd
    <3> QED
      BY <1>7, <3>1, <3>2, <3>3
  <2> QED
    BY <1>1, <1>7, <2>1 DEF VerifyTorrent, GiveUp
<1>8. CASE OtherStep
  BY <1>1, <1>8 DEF OtherStep
<1>9. CASE ReadFromPipe \/ Rpc \/ \E t \in Torrents : BandwidthPulse(t)
  BY <1>4, <1>8, <1>9, PipeIsStep, RpcIsStep, PulseIsStep
<1>10. CASE Peers \/ Client
  BY <1>8, <1>10, PeersIsOther, ClientIsQuiet, QuietIsOther
<1> QED
  BY <1>3, <1>5, <1>6, <1>7, <1>9, <1>10 DEF LNext, Handler

LEMMA StepNoSwarmIsBusy ==
  ASSUME ClientCalls = {}, Base, OnlyAnswers, SwarmTellsRunning, NoneIsDoubled, Told, NoSwarmIsBusy,
         LNext
  PROVE  NoSwarmIsBusy'
<1> SUFFICES ASSUME NEW x \in Torrents, x \notin freed', swarm'[x], Engaged(x)'
             PROVE  FALSE
  BY DEF NoSwarmIsBusy, Live
<1>1. x \in Live /\ FlagStep(x) /\ ~ClientStop(x) /\ ~ClientStartNow
  BY FreedStays, FlagSteps, NoClient DEF Live, Client
<1>2. CASE Engaged(x)
  <2>1. ~swarm[x] /\ verifyState[x] # "none"
    BY <1>1, <1>2 DEF NoSwarmIsBusy, NoneIsDoubled, Told, Tells, Engaged
  <2> QED
    BY <1>1, <2>1, HeadIsAnswer DEF FlagStep, SameFlags, SameSwarm
<1>3. CASE VerifyTorrent /\ ev.tor = x
  <2>1. ev.fn = "verifyTorrent" /\ ev.phase \in {"after", "add"} /\ swarm' = swarm
    BY <1>3 DEF VerifyTorrent, AddScan, GiveUp
  <2>2. ~isRunning[x]
    BY <1>3, <2>1 DEF VerifyTorrent, Base, CallerStopped
  <2>3. ~Stopping(x)
    BY <2>1 DEF Stopping
  <2> QED
    BY <1>1, <2>1, <2>2, <2>3 DEF SwarmTellsRunning
<1> QED
  BY <1>2, <1>3, EngagedGrows

LEMMA StepUnhurried ==
  ASSUME ClientCalls = {}, MagnetsUnasked, Base, OnlyAnswers, SwarmTellsRunning, Unhurried,
         [LNext]_lvars
  PROVE  Unhurried'
<1>1. CASE LNext
  <2>1. OthersHaveMetadata' /\ VerifierHasMetadata' /\ NoneIsDoubled'
    BY <1>1, StepMetadata, StepVerifier, StepDoubled DEF Unhurried
  <2>2. Told'
    BY <1>1, VerifierSteps, StepBase, StepTold DEF Base, Unhurried
  <2>3. NoSwarmIsBusy'
    BY <1>1, StepNoSwarmIsBusy DEF Unhurried
  <2> QED
    BY <2>1, <2>2, <2>3 DEF Unhurried
<1>2. CASE UNCHANGED lvars
  BY <1>2 DEF lvars, vars, flagVars, askVars, Unhurried, OthersHaveMetadata, VerifierHasMetadata,
              Verifies, NoneIsDoubled, Told, Tells, NoSwarmIsBusy, Engaged, Waits, InLoop, Waiting,
              Live
<1> QED
  BY <1>1, <1>2

LEMMA InitUnhurried == LInit => Unhurried
<1> SUFFICES ASSUME LInit PROVE Unhurried
  OBVIOUS
<1>1. OthersHaveMetadata
  BY DEF LInit, OthersHaveMetadata
<1>2. VerifierHasMetadata /\ NoneIsDoubled
  BY FrameFacts DEF LInit, Init, VerifierHasMetadata, Verifies, NoneIsDoubled
<1>3. \A t : ~Engaged(t)
  BY DEF LInit, Init, Engaged, Waits, InLoop, Waiting
<1> QED
  BY <1>1, <1>2, <1>3, InitTold DEF Unhurried, NoSwarmIsBusy, LInit

\* With all the requests coming over RPC, and none to verify a magnet, the
\* peers of a torrent are not active while it is verified or waits for it.
THEOREM ScansAreUndisturbed ==
  ASSUME ClientCalls = {}, MagnetsUnasked
  PROVE  LSpec => []NoSwarmWhileVerifying
<1>1. Base /\ OnlyAnswers /\ SwarmTellsRunning /\ Unhurried /\ [LNext]_lvars => Unhurried'
  BY StepUnhurried
<1>2. Unhurried => NoSwarmWhileVerifying
  BY DEF Unhurried, NoSwarmIsBusy, NoSwarmWhileVerifying, Engaged, Waits, InLoop
<1>3. LSpec => [](OnlyAnswers /\ SwarmTellsRunning)
  BY RpcHolds
<1> QED
  BY <1>1, <1>2, <1>3, InitUnhurried, BaseHolds, PTL DEF LSpec
=============================================================================
