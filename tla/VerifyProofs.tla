---------------------------- MODULE VerifyProofs ----------------------------
(***************************************************************************)
(* The safety properties of module Verify, for any number of torrents,     *)
(* pieces and list nodes.                                                  *)
(*                                                                         *)
(* The inductive invariant is built in three layers: how many pointers to  *)
(* a torrent there are, and the stop flag (Structure), what the rest of    *)
(* the program reads off that (Told, CallbackOwed), and what a scan has    *)
(* found (ScanSoFar).  Each layer is proved from those under it.  The step *)
(* lemmas are stated for VerifyStep, so that they also serve the system    *)
(* of TorrentLifecycle, in which the torrents change in other ways too.    *)
(***************************************************************************)
EXTENDS Verify, FiniteSetTheorems, TLAPS

Busy == {"mark", "scan", "report"}
Callers == {"loop", "bandwidthPulse", "verifyTorrent"}
Phases == {"call", "waiting", "after", "add"}

-----------------------------------------------------------------------------
\* A torrent has one pointer in the verifier, and a second one if it is doubled;
\* one less when tr_verifyRemove has been called for it and the thread has lowered
\* its flag.  A verifyTorrent() that is called by another one finds none at all:
\* its torrent gets doubled only now.
Structure ==
  /\ IsFiniteSet(verifyList)
  /\ thread = "none" => current = None /\ verifyList = {}
  /\ thread \in Busy => current \in Torrents
  /\ \A t \in doubled : ~magnetVerify[t]
  /\ \A t \in Torrents : Pointers(t) <= 1 + Leftover(t)
  /\ ev # Idle /\ ~(ev.phase = "waiting" /\ stopCurrent) => Pointers(ev.tor) <= Leftover(ev.tor)
  /\ ev.caller = "verifyTorrent" => Pointers(ev.tor) <= Leftover(ev.tor)
  /\ ev.caller = "verifyTorrent" /\ ev.fn = "verifyTorrent" =>
        Pointers(ev.tor) = 0 /\ ev.tor \in doubled
  /\ ev.phase = "waiting" /\ stopCurrent => current = ev.tor
  /\ \A t \in freed : Pointers(t) <= Leftover(t) /\ ev.tor # t
  /\ StopHitsItsTorrent

-----------------------------------------------------------------------------
(* The steps.                                                              *)

\* A handler enters tr_verifyRemove; it may clear the torrent's magnetVerify.
EnterStep ==
  /\ \E fn \in Handlers, t \in Live, caller \in Callers :
       /\ Remove(fn, t, caller)
       /\ \/ ev = Idle /\ caller # "verifyTorrent"
          \/ ev = Frame(fn, t, "call", caller)
  /\ magnetVerify' \in [Torrents -> BOOLEAN]
  /\ \A x \in Torrents : magnetVerify'[x] => magnetVerify[x]
  /\ UNCHANGED <<freed, doubled>>

\* Pieces and metadata arrive.
OtherStep ==
  /\ have' \in [Torrents -> SUBSET Pieces] /\ disk' \in [Torrents -> SUBSET Pieces]
  /\ magnetVerify' \in [Torrents -> BOOLEAN]
  /\ \A t \in doubled : ~magnetVerify'[t]
  /\ UNCHANGED <<queueVars, pieceIndex, checked, verifyState, ev, closed, owed, report,
                 freed, doubled>>

VerifyStep == \/ VerifyThread \/ EnterStep \/ RemoveReturn \/ StopFirst \/ AddScan \/ GiveUp
              \/ Stopped \/ Freed \/ OtherStep

\* What is known of the event thread.
LEMMA FrameFacts ==
  /\ \A fn, t, phase, caller :
       LET f == Frame(fn, t, phase, caller)
       IN f.fn = fn /\ f.tor = t /\ f.phase = phase /\ f.caller = caller
  /\ Idle.fn = "idle" /\ Idle.tor = None /\ Idle.phase = "idle" /\ Idle.caller = "loop"
BY DEF Frame, Idle

LEMMA FrameType ==
  ASSUME NEW fn \in Handlers, NEW t \in Torrents, NEW phase \in Phases, NEW caller \in Callers
  PROVE  Frame(fn, t, phase, caller) \in Calls
BY DEF Frame, Calls, Phases, Callers

LEMMA EvFacts ==
  ASSUME TypeOK
  PROVE  \/ ev = Idle
         \/ /\ ev.fn \in Handlers /\ ev.tor \in Torrents /\ ev.phase \in Phases
            /\ ev.caller \in Callers
            /\ ev = Frame(ev.fn, ev.tor, ev.phase, ev.caller)
BY DEF TypeOK, Calls, Phases, Callers, Frame

LEMMA ReturnFacts ==
  ASSUME TypeOK
  PROVE  /\ Return \in Calls \cup {Idle}
         /\ ev.caller = "verifyTorrent" =>
              Return = Frame("verifyTorrent", ev.tor, "add", "loop")
         /\ ev.caller # "verifyTorrent" => Return = Idle
         /\ Return = Idle \/ (Return.tor = ev.tor /\ Return.phase = "add" /\ Return.caller = "loop")
<1>1. CASE ev.caller = "verifyTorrent"
  <2>1. ev # Idle
    BY <1>1, FrameFacts
  <2>2. ev.tor \in Torrents
    BY <2>1, EvFacts
  <2>3. Frame("verifyTorrent", ev.tor, "add", "loop") \in Calls
    BY <2>2, FrameType DEF Handlers, Phases, Callers
  <2> QED
    BY <1>1, <2>3, FrameFacts DEF Return
<1>2. CASE ev.caller # "verifyTorrent"
  BY <1>2 DEF Return
<1> QED
  BY <1>1, <1>2

\* A handler is entered by the event loop, or by another handler.
LEMMA CallsEnter ==
  ASSUME TypeOK, Structure
  PROVE  /\ \A t \in Live : ev = Idle /\ (CallVerify(t) \/ CallRemove(t)) => EnterStep
         /\ \A t \in Live, caller \in {"loop", "bandwidthPulse"} :
              ev = Idle /\ CallStop(t, caller) => EnterStep
         /\ NestedCall => EnterStep
<1>1. ASSUME NEW fn \in Handlers, NEW t \in Live, NEW caller \in Callers, Remove(fn, t, caller),
             (ev = Idle /\ caller # "verifyTorrent") \/ ev = Frame(fn, t, "call", caller),
             \/ magnetVerify' = magnetVerify
             \/ magnetVerify' = [magnetVerify EXCEPT ![t] = FALSE],
             UNCHANGED <<freed, doubled>>
      PROVE  EnterStep
  <2>1. /\ magnetVerify' \in [Torrents -> BOOLEAN]
        /\ \A x \in Torrents : magnetVerify'[x] => magnetVerify[x]
    BY <1>1 DEF TypeOK
  <2> QED
    BY <1>1, <2>1 DEF EnterStep
<1>2. Handlers = {"verifyTorrent", "stopTorrent", "removeTorrent"} /\ "loop" \in Callers
      /\ "bandwidthPulse" \in Callers
  BY DEF Callers, Handlers
<1>3. ASSUME NEW t \in Live, ev = Idle, CallVerify(t)
      PROVE  EnterStep
  BY <1>1, <1>2, <1>3 DEF CallVerify, torrentVars
<1>4. ASSUME NEW t \in Live, ev = Idle, CallRemove(t)
      PROVE  EnterStep
  BY <1>1, <1>2, <1>4 DEF CallRemove
<1>5. ASSUME NEW t \in Live, NEW caller \in {"loop", "bandwidthPulse"}, ev = Idle, CallStop(t, caller)
      PROVE  EnterStep
  <2>1. caller \in Callers /\ caller # "verifyTorrent"
    BY <1>2
  <2> QED
    BY <1>1, <1>2, <1>5, <2>1 DEF CallStop, torrentVars
<1>6. ASSUME NestedCall
      PROVE  EnterStep
  <2>1. /\ ev.fn \in Handlers /\ ev.tor \in Live /\ ev.caller \in Callers
        /\ ev = Frame(ev.fn, ev.tor, "call", ev.caller)
    BY <1>6, EvFacts, FrameFacts DEF NestedCall, Live, Structure
  <2> QED
    BY <1>1, <1>6, <2>1 DEF NestedCall, torrentVars
<1> QED
  BY <1>3, <1>4, <1>5, <1>6

\* None of these steps closes the verifier.
LEMMA ClosedStays == VerifyStep => closed' = closed
BY DEF VerifyStep, VerifyThread, ThreadTake, ThreadEnd, ScanBegin, ScanPiece, ScanEnd, ScanReport,
       EnterStep, Remove, RemoveCurrent, RemoveWaiting, RemoveReturn, StopFirst, AddScan, GiveUp,
       Stopped, Freed, OtherStep

\* Every step of the specification but tr_verifyClose is one of these.
LEMMA NextSteps ==
  ASSUME TypeOK, Structure, Next
  PROVE  (VerifyStep /\ closed' = closed) \/ Close
<1>1. CASE Call \/ NestedCall
  BY <1>1, CallsEnter, ClosedStays DEF Call, VerifyStep
<1> QED
  BY <1>1, ClosedStays DEF Next, EventThread, HandlerStep, VerifyStep

-----------------------------------------------------------------------------
(* Types.                                                                  *)

LEMMA ThreadTypes ==
  ASSUME TypeOK, VerifyThread
  PROVE  TypeOK'
<1> USE DEF TypeOK, pieceVars, queueVars, torrentVars
<1>1. CASE ThreadTake
  BY <1>1 DEF ThreadTake, First, Node
<1>2. CASE ThreadEnd
  BY <1>2 DEF ThreadEnd
<1>3. CASE ScanBegin
  <2>1. checked' \in [Torrents -> SUBSET Pieces]
    BY <1>3 DEF ScanBegin
  <2>2. 0 \in 0 .. PieceCount
    BY PieceCountAssumption
  <2> QED BY <1>3, <2>1, <2>2 DEF ScanBegin
<1>4. CASE ScanPiece
  <2>1. pieceIndex \in Pieces /\ pieceIndex + 1 \in 0 .. PieceCount
    BY <1>4, PieceCountAssumption DEF ScanPiece, SetHasPiece, Pieces
  <2>2. have' \in [Torrents -> SUBSET Pieces] /\ checked' \in [Torrents -> SUBSET Pieces]
    BY <1>4, <2>1 DEF ScanPiece, SetHasPiece
  <2> QED BY <1>4, <2>1, <2>2 DEF ScanPiece, SetHasPiece
<1>5. CASE ScanEnd
  BY <1>5 DEF ScanEnd
<1>6. CASE ScanReport
  <2>1. owed' \in [Torrents -> Int]
    <3>1. owed' = [owed EXCEPT ![current] = owed[current] - 1]
      BY <1>6 DEF ScanReport
    <3>2. CASE current \in Torrents
      BY <3>1, <3>2
    <3>3. CASE current = None
      BY <3>1, <3>3, NoneAssumption
    <3> QED BY <3>2, <3>3
  <2>2. report'.tor = current /\ report'.aborted = stopCurrent /\ report'.scanned = pieceIndex
    BY <1>6 DEF ScanReport
  <2> QED BY <1>6, <2>1, <2>2 DEF ScanReport
<1> QED
  BY <1>1, <1>2, <1>3, <1>4, <1>5, <1>6 DEF VerifyThread

LEMMA RemoveTypes ==
  ASSUME TypeOK, NEW fn \in Handlers, NEW t \in Torrents, NEW caller \in Callers,
         Remove(fn, t, caller), magnetVerify' \in [Torrents -> BOOLEAN], UNCHANGED <<freed, doubled>>
  PROVE  TypeOK' /\ ev' \in Calls
<1> USE DEF TypeOK, pieceVars, queueVars
<1>1. Frame(fn, t, "waiting", caller) \in Calls /\ Frame(fn, t, "after", caller) \in Calls
  BY FrameType DEF Phases
<1>2. CASE RemoveCurrent(fn, t, caller)
  BY <1>1, <1>2 DEF RemoveCurrent
<1>3. CASE RemoveWaiting(fn, t, caller)
  <2>1. verifyList' \subseteq verifyList
    BY <1>3 DEF RemoveWaiting
  <2>2. owed' \in [Torrents -> Int]
    <3>1. CASE owed' = owed
      BY <3>1
    <3>2. CASE owed' = [owed EXCEPT ![t] = @ - 1]
      BY <3>2
    <3> QED BY <1>3, <3>1, <3>2 DEF RemoveWaiting
  <2>3. verifyState' \in [Torrents -> {"none", "wait", "now"}]
    BY <1>3 DEF RemoveWaiting
  <2> HIDE DEF Node
  <2> QED BY <1>1, <1>3, <2>1, <2>2, <2>3 DEF RemoveWaiting
<1> QED
  BY <1>2, <1>3 DEF Remove

\* tr_verifyAdd puts one node into the list that was not there.
LEMMA AddFacts ==
  ASSUME TypeOK, NEW t \in Torrents, VerifyAdd(t)
  PROVE  \E n \in Node : n.tor = t /\ n \notin verifyList /\ verifyList' = verifyList \cup {n}
<1>1. PICK id \in FreeIds, size \in Sizes :
        verifyList' = verifyList \cup {[id |-> id, tor |-> t, size |-> size]}
  <2>1. (CHOOSE id \in FreeIds : TRUE) \in FreeIds
    BY DEF VerifyAdd
  <2> QED BY <2>1 DEF VerifyAdd
<1> DEFINE new == [id |-> id, tor |-> t, size |-> size]
<1>2. new \in Node /\ new.tor = t /\ new.id = id
  BY DEF Node, FreeIds
<1>3. verifyList' = verifyList \cup {new}
  BY <1>1
<1> HIDE DEF new
<1>4. new \notin verifyList
  BY <1>2 DEF FreeIds
<1> QED BY <1>2, <1>3, <1>4

LEMMA StepTypes ==
  ASSUME TypeOK, VerifyStep
  PROVE  TypeOK'
<1>1. CASE VerifyThread
  BY <1>1, ThreadTypes
<1>2. CASE EnterStep
  <2>1. PICK fn \in Handlers, t \in Torrents, caller \in Callers : Remove(fn, t, caller)
    BY <1>2 DEF EnterStep, Live
  <2> QED BY <1>2, <2>1, RemoveTypes DEF EnterStep
<1>3. ASSUME ev' \in Calls \cup {Idle},
             verifyList' \subseteq Node, thread' \in {"none", "top", "mark", "scan", "report"},
             verifyState' \in [Torrents -> {"none", "wait", "now"}], owed' \in [Torrents -> Int],
             magnetVerify' \in [Torrents -> BOOLEAN], freed' \subseteq Torrents,
             doubled' \subseteq Torrents, UNCHANGED <<current, stopCurrent, pieceVars, closed, report>>
      PROVE  TypeOK'
  BY <1>3 DEF TypeOK, pieceVars
<1>4. CASE RemoveReturn
  <2>1. ev' = Frame(ev.fn, ev.tor, "after", ev.caller) /\ ev # Idle
    BY <1>4, EvFacts, FrameFacts DEF RemoveReturn, Frame
  <2>2. ev' \in Calls
    BY <2>1, EvFacts, FrameType DEF Phases
  <2> QED BY <1>3, <1>4, <2>2 DEF RemoveReturn, TypeOK, queueVars, torrentVars
<1>5. CASE StopFirst
  <2>1. ev.tor \in Torrents
    BY <1>5, EvFacts, FrameFacts DEF StopFirst
  <2>2. ev' \in Calls
    BY <1>5, <2>1, FrameType DEF StopFirst, Phases, Callers, Handlers
  <2> QED BY <1>3, <1>5, <2>2 DEF StopFirst, TypeOK, queueVars, torrentVars
<1>6. CASE AddScan
  <2>1. ev.tor \in Torrents
    BY <1>6, EvFacts, FrameFacts DEF AddScan
  <2>4. verifyList' \subseteq Node
    BY <1>6, <2>1, AddFacts DEF AddScan, TypeOK
  <2>5. verifyState' \in [Torrents -> {"none", "wait", "now"}] /\ owed' \in [Torrents -> Int]
    BY <1>6, <2>1 DEF AddScan, VerifyAdd, TypeOK
  <2>6. thread' \in {"none", "top", "mark", "scan", "report"}
    BY <1>6 DEF AddScan, VerifyAdd, TypeOK
  <2> QED BY <1>3, <1>6, <2>4, <2>5, <2>6, ReturnFacts DEF AddScan, VerifyAdd, TypeOK, torrentVars
<1>7. CASE GiveUp
  BY <1>3, <1>7, ReturnFacts DEF GiveUp, TypeOK, queueVars, torrentVars
<1>8. CASE Stopped
  <2>1. ev.tor \in Torrents /\ ev.caller \in Callers
    BY <1>8, EvFacts, FrameFacts DEF Stopped
  <2>2. Frame("verifyTorrent", ev.tor, "call", ev.caller) \in Calls
    BY <2>1, FrameType DEF Phases, Handlers
  <2>3. ev' \in Calls \cup {Idle}
    BY <1>8, <2>2, ReturnFacts DEF Stopped
  <2>4. magnetVerify' \in [Torrents -> BOOLEAN] /\ doubled' \subseteq Torrents /\ freed' = freed
    BY <1>8, <2>1 DEF Stopped, TypeOK, torrentVars
  <2> QED BY <1>3, <1>8, <2>3, <2>4 DEF Stopped, TypeOK, queueVars
<1>9. CASE Freed
  <2>1. ev.tor \in Torrents
    BY <1>9, EvFacts, FrameFacts DEF Freed
  <2> QED BY <1>3, <1>9, <2>1 DEF Freed, TypeOK, queueVars
<1>10. CASE OtherStep
  BY <1>10 DEF OtherStep, TypeOK, queueVars
<1> QED
  BY <1>1, <1>2, <1>4, <1>5, <1>6, <1>7, <1>8, <1>9, <1>10 DEF VerifyStep

LEMMA InitTypes == Init => TypeOK
<1> SUFFICES ASSUME Init PROVE TypeOK
  OBVIOUS
<1>1. checked \in [Torrents -> SUBSET Pieces] /\ owed \in [Torrents -> Int]
  BY DEF Init
<1>2. 0 \in 0 .. PieceCount
  BY PieceCountAssumption
<1>3. report.tor \in Torrents \cup {None} /\ report.aborted \in BOOLEAN /\ report.scanned \in 0 .. PieceCount
  BY <1>2 DEF Init, NoReport
<1>4. disk \in [Torrents -> SUBSET Pieces]
  BY DisksAssumption DEF Init
<1> QED BY <1>1, <1>2, <1>3, <1>4 DEF Init, TypeOK

-----------------------------------------------------------------------------
(* Counting.                                                               *)

LEMMA CountType ==
  ASSUME IsFiniteSet(verifyList), NEW t
  PROVE  /\ IsFiniteSet(NodesOf(t)) /\ Cardinality(NodesOf(t)) \in Nat
         /\ Cardinality(NodesOf(t)) = 0 <=> \A n \in verifyList : n.tor # t
<1>1. NodesOf(t) \in SUBSET verifyList
  BY DEF NodesOf
<1>2. IsFiniteSet(NodesOf(t))
  BY <1>1, FS_Subset
<1>3. Cardinality(NodesOf(t)) \in Nat /\ (Cardinality(NodesOf(t)) = 0 <=> NodesOf(t) = {})
  BY <1>2, FS_CardinalityType, FS_EmptySet
<1> QED BY <1>2, <1>3 DEF NodesOf

\* The nodes of a torrent when one node is taken from the list, or put into it.
LEMMA TakeCounts ==
  ASSUME IsFiniteSet(verifyList), NEW n \in verifyList, verifyList' = verifyList \ {n}, NEW t
  PROVE  /\ IsFiniteSet(verifyList)'
         /\ n.tor = t => Cardinality(NodesOf(t))' = Cardinality(NodesOf(t)) - 1
         /\ n.tor # t => Cardinality(NodesOf(t))' = Cardinality(NodesOf(t))
<1>1. IsFiniteSet(verifyList')
  BY FS_RemoveElement
<1>2. CASE n.tor = t
  <2>1. NodesOf(t)' = NodesOf(t) \ {n} /\ n \in NodesOf(t)
    BY <1>2 DEF NodesOf
  <2> QED BY <1>1, <1>2, <2>1, CountType, FS_RemoveElement
<1>3. CASE n.tor # t
  <2>1. NodesOf(t)' = NodesOf(t)
    BY <1>3 DEF NodesOf
  <2> QED BY <1>1, <1>3, <2>1
<1> QED BY <1>2, <1>3

LEMMA PutCounts ==
  ASSUME IsFiniteSet(verifyList), NEW n, n \notin verifyList, verifyList' = verifyList \cup {n}, NEW t
  PROVE  /\ IsFiniteSet(verifyList)'
         /\ n.tor = t => Cardinality(NodesOf(t))' = Cardinality(NodesOf(t)) + 1
         /\ n.tor # t => Cardinality(NodesOf(t))' = Cardinality(NodesOf(t))
<1>1. IsFiniteSet(verifyList')
  BY FS_AddElement
<1>2. CASE n.tor = t
  <2>1. NodesOf(t)' = NodesOf(t) \cup {n} /\ n \notin NodesOf(t)
    BY <1>2 DEF NodesOf
  <2> QED BY <1>1, <1>2, <2>1, CountType, FS_AddElement
<1>3. CASE n.tor # t
  <2>1. NodesOf(t)' = NodesOf(t)
    BY <1>3 DEF NodesOf
  <2> QED BY <1>1, <1>3, <2>1
<1> QED BY <1>2, <1>3

LEMMA SameCounts ==
  ASSUME UNCHANGED verifyList, NEW t
  PROVE  NodesOf(t)' = NodesOf(t)
BY DEF NodesOf

\* The pointers to a torrent, and those that may be left of it.
LEMMA PointerFacts ==
  ASSUME Structure, NEW t
  PROVE  /\ Pointers(t) \in Nat /\ Leftover(t) \in {0, 1}
         /\ current = t => Pointers(t) > 0
         /\ current # t => Pointers(t) = Cardinality(NodesOf(t))
BY CountType DEF Pointers, Leftover, Structure

LEMMA SamePointers ==
  ASSUME UNCHANGED <<verifyList, current>>, NEW t
  PROVE  Pointers(t)' = Pointers(t)
BY SameCounts DEF Pointers

\* The thread takes a node, or drops what it holds: there are never more pointers
\* to a torrent than before, and fewer to the one it held.
LEMMA TakePointers ==
  ASSUME TypeOK, Structure, ThreadTake, NEW t
  PROVE  /\ IsFiniteSet(verifyList)' /\ Pointers(t)' <= Pointers(t)
         /\ current = t => Pointers(t)' = Pointers(t) - 1
<1>1. PICK n \in verifyList : current' = n.tor /\ verifyList' = verifyList \ {n}
  BY DEF ThreadTake, First
<1>2. Cardinality(NodesOf(t)) \in Nat /\ IsFiniteSet(verifyList)
  BY CountType DEF Structure
<1>3. /\ IsFiniteSet(verifyList)'
      /\ n.tor = t => Cardinality(NodesOf(t))' = Cardinality(NodesOf(t)) - 1
      /\ n.tor # t => Cardinality(NodesOf(t))' = Cardinality(NodesOf(t))
  BY <1>1, <1>2, TakeCounts
<1> QED BY <1>1, <1>2, <1>3 DEF Pointers

LEMMA EndPointers ==
  ASSUME TypeOK, Structure, ThreadEnd, NEW t \in Torrents
  PROVE  Pointers(t)' = 0
<1>1. verifyList' = {} /\ current' = None
  BY DEF ThreadEnd
<1>2. NodesOf(t)' = {}
  BY <1>1 DEF NodesOf
<1> QED BY <1>1, <1>2, FS_EmptySet, NoneAssumption DEF Pointers

\* tr_verifyRemove of a torrent the thread does not hold takes one node of it.
LEMMA RemovePointers ==
  ASSUME TypeOK, Structure, NEW fn, NEW x \in Torrents, NEW caller, RemoveWaiting(fn, x, caller), NEW t
  PROVE  /\ IsFiniteSet(verifyList)' /\ verifyList' \subseteq verifyList
         /\ t # x => Pointers(t)' = Pointers(t)
         /\ Pointers(x)' = IF Pointers(x) = 0 THEN 0 ELSE Pointers(x) - 1
         /\ NodesOf(x) # {} => Pointers(x) > 0
<1>1. current # x /\ current' = current
  BY DEF RemoveWaiting
<1>2. Cardinality(NodesOf(x)) \in Nat /\ (Cardinality(NodesOf(x)) = 0 <=> NodesOf(x) = {})
  BY CountType DEF Structure, NodesOf
<1>3. CASE NodesOf(x) = {}
  <2>1. verifyList' = verifyList
    BY <1>3 DEF RemoveWaiting
  <2>2. Pointers(x) = 0 /\ Pointers(x)' = Pointers(x) /\ Pointers(t)' = Pointers(t)
    BY <1>1, <1>2, <1>3, <2>1, SamePointers DEF Pointers
  <2> QED BY <1>3, <2>1, <2>2 DEF Structure
<1>4. CASE NodesOf(x) # {}
  <2>1. PICK n \in verifyList : n.tor = x /\ verifyList' = verifyList \ {n}
    BY <1>4 DEF RemoveWaiting, First, NodesOf
  <2>2. Cardinality(NodesOf(t)) \in Nat
    BY CountType DEF Structure
  <2>3. /\ IsFiniteSet(verifyList)' /\ Cardinality(NodesOf(x))' = Cardinality(NodesOf(x)) - 1
        /\ t # x => Cardinality(NodesOf(t))' = Cardinality(NodesOf(t))
    BY <2>1, TakeCounts DEF Structure
  <2> QED BY <1>1, <1>2, <1>4, <2>1, <2>2, <2>3 DEF Pointers
<1> QED BY <1>3, <1>4

LEMMA AddPointers ==
  ASSUME TypeOK, Structure, NEW x \in Torrents, VerifyAdd(x), NEW t
  PROVE  /\ IsFiniteSet(verifyList)' /\ current' = current
         /\ t # x => Pointers(t)' = Pointers(t)
         /\ Pointers(x)' = Pointers(x) + 1
<1>1. PICK n \in Node : n.tor = x /\ n \notin verifyList /\ verifyList' = verifyList \cup {n}
  BY AddFacts
<1>2. /\ IsFiniteSet(verifyList)' /\ Cardinality(NodesOf(x))' = Cardinality(NodesOf(x)) + 1
      /\ t # x => Cardinality(NodesOf(t))' = Cardinality(NodesOf(t))
  BY <1>1, PutCounts DEF Structure
<1>3. Cardinality(NodesOf(x)) \in Nat
  BY CountType DEF Structure
<1> QED BY <1>2, <1>3 DEF Pointers, VerifyAdd

-----------------------------------------------------------------------------
(* How many pointers there are.                                            *)

LEMMA ThreadStructure ==
  ASSUME TypeOK, Structure, VerifyThread
  PROVE  Structure'
<1>0. ev' = ev /\ freed' = freed /\ doubled' = doubled /\ magnetVerify' = magnetVerify
      /\ closed' = closed
  BY DEF VerifyThread, ThreadTake, ThreadEnd, ScanBegin, ScanPiece, ScanEnd, ScanReport, torrentVars
<1> PICK x : x = ev.tor
  OBVIOUS
<1>1. \A t : Leftover(t)' = Leftover(t)
  BY <1>0 DEF Leftover
<1>2. freed \subseteq Torrents /\ (ev # Idle => ev.tor \in Torrents)
  BY EvFacts DEF TypeOK
<1>3. CASE ThreadTake
  <2>1. \A t : Pointers(t)' <= Pointers(t) /\ (current = t => Pointers(t)' = Pointers(t) - 1)
    BY <1>3, TakePointers
  <2>2. \A t : Pointers(t) \in Nat /\ Pointers(t)' \in Int /\ Leftover(t) \in {0, 1} /\ Pointers(t)' >= 0
    <3>1. ASSUME NEW t PROVE Pointers(t)' \in Nat
      <4>1. IsFiniteSet(verifyList')
        BY <1>3, TakePointers
      <4>2. NodesOf(t)' \in SUBSET verifyList'
        BY DEF NodesOf
      <4>3. Cardinality(NodesOf(t)') \in Nat
        BY <4>1, <4>2, FS_Subset, FS_CardinalityType
      <4> QED BY <4>3 DEF Pointers
    <3> QED BY <3>1, PointerFacts
  <2>3. IsFiniteSet(verifyList)' /\ current' \in Torrents /\ thread' = "mark" /\ ~stopCurrent'
    <3>1. PICK n \in verifyList : current' = n.tor
      BY <1>3 DEF ThreadTake, First
    <3>2. n.tor \in Torrents
      BY <3>1 DEF TypeOK, Node
    <3> QED BY <1>3, <3>1, <3>2, TakePointers DEF ThreadTake
  <2>4. \A t \in Torrents : Pointers(t)' <= 1 + Leftover(t)
    BY <2>1, <2>2 DEF Structure
  <2>5. ev # Idle => Pointers(x)' <= Leftover(x)
    <3>1. CASE ev.phase = "waiting" /\ stopCurrent
      <4>1. current = ev.tor /\ ev # Idle
        BY <3>1, FrameFacts DEF Structure
      <4>2. Pointers(x) <= 1 + Leftover(x)
        BY <1>2, <4>1 DEF Structure
      <4> QED BY <2>1, <2>2, <4>1, <4>2
    <3>2. CASE ~(ev.phase = "waiting" /\ stopCurrent)
      BY <2>1, <2>2, <3>2 DEF Structure
    <3> QED BY <3>1, <3>2
  <2>6. ev.caller = "verifyTorrent" /\ ev.fn = "verifyTorrent" => Pointers(x)' = 0 /\ ev.tor \in doubled
    <3>1. ev.caller = "verifyTorrent" /\ ev.fn = "verifyTorrent" => Pointers(x) = 0 /\ ev.tor \in doubled
      BY DEF Structure
    <3> QED BY <2>1, <2>2, <3>1
  <2>7. \A t \in freed : Pointers(t)' <= Leftover(t) /\ ev.tor # t
    BY <2>1, <2>2 DEF Structure
  <2>8. ev.caller = "verifyTorrent" => Pointers(x)' <= Leftover(x)
    BY <2>5, FrameFacts
  <2>9. (\A t \in doubled : ~magnetVerify[t]) /\ StopHitsItsTorrent'
    BY <2>3 DEF Structure, StopHitsItsTorrent
  <2> QED BY <1>0, <1>1, <2>3, <2>4, <2>5, <2>6, <2>7, <2>8, <2>9 DEF Structure
<1>4. CASE ThreadEnd
  <2>1. \A t \in Torrents : Pointers(t)' = 0 /\ Leftover(t) \in {0, 1}
    BY <1>4, EndPointers, PointerFacts
  <2>2. verifyList' = {} /\ current' = None /\ thread' = "none" /\ ~stopCurrent'
    BY <1>4 DEF ThreadEnd
  <2>3. IsFiniteSet(verifyList')
    BY <2>2, FS_EmptySet
  <2>4. StopHitsItsTorrent' /\ (\A t \in doubled : ~magnetVerify[t])
        /\ (ev.caller = "verifyTorrent" /\ ev.fn = "verifyTorrent" => ev.tor \in doubled)
    BY <2>2 DEF StopHitsItsTorrent, Structure
  <2>5. \A t \in freed : ev.tor # t
    BY DEF Structure
  <2>6. thread' \notin Busy
    BY <2>2 DEF Busy
  <2> QED
    BY <1>0, <1>1, <1>2, <2>1, <2>2, <2>3, <2>4, <2>5, <2>6, FrameFacts DEF Structure
<1>5. CASE UNCHANGED <<verifyList, current, stopCurrent>> /\ thread \in Busy /\ thread' # "none"
  <2>1. \A t : Pointers(t)' = Pointers(t)
    BY <1>5, SamePointers
  <2> QED BY <1>0, <1>1, <1>5, <2>1 DEF Structure, StopHitsItsTorrent
<1> QED
  BY <1>3, <1>4, <1>5
     DEF VerifyThread, ScanBegin, ScanPiece, ScanEnd, ScanReport, queueVars, Busy

LEMMA EnterStructure ==
  ASSUME TypeOK, Structure, EnterStep
  PROVE  Structure'
<1>1. PICK fn \in Handlers, x \in Live, caller \in Callers :
        /\ Remove(fn, x, caller)
        /\ (ev = Idle /\ caller # "verifyTorrent") \/ ev = Frame(fn, x, "call", caller)
  BY DEF EnterStep
<1>2. /\ freed' = freed /\ doubled' = doubled /\ x \in Torrents \ freed
      /\ \A t : Leftover(t)' = Leftover(t)
      /\ \A t \in doubled' : ~magnetVerify'[t]
  BY DEF EnterStep, Live, Leftover, Structure, TypeOK
<1>3. \A t : Pointers(t) \in Nat /\ Leftover(t) \in {0, 1}
  BY PointerFacts
<1>4. ~stopCurrent \/ closed
  BY <1>1, FrameFacts DEF Structure, StopHitsItsTorrent
<1>5. /\ caller = "verifyTorrent" => Pointers(x) <= Leftover(x)
      /\ caller = "verifyTorrent" /\ fn = "verifyTorrent" => Pointers(x) = 0 /\ x \in doubled
  BY <1>1, FrameFacts DEF Structure
<1>6. \A t \in freed : Pointers(t) <= Leftover(t) /\ x # t
  BY <1>2 DEF Structure
<1>7. Pointers(x) <= 1 + Leftover(x)
  BY <1>2 DEF Structure
<1>8. CASE RemoveCurrent(fn, x, caller)
  <2>1. /\ current' = x /\ stopCurrent' /\ ev' = Frame(fn, x, "waiting", caller)
        /\ UNCHANGED <<verifyList, thread, current>>
    BY <1>8 DEF RemoveCurrent
  <2>2. ev'.fn = fn /\ ev'.tor = x /\ ev'.phase = "waiting" /\ ev'.caller = caller
    BY <2>1, FrameFacts
  <2>3. \A t : Pointers(t)' = Pointers(t)
    BY <2>1, SamePointers
  <2> QED BY <1>2, <1>5, <1>6, <2>1, <2>2, <2>3 DEF Structure, StopHitsItsTorrent
<1>9. CASE RemoveWaiting(fn, x, caller)
  <2>1. /\ ev' = Frame(fn, x, "after", caller) /\ UNCHANGED <<current, stopCurrent, thread, closed>>
    BY <1>9 DEF RemoveWaiting
  <2>2. ev'.fn = fn /\ ev'.tor = x /\ ev'.phase = "after" /\ ev'.caller = caller
    BY <2>1, FrameFacts
  <2>3. \A t : t # x => Pointers(t)' = Pointers(t)
    BY <1>2, <1>9, RemovePointers
  <2>4. IsFiniteSet(verifyList)' /\ verifyList' \subseteq verifyList
        /\ Pointers(x)' = IF Pointers(x) = 0 THEN 0 ELSE Pointers(x) - 1
    BY <1>2, <1>9, RemovePointers
  <2>5. Pointers(x)' <= Leftover(x) /\ (Pointers(x) = 0 => Pointers(x)' = 0)
    BY <1>3, <1>7, <2>4
  <2>6. \A t \in Torrents : Pointers(t)' <= 1 + Leftover(t)
    <3>1. ASSUME NEW t \in Torrents PROVE Pointers(t)' <= 1 + Leftover(t)
      <4>1. Pointers(t) <= 1 + Leftover(t) /\ Leftover(t) \in {0, 1} /\ Pointers(x) \in Nat
        BY <1>3 DEF Structure
      <4>2. CASE t = x
        BY <1>3, <2>4, <4>1, <4>2
      <4>3. CASE t # x
        BY <2>3, <4>1, <4>3
      <4> QED BY <4>2, <4>3
    <3> QED BY <3>1
  <2>7. \A t \in freed : Pointers(t)' <= Leftover(t)
    BY <1>6, <2>3
  <2>8. StopHitsItsTorrent'
    BY <1>4, <2>1 DEF StopHitsItsTorrent
  <2>9. /\ thread' = "none" => current' = None /\ verifyList' = {}
        /\ thread' \in Busy => current' \in Torrents
    BY <2>1, <2>4 DEF Structure
  <2> QED BY <1>2, <1>5, <1>6, <2>1, <2>2, <2>4, <2>5, <2>6, <2>7, <2>8, <2>9 DEF Structure
<1> QED
  BY <1>1, <1>8, <1>9 DEF Remove

\* Steps that only move the event thread, when no flag is up.
LEMMA StillStructure ==
  ASSUME TypeOK, Structure, UNCHANGED <<verifyList, current, stopCurrent, thread, closed>>,
         ~stopCurrent \/ closed, ev'.phase # "waiting", ev # Idle, ~(ev.phase = "waiting" /\ stopCurrent),
         ev' = Idle \/ ev'.tor = ev.tor,
         doubled \subseteq doubled', \A t \in doubled' : ~magnetVerify'[t],
         \/ freed' = freed
         \/ freed' = freed \cup {ev.tor} /\ ev' = Idle,
         ev'.caller = "verifyTorrent" /\ ev'.fn = "verifyTorrent" =>
           Pointers(ev.tor) = 0 /\ ev.tor \in doubled'
  PROVE  Structure'
<1> PICK x : x = ev.tor
  OBVIOUS
<1> PICK y : y = ev'.tor
  OBVIOUS
<1>1. \A t : Pointers(t)' = Pointers(t) /\ Pointers(t) \in Nat
  BY SamePointers, PointerFacts
<1>2. \A t : Leftover(t) <= Leftover(t)' /\ Leftover(t) \in {0, 1} /\ Leftover(t)' \in {0, 1}
  BY DEF Leftover
<1>3. Pointers(x) <= Leftover(x) /\ x \in Torrents
  BY EvFacts DEF Structure
<1>4. Idle.tor = None /\ Idle.caller = "loop" /\ freed' \subseteq Torrents
  BY <1>3, FrameFacts, EvFacts DEF TypeOK
<1>5. Pointers(x)' <= Leftover(x)'
  BY <1>1, <1>2, <1>3
<1>6. /\ ev' # Idle => Pointers(y)' <= Leftover(y)'
      /\ ev'.caller = "verifyTorrent" => Pointers(y)' <= Leftover(y)'
  <2>1. CASE ev' = Idle
    BY <1>4, <2>1
  <2>2. CASE ev'.tor = ev.tor
    BY <1>5, <2>2
  <2> QED BY <2>1, <2>2
<1>7. ev'.caller = "verifyTorrent" /\ ev'.fn = "verifyTorrent" =>
        Pointers(y)' = 0 /\ ev'.tor \in doubled'
  <2>1. CASE ev' = Idle
    BY <1>4, <2>1
  <2>2. CASE ev'.tor = ev.tor
    BY <1>1, <2>2
  <2> QED BY <2>1, <2>2
<1>8. \A t \in freed' : Pointers(t)' <= Leftover(t)' /\ ev'.tor # t
  <2>1. ASSUME NEW t \in freed'
        PROVE  Pointers(t)' <= Leftover(t)'
    <3>1. Pointers(t) <= Leftover(t)
      BY <1>3, <2>1 DEF Structure
    <3> QED BY <1>1, <1>2, <3>1
  <2>2. ASSUME NEW t \in freed'
        PROVE  ev'.tor # t
    BY <1>4, <2>2, NoneAssumption DEF Structure
  <2> QED BY <2>1, <2>2
<1>9. \A t \in Torrents : Pointers(t)' <= 1 + Leftover(t)'
  BY <1>1, <1>2 DEF Structure
<1>10. StopHitsItsTorrent'
  BY DEF StopHitsItsTorrent
<1>11. /\ thread' = "none" => current' = None /\ verifyList' = {}
       /\ thread' \in Busy => current' \in Torrents
       /\ IsFiniteSet(verifyList)' /\ \A t \in doubled' : ~magnetVerify'[t]
  BY DEF Structure, Busy
<1> QED
  BY <1>11, <1>6, <1>7, <1>8, <1>9, <1>10 DEF Structure

\* verifyTorrent() queues its scan.
LEMMA AddStructure ==
  ASSUME TypeOK, Structure, AddScan
  PROVE  Structure'
<1> PICK x : x = ev.tor
  OBVIOUS
<1>1. /\ x \in Torrents /\ ev # Idle /\ ev.fn = "verifyTorrent" /\ ev.phase \in {"after", "add"}
      /\ VerifyAdd(x) /\ ev' = Return
  BY EvFacts, FrameFacts DEF AddScan
<1>2. /\ freed' = freed /\ doubled' = doubled /\ magnetVerify' = magnetVerify /\ closed' = closed
      /\ current' = current /\ stopCurrent' = stopCurrent /\ thread' # "none"
      /\ (thread' = thread \/ thread' = "top")
      /\ \A t : Leftover(t)' = Leftover(t)
  BY DEF AddScan, VerifyAdd, torrentVars, Leftover
<1>3. \A t : Pointers(t) \in Nat /\ Leftover(t) \in {0, 1}
  BY PointerFacts
<1>4. IsFiniteSet(verifyList)' /\ Pointers(x)' = Pointers(x) + 1
      /\ \A t : t # x => Pointers(t)' = Pointers(t)
  <2>1. VerifyAdd(x) /\ x \in Torrents
    BY <1>1
  <2> QED BY <2>1, AddPointers
<1>5. Pointers(x) <= Leftover(x) /\ \A t \in freed : t # x /\ Pointers(t) <= Leftover(t)
  <2>1. ~(ev.phase = "waiting" /\ stopCurrent)
    BY <1>1
  <2> QED BY <1>1, <2>1 DEF Structure
<1>6. \A t \in Torrents : Pointers(t)' <= 1 + Leftover(t)
  BY <1>3, <1>4, <1>5 DEF Structure
<1>7. \A t \in freed : Pointers(t)' <= Leftover(t)
  BY <1>4, <1>5
<1>8. CASE ev.caller = "verifyTorrent"
  <2>1. /\ ev' # Idle /\ ev'.fn = "verifyTorrent" /\ ev'.tor = x /\ ev'.phase = "add"
        /\ ev'.caller = "loop"
    BY <1>1, <1>8, ReturnFacts, FrameFacts
  <2>2. Pointers(x) = 0 /\ Leftover(x) = 1
    BY <1>1, <1>8 DEF Structure, Leftover
  <2>3. Pointers(x)' <= Leftover(x)
    BY <1>4, <2>2
  <2>4. StopHitsItsTorrent'
    BY <1>1, <1>2 DEF Structure, StopHitsItsTorrent
  <2>5. \A t \in freed : ev'.tor # t
    BY <1>5, <2>1
  <2> QED BY <1>2, <1>4, <1>6, <1>7, <2>1, <2>3, <2>4, <2>5 DEF Structure, Busy
<1>9. CASE ev.caller # "verifyTorrent"
  <2>1. ev' = Idle /\ ev'.phase = "idle" /\ ev'.caller = "loop" /\ ev'.tor = None
    BY <1>1, <1>9, ReturnFacts, FrameFacts
  <2>2. StopHitsItsTorrent'
    BY <1>1, <1>2 DEF Structure, StopHitsItsTorrent
  <2>3. \A t \in freed : ev'.tor # t
    BY <2>1, NoneAssumption DEF TypeOK
  <2> QED BY <1>2, <1>4, <1>6, <1>7, <2>1, <2>2, <2>3 DEF Structure, Busy
<1> QED
  BY <1>8, <1>9

LEMMA StepStructure ==
  ASSUME TypeOK, Structure, VerifyStep
  PROVE  Structure'
<1>1. CASE VerifyThread \/ EnterStep \/ AddScan
  BY <1>1, ThreadStructure, EnterStructure, AddStructure
<1>2. CASE RemoveReturn
  <2>1. ev' = Frame(ev.fn, ev.tor, "after", ev.caller) /\ ev # Idle
    BY <1>2, EvFacts, FrameFacts DEF RemoveReturn, Frame
  <2>2. ev'.fn = ev.fn /\ ev'.tor = ev.tor /\ ev'.phase = "after" /\ ev'.caller = ev.caller
    BY <2>1, FrameFacts
  <2>3. ev'.caller = "verifyTorrent" /\ ev'.fn = "verifyTorrent" =>
          Pointers(ev.tor) = 0 /\ ev.tor \in doubled
    BY <2>2 DEF Structure
  <2>4. \A t \in doubled : ~magnetVerify[t]
    BY DEF Structure
  <2> QED BY <1>2, <2>1, <2>2, <2>3, <2>4, StillStructure DEF RemoveReturn, queueVars, torrentVars
<1>3. CASE StopFirst
  <2>1. ev # Idle /\ ev.phase = "after" /\ (~stopCurrent \/ closed)
    BY <1>3, FrameFacts DEF StopFirst, Structure, StopHitsItsTorrent
  <2>2. ev'.fn = "stopTorrent" /\ ev'.tor = ev.tor /\ ev'.phase = "call"
    BY <1>3, FrameFacts DEF StopFirst
  <2>3. \A t \in doubled : ~magnetVerify[t]
    BY DEF Structure
  <2> QED BY <1>3, <2>1, <2>2, <2>3, StillStructure DEF StopFirst, queueVars, torrentVars
<1>4. CASE GiveUp
  <2>1. ev # Idle /\ ev.phase # "waiting" /\ (~stopCurrent \/ closed)
    BY <1>4, FrameFacts DEF GiveUp, Structure, StopHitsItsTorrent
  <2>2. ev' = Idle \/ ev'.tor = ev.tor
    BY <1>4, ReturnFacts DEF GiveUp
  <2>3. ev'.phase # "waiting" /\ ev'.caller # "verifyTorrent"
    BY <1>4, ReturnFacts, FrameFacts DEF GiveUp
  <2>4. \A t \in doubled : ~magnetVerify[t]
    BY DEF Structure
  <2> QED BY <1>4, <2>1, <2>2, <2>3, <2>4, StillStructure DEF GiveUp, queueVars, torrentVars
<1>5. CASE Stopped
  <2>1. ev # Idle /\ ev.phase = "after" /\ (~stopCurrent \/ closed) /\ ev.tor \in Torrents
    BY <1>5, EvFacts, FrameFacts DEF Stopped, Structure, StopHitsItsTorrent
  <2>2. CASE ~magnetVerify[ev.tor] /\ ev' = Return /\ UNCHANGED torrentVars
    <3>1. (ev' = Idle \/ ev'.tor = ev.tor) /\ ev'.phase # "waiting" /\ ev'.caller # "verifyTorrent"
      BY <2>2, ReturnFacts, FrameFacts
    <3>2. \A t \in doubled : ~magnetVerify[t]
      BY DEF Structure
    <3> QED BY <1>5, <2>1, <2>2, <3>1, <3>2, StillStructure DEF Stopped, queueVars, torrentVars
  <2>3. CASE magnetVerify[ev.tor] /\ ev' = Frame("verifyTorrent", ev.tor, "call", ev.caller)
    <3>1. ev'.tor = ev.tor /\ ev'.phase = "call" /\ ev'.caller = ev.caller
      BY <2>3, FrameFacts
    <3>2. /\ magnetVerify' = [magnetVerify EXCEPT ![ev.tor] = FALSE] /\ freed' = freed
          /\ doubled' = IF ev.caller = "verifyTorrent" THEN doubled \cup {ev.tor} ELSE doubled
      BY <1>5, <2>3 DEF Stopped, torrentVars
    <3>3. \A t \in doubled' : ~magnetVerify'[t]
      BY <2>1, <3>2 DEF Structure, TypeOK
    <3>4. ev'.caller = "verifyTorrent" => Pointers(ev.tor) = 0 /\ ev.tor \in doubled'
      <4>1. ev.tor \notin doubled
        BY <2>3 DEF Structure
      <4>2. Pointers(ev.tor) \in Nat /\ Pointers(ev.tor) <= Leftover(ev.tor) /\ Leftover(ev.tor) = 0
        BY <2>1, <4>1, PointerFacts DEF Structure, Leftover
      <4> QED BY <3>1, <3>2, <4>2
    <3> QED BY <1>5, <2>1, <3>1, <3>2, <3>3, <3>4, StillStructure DEF Stopped, queueVars
  <2> QED BY <1>5, <2>2, <2>3 DEF Stopped
<1>6. CASE Freed
  <2>1. ev # Idle /\ ev.phase = "after" /\ (~stopCurrent \/ closed)
    BY <1>6, FrameFacts DEF Freed, Structure, StopHitsItsTorrent
  <2>2. ev' = Idle /\ ev'.phase = "idle" /\ ev'.caller = "loop"
    BY <1>6, FrameFacts DEF Freed
  <2>3. \A t \in doubled : ~magnetVerify[t]
    BY DEF Structure
  <2> QED BY <1>6, <2>1, <2>2, <2>3, StillStructure DEF Freed, queueVars
<1>7. CASE OtherStep
  <2>1. \A t : Pointers(t)' = Pointers(t) /\ Leftover(t)' = Leftover(t)
    BY <1>7, SamePointers DEF OtherStep, queueVars, Leftover
  <2> QED BY <1>7, <2>1 DEF OtherStep, Structure, StopHitsItsTorrent, queueVars
<1> QED
  BY <1>1, <1>2, <1>3, <1>4, <1>5, <1>6, <1>7 DEF VerifyStep

LEMMA CloseStructure ==
  ASSUME TypeOK, Structure, Close
  PROVE  Structure'
<1>1. /\ verifyList' = {} /\ current' = current /\ thread' = thread /\ closed' /\ ev' = ev
      /\ ev = Idle /\ freed' = freed /\ doubled' = doubled /\ magnetVerify' = magnetVerify
  BY DEF Close, torrentVars
<1>2. \A t : Pointers(t)' <= Pointers(t) /\ Leftover(t)' = Leftover(t)
  <2>1. ASSUME NEW t PROVE Pointers(t)' <= Pointers(t)
    <3>1. Cardinality(NodesOf(t)) \in Nat
      BY CountType DEF Structure
    <3>2. NodesOf(t)' = {}
      BY <1>1 DEF NodesOf
    <3> QED BY <1>1, <3>1, <3>2, FS_EmptySet DEF Pointers
  <2> QED BY <1>1, <2>1 DEF Leftover
<1>3. IsFiniteSet(verifyList')
  BY <1>1, FS_EmptySet
<1>4. \A t : Pointers(t)' \in Int
  <2>1. ASSUME NEW t PROVE NodesOf(t)' = {}
    BY <1>1 DEF NodesOf
  <2> QED BY <1>1, <2>1, FS_EmptySet DEF Pointers
<1>5. \A t : Pointers(t) \in Nat /\ Leftover(t) \in {0, 1}
  BY PointerFacts
<1>6. \A t \in Torrents : Pointers(t)' <= 1 + Leftover(t)
  BY <1>2, <1>4, <1>5 DEF Structure
<1>7. \A t \in freed : Pointers(t)' <= Leftover(t) /\ ev.tor # t
  BY <1>2, <1>4, <1>5 DEF Structure
<1> QED
  BY <1>1, <1>2, <1>3, <1>6, <1>7, FrameFacts DEF Structure, StopHitsItsTorrent

LEMMA InitStructure == Init => Structure
<1> SUFFICES ASSUME Init PROVE Structure
  OBVIOUS
<1>1. /\ verifyList = {} /\ current = None /\ thread = "none" /\ ~stopCurrent /\ ev = Idle
      /\ freed = {} /\ doubled = {}
  BY DEF Init
<1>2. IsFiniteSet(verifyList)
  BY <1>1, FS_EmptySet
<1>3. ASSUME NEW t \in Torrents PROVE Pointers(t) = 0 /\ Leftover(t) = 0
  <2>1. NodesOf(t) = {}
    BY <1>1 DEF NodesOf
  <2> QED BY <1>1, <2>1, FS_EmptySet, NoneAssumption DEF Pointers, Leftover
<1> QED
  BY <1>1, <1>2, <1>3, FrameFacts DEF Structure, StopHitsItsTorrent, Busy

\* Every variable keeps its type, and there are as many pointers to a torrent as
\* Structure says, whatever is verified, stopped, removed and freed meanwhile.
THEOREM StructureHolds == Spec => [](TypeOK /\ Structure)
<1>1. Init => TypeOK /\ Structure
  BY InitTypes, InitStructure
<1>2. TypeOK /\ Structure /\ [Next]_vars => (TypeOK /\ Structure)'
  <2> SUFFICES ASSUME TypeOK, Structure, [Next]_vars PROVE TypeOK' /\ Structure'
    OBVIOUS
  <2>1. CASE Next
    <3>1. CASE VerifyStep
      BY <3>1, StepTypes, StepStructure
    <3>2. CASE Close
      <4>1. TypeOK'
        BY <3>2 DEF Close, TypeOK, pieceVars, torrentVars
      <4> QED BY <3>2, <4>1, CloseStructure
    <3> QED BY <2>1, <3>1, <3>2, NextSteps
  <2>2. CASE UNCHANGED vars
    <3>1. TypeOK'
      BY <2>2 DEF vars, TypeOK
    <3>2. \A t : Pointers(t)' = Pointers(t) /\ Leftover(t)' = Leftover(t)
      BY <2>2, SamePointers DEF vars, Leftover
    <3> QED BY <2>2, <3>1, <3>2 DEF vars, Structure, StopHitsItsTorrent
  <2> QED BY <2>1, <2>2
<1> QED BY <1>1, <1>2, PTL DEF Spec

\* Every variable keeps its type.
THEOREM TypeCorrect == Spec => []TypeOK
BY StructureHolds, PTL

LEMMA StructureSays == Structure => QueuedOnce /\ RemovedIsReleased /\ StopHitsItsTorrent
<1>1. Structure => QueuedOnce
  <2> SUFFICES ASSUME Structure, NEW t \in Torrents PROVE Scans(t) <= 1 + Leftover(t)
    BY DEF QueuedOnce
  <2>1. Cardinality(NodesOf(t)) \in Nat
    BY CountType DEF Structure
  <2>2. Pointers(t) <= 1 + Leftover(t) /\ Leftover(t) \in {0, 1}
    BY PointerFacts DEF Structure
  <2> QED BY <2>1, <2>2 DEF Scans, Pointers, InScan
<1>2. Structure => RemovedIsReleased /\ StopHitsItsTorrent
  BY FrameFacts DEF Structure, RemovedIsReleased
<1> QED BY <1>1, <1>2

\* A torrent is in the verifier once, and a doubled one at most twice.
THEOREM QueuedOnceHolds == Spec => []QueuedOnce
BY StructureSays, StructureHolds, PTL

\* What makes freeing a torrent after tr_verifyRemove safe: of one that was never
\* doubled no pointer is left, and of one that was there is one at most.
THEOREM RemovedIsReleasedHolds == Spec => []RemovedIsReleased
BY StructureSays, StructureHolds, PTL

\* Removing one torrent does not stop the scan of another.
THEOREM StopHitsItsTorrentHolds == Spec => []StopHitsItsTorrent
BY StructureSays, StructureHolds, PTL

-----------------------------------------------------------------------------
(* The layer about what the program is told.                               *)

Waits(t) == t \in Waiting \/ (current = t /\ thread = "mark")
InLoop(t) == current = t /\ thread = "scan"

Tells(t) ==
  /\ verifyState[t] = "wait" => Waits(t)
  /\ verifyState[t] = "now" => InLoop(t)
  /\ t \notin doubled => /\ Waits(t) => verifyState[t] = "wait"
                         /\ InLoop(t) => verifyState[t] = "now"
Told == \A t \in Torrents : Tells(t)

LEMMA WaitingFacts ==
  ASSUME TypeOK, Structure, NEW t \in Torrents
  PROVE  /\ t \in Waiting <=> Cardinality(NodesOf(t)) # 0
         /\ t \notin doubled /\ current = t => t \notin Waiting
         /\ Pointers(t) <= 0 => t \notin Waiting /\ current # t
<1>1. t \in Waiting <=> Cardinality(NodesOf(t)) # 0
  BY CountType DEF Waiting, Structure
<1>2. Cardinality(NodesOf(t)) \in Nat /\ Pointers(t) <= 1 + Leftover(t)
  BY CountType DEF Structure
<1> QED BY <1>1, <1>2 DEF Pointers, Leftover

\* A step that is neither of the list, the thread nor the states says nothing new.
LEMMA SameTold ==
  ASSUME Told, UNCHANGED <<verifyList, current, thread, verifyState>>, doubled \subseteq doubled'
  PROVE  Told'
BY DEF Told, Tells, Waits, InLoop, Waiting

LEMMA ThreadTells ==
  ASSUME TypeOK, Structure, Told, VerifyThread
  PROVE  Told'
<1> SUFFICES ASSUME NEW t \in Torrents PROVE Tells(t)'
  BY DEF Told
<1>0. Tells(t) /\ doubled' = doubled
  BY DEF Told, VerifyThread, ThreadTake, ThreadEnd, ScanBegin, ScanPiece, ScanEnd, ScanReport,
         torrentVars
<1>1. CASE ThreadTake
  <2>1. PICK n \in verifyList : current' = n.tor /\ verifyList' = verifyList \ {n}
    BY <1>1 DEF ThreadTake, First
  <2>2. n.tor \in Waiting /\ Waiting' \subseteq Waiting /\ \A x \in Waiting : x = n.tor \/ x \in Waiting'
    BY <2>1 DEF Waiting
  <2> QED BY <1>0, <1>1, <2>1, <2>2 DEF ThreadTake, Tells, Waits, InLoop
<1>2. CASE ThreadEnd
  <2>1. Waiting' = Waiting
    BY <1>2 DEF ThreadEnd, Waiting
  <2> QED BY <1>0, <1>2, <2>1, NoneAssumption DEF ThreadEnd, Tells, Waits, InLoop
<1>3. CASE ScanBegin
  <2>1. /\ Waiting' = Waiting /\ current \in Torrents /\ current' = current /\ thread' = "scan"
        /\ thread = "mark" /\ verifyState' = [verifyState EXCEPT ![current] = "now"]
    BY <1>3 DEF ScanBegin, Waiting, Structure, Busy
  <2>2. current \notin doubled => current \notin Waiting
    BY <2>1, WaitingFacts
  <2> QED BY <1>0, <2>1, <2>2 DEF Tells, Waits, InLoop, TypeOK
<1>4. CASE ScanEnd
  <2>1. /\ Waiting' = Waiting /\ current \in Torrents /\ current' = current /\ thread' = "report"
        /\ thread = "scan" /\ verifyState' = [verifyState EXCEPT ![current] = "none"]
    BY <1>4 DEF ScanEnd, Waiting, Structure, Busy
  <2>2. current \notin doubled => current \notin Waiting
    BY <2>1, WaitingFacts
  <2> QED BY <1>0, <2>1, <2>2 DEF Tells, Waits, InLoop, TypeOK
<1>5. CASE ScanPiece
  BY <1>0, <1>5 DEF ScanPiece, queueVars, Tells, Waits, InLoop, Waiting
<1>6. CASE ScanReport
  BY <1>0, <1>6 DEF ScanReport, Tells, Waits, InLoop, Waiting
<1> QED
  BY <1>1, <1>2, <1>3, <1>4, <1>5, <1>6 DEF VerifyThread

LEMMA EnterTells ==
  ASSUME TypeOK, Structure, TypeOK', Structure', Told, EnterStep
  PROVE  Told'
<1>1. PICK fn \in Handlers, x \in Torrents, caller \in Callers : Remove(fn, x, caller)
  BY DEF EnterStep, Live
<1>2. doubled' = doubled
  BY DEF EnterStep
<1>3. CASE RemoveCurrent(fn, x, caller)
  BY <1>2, <1>3, SameTold DEF RemoveCurrent
<1>4. CASE RemoveWaiting(fn, x, caller)
  <2>1. /\ ev' = Frame(fn, x, "after", caller) /\ current' = current /\ thread' = thread
        /\ current # x /\ verifyState' = [verifyState EXCEPT ![x] = "none"]
    BY <1>4 DEF RemoveWaiting
  <2>2. \A t \in Torrents : t # x => (t \in Waiting' <=> t \in Waiting)
    BY <1>4 DEF RemoveWaiting, First, NodesOf, Waiting
  <2>3. x \notin doubled => x \notin Waiting'
    <3>1. ev' # Idle /\ ev'.phase = "after" /\ ev'.tor = x
      BY <2>1, FrameFacts
    <3>2. Pointers(x)' <= Leftover(x)'
      BY <3>1 DEF Structure
    <3>3. ASSUME x \notin doubled' PROVE x \notin Waiting'
      <4>1. Leftover(x)' = 0 /\ Cardinality(NodesOf(x))' \in Nat /\ (x \in Waiting' <=> Cardinality(NodesOf(x))' # 0)
        <5>1. Cardinality(NodesOf(x))' \in Nat
          <6>1. IsFiniteSet(verifyList') /\ NodesOf(x)' \in SUBSET verifyList'
            BY DEF Structure, NodesOf
          <6>2. IsFiniteSet(NodesOf(x)')
            BY <6>1, FS_Subset
          <6> QED BY <6>2, FS_CardinalityType
        <5>2. Cardinality(NodesOf(x))' = 0 => NodesOf(x)' = {}
          <6>1. IsFiniteSet(verifyList') /\ NodesOf(x)' \in SUBSET verifyList'
            BY DEF Structure, NodesOf
          <6>2. IsFiniteSet(NodesOf(x)')
            BY <6>1, FS_Subset
          <6> QED BY <6>2, FS_EmptySet
        <5>3. NodesOf(x)' = {} <=> x \notin Waiting'
          BY DEF NodesOf, Waiting
        <5>4. NodesOf(x)' = {} => Cardinality(NodesOf(x))' = 0
          BY FS_EmptySet
        <5> QED BY <3>3, <5>1, <5>2, <5>3, <5>4 DEF Leftover
      <4> QED BY <3>2, <4>1 DEF Pointers
    <3> QED BY <1>2, <3>3
  <2> SUFFICES ASSUME NEW t \in Torrents PROVE Tells(t)'
    BY DEF Told
  <2>4. Tells(t)
    BY DEF Told
  <2> QED BY <1>2, <2>1, <2>2, <2>3, <2>4 DEF Tells, Waits, InLoop, TypeOK
<1> QED
  BY <1>1, <1>3, <1>4 DEF Remove

LEMMA AddTells ==
  ASSUME TypeOK, Structure, Told, AddScan
  PROVE  Told'
<1> PICK x : x = ev.tor
  OBVIOUS
<1>1. x \in Torrents /\ ev # Idle /\ ev.phase # "waiting" /\ VerifyAdd(x) /\ doubled' = doubled
  BY EvFacts, FrameFacts DEF AddScan, torrentVars
<1>2. PICK n \in Node : n.tor = x /\ verifyList' = verifyList \cup {n}
  BY <1>1, AddFacts
<1>3. Waiting' = Waiting \cup {x}
  BY <1>2 DEF Waiting
<1>4. x \notin doubled => current # x
  <2>1. Pointers(x) <= Leftover(x)
    BY <1>1 DEF Structure
  <2> QED BY <1>1, <2>1, WaitingFacts DEF Leftover
<1>5. /\ current' = current /\ verifyState' = [verifyState EXCEPT ![x] = "wait"]
      /\ thread' = thread \/ (thread = "none" /\ thread' = "top")
  BY <1>1 DEF VerifyAdd
<1> SUFFICES ASSUME NEW t \in Torrents PROVE Tells(t)'
  BY DEF Told
<1>6. Tells(t)
  BY DEF Told
<1> QED BY <1>1, <1>3, <1>4, <1>5, <1>6 DEF Tells, Waits, InLoop, TypeOK

LEMMA StepTold ==
  ASSUME TypeOK, Structure, TypeOK', Structure', Told, VerifyStep
  PROVE  Told'
<1>1. CASE VerifyThread \/ EnterStep \/ AddScan
  BY <1>1, ThreadTells, EnterTells, AddTells
<1>2. CASE Stopped
  BY <1>2, SameTold DEF Stopped, torrentVars, queueVars
<1>3. CASE RemoveReturn \/ StopFirst \/ GiveUp \/ Freed \/ OtherStep
  BY <1>3, SameTold DEF RemoveReturn, StopFirst, GiveUp, Freed, OtherStep, queueVars, torrentVars
<1> QED
  BY <1>1, <1>2, <1>3 DEF VerifyStep

LEMMA InitTold == Init => Told
BY NoneAssumption DEF Init, Told, Tells, Waits, InLoop, Waiting

LEMMA ToldSays == Told => StateTellsQueue
BY DEF StateTellsQueue, Told, Tells, Waits, InLoop

\* tor->verifyState follows the torrent from the list to the scan and back; what
\* it says is so, and of a torrent that was never doubled it says all.
THEOREM StateTellsQueueHolds == Spec => []StateTellsQueue
<1>1. TypeOK /\ Structure /\ TypeOK' /\ Structure' /\ (closed \/ Told) /\ [Next]_vars
      => (closed \/ Told)'
  <2> SUFFICES ASSUME TypeOK, Structure, TypeOK', Structure', closed \/ Told, [Next]_vars
               PROVE  closed' \/ Told'
    OBVIOUS
  <2>1. CASE VerifyStep /\ closed' = closed
    BY <2>1, StepTold
  <2>2. CASE Close
    BY <2>2 DEF Close
  <2>3. CASE UNCHANGED vars
    BY <2>3, SameTold DEF vars
  <2> QED BY <2>1, <2>2, <2>3, NextSteps
<1>2. closed \/ Told => StateTellsQueue
  BY ToldSays DEF StateTellsQueue
<1> QED BY <1>1, <1>2, InitTold, StructureHolds, PTL DEF Spec

LEMMA SameScans ==
  ASSUME UNCHANGED <<verifyList, current>>, thread' \in Busy <=> thread \in Busy, NEW t \in Torrents
  PROVE  Scans(t)' = Scans(t)
BY SameCounts DEF Scans, InScan, Busy

\* Each tr_verifyAdd gets one callback: the account of those to come balances.
THEOREM CallbackOwedHolds == Spec => []CallbackOwed
<1>1. Init => CallbackOwed
  <2> SUFFICES ASSUME Init, NEW t \in Torrents PROVE owed[t] = Scans(t)
    BY DEF CallbackOwed
  <2>1. NodesOf(t) = {} /\ thread \notin Busy
    BY DEF Init, NodesOf, Busy
  <2> QED BY <2>1, FS_EmptySet DEF Init, Scans, InScan, Busy
<1>2. TypeOK /\ Structure /\ CallbackOwed /\ [Next]_vars => CallbackOwed'
  <2> SUFFICES ASSUME TypeOK, Structure, CallbackOwed, [Next]_vars, ~closed', NEW t \in Torrents
               PROVE  owed'[t] = Scans(t)'
    BY DEF CallbackOwed
  <2>1. ASSUME UNCHANGED <<verifyList, current, owed, closed>>, thread' \in Busy <=> thread \in Busy
        PROVE  owed'[t] = Scans(t)'
    BY <2>1, SameScans DEF CallbackOwed
  <2>2. IsFiniteSet(verifyList) /\ Cardinality(NodesOf(t)) \in Nat
    BY CountType DEF Structure
  <2>3. CASE ThreadTake
    <3>1. PICK n \in verifyList : current' = n.tor /\ verifyList' = verifyList \ {n}
      BY <2>3 DEF ThreadTake, First
    <3>2. thread = "top" /\ thread' = "mark" /\ owed' = owed /\ closed' = closed
      BY <2>3 DEF ThreadTake
    <3>3. owed[t] = Cardinality(NodesOf(t))
      BY <2>2, <3>2 DEF CallbackOwed, Scans, InScan
    <3>4. /\ n.tor = t => Cardinality(NodesOf(t))' = Cardinality(NodesOf(t)) - 1
          /\ n.tor # t => Cardinality(NodesOf(t))' = Cardinality(NodesOf(t))
      BY <2>2, <3>1, TakeCounts
    <3>5. Scans(t)' = Cardinality(NodesOf(t))' + (IF n.tor = t THEN 1 ELSE 0)
      BY <3>1, <3>2 DEF Scans, InScan
    <3> QED BY <2>2, <3>2, <3>3, <3>4, <3>5
  <2>4. CASE ThreadEnd
    <3>1. /\ verifyList' = verifyList /\ owed' = owed /\ closed' = closed
          /\ thread = "top" /\ thread' = "none"
      BY <2>4 DEF ThreadEnd
    <3>2. Scans(t) = Cardinality(NodesOf(t)) + 0 /\ Scans(t)' = Cardinality(NodesOf(t))' + 0
      BY <3>1 DEF Scans, InScan
    <3>3. NodesOf(t)' = NodesOf(t)
      BY <3>1, SameCounts
    <3> QED BY <3>1, <3>2, <3>3 DEF CallbackOwed
  <2>5. CASE ScanBegin \/ ScanPiece \/ ScanEnd
    BY <2>1, <2>5 DEF ScanBegin, ScanPiece, ScanEnd, queueVars, Busy
  <2>6. CASE ScanReport
    <3>1. /\ UNCHANGED <<verifyList, current, closed>> /\ current \in Torrents
          /\ thread = "report" /\ thread' = "top" /\ owed' = [owed EXCEPT ![current] = owed[current] - 1]
      BY <2>6 DEF ScanReport, Structure, Busy
    <3>2. Scans(t)' = Cardinality(NodesOf(t))' + 0 /\ NodesOf(t)' = NodesOf(t)
      BY <3>1, SameCounts DEF Scans, InScan
    <3>3. Scans(t) = Cardinality(NodesOf(t)) + (IF current = t THEN 1 ELSE 0) /\ owed[t] = Scans(t)
      BY <3>1 DEF Scans, InScan, CallbackOwed
    <3>4. owed'[t] = owed[t] - (IF current = t THEN 1 ELSE 0)
      BY <2>2, <3>1, <3>3 DEF TypeOK
    <3> QED BY <2>2, <3>2, <3>3, <3>4
  <2>7. CASE EnterStep
    <3>1. PICK fn \in Handlers, x \in Torrents, caller \in Callers : Remove(fn, x, caller)
      BY <2>7 DEF EnterStep, Live
    <3>2. CASE RemoveCurrent(fn, x, caller)
      BY <2>1, <3>2 DEF RemoveCurrent
    <3>3. CASE RemoveWaiting(fn, x, caller) /\ NodesOf(x) = {}
      BY <2>1, <3>3 DEF RemoveWaiting
    <3>4. CASE RemoveWaiting(fn, x, caller) /\ NodesOf(x) # {}
      <4>1. PICK n \in verifyList : n.tor = x /\ verifyList' = verifyList \ {n}
        BY <3>4 DEF RemoveWaiting, First, NodesOf
      <4>2. /\ current' = current /\ thread' = thread /\ closed' = closed /\ current # x
            /\ owed' = [owed EXCEPT ![x] = owed[x] - 1]
        BY <3>4 DEF RemoveWaiting
      <4>3. /\ n.tor = t => Cardinality(NodesOf(t))' = Cardinality(NodesOf(t)) - 1
            /\ n.tor # t => Cardinality(NodesOf(t))' = Cardinality(NodesOf(t))
        BY <2>2, <4>1, TakeCounts
      <4>4. owed[t] = Scans(t) /\ owed'[t] = owed[t] - (IF t = x THEN 1 ELSE 0)
        BY <4>2 DEF TypeOK, CallbackOwed
      <4>5. Scans(t)' - Cardinality(NodesOf(t))' = Scans(t) - Cardinality(NodesOf(t))
        <5>1. Cardinality(NodesOf(t))' \in Int
          BY <2>2, <4>3
        <5>2. InScan' = InScan
          BY <4>2 DEF InScan
        <5> QED BY <2>2, <5>1, <5>2 DEF Scans
      <4>6. owed[t] \in Int /\ Cardinality(NodesOf(t))' \in Int /\ Scans(t) \in Int /\ Scans(t)' \in Int
        BY <2>2, <4>3 DEF Scans, TypeOK
      <4> QED BY <2>2, <4>1, <4>3, <4>4, <4>5, <4>6
    <3> QED BY <3>1, <3>2, <3>3, <3>4 DEF Remove
  <2>8. CASE AddScan
    <3> PICK x : x = ev.tor
      OBVIOUS
    <3>1. x \in Torrents /\ VerifyAdd(x) /\ closed' = closed
      BY <2>8, EvFacts, FrameFacts DEF AddScan
    <3>2. PICK n \in Node : n.tor = x /\ n \notin verifyList /\ verifyList' = verifyList \cup {n}
      BY <3>1, AddFacts
    <3>3. /\ n.tor = t => Cardinality(NodesOf(t))' = Cardinality(NodesOf(t)) + 1
          /\ n.tor # t => Cardinality(NodesOf(t))' = Cardinality(NodesOf(t))
      BY <2>2, <3>2, PutCounts
    <3>4. InScan' = InScan /\ owed' = [owed EXCEPT ![x] = owed[x] + 1]
      BY <3>1 DEF VerifyAdd, InScan
    <3>5. owed[t] = Scans(t) /\ owed'[t] = owed[t] + (IF t = x THEN 1 ELSE 0)
      BY <3>1, <3>4 DEF TypeOK, CallbackOwed
    <3>6. Cardinality(NodesOf(t))' \in Int
      BY <2>2, <3>3
    <3> QED BY <2>2, <3>2, <3>3, <3>4, <3>5, <3>6 DEF Scans
  <2>9. CASE RemoveReturn \/ StopFirst \/ GiveUp \/ Stopped \/ Freed \/ OtherStep
    BY <2>1, <2>9 DEF RemoveReturn, StopFirst, GiveUp, Stopped, Freed, OtherStep, queueVars
  <2>10. CASE Close
    BY <2>10 DEF Close
  <2>11. CASE UNCHANGED vars
    BY <2>1, <2>11 DEF vars
  <2> QED
    BY <2>3, <2>4, <2>5, <2>6, <2>7, <2>8, <2>9, <2>10, <2>11, NextSteps DEF VerifyStep, VerifyThread
<1> QED BY <1>1, <1>2, StructureHolds, PTL DEF Spec

-----------------------------------------------------------------------------
(* The layer about what a scan has found.                                  *)

\* The pieces the scan has passed agree with the disk, and a scan that ends
\* either passed them all or saw the flag, which stays up.
ScanSoFar ==
  /\ thread \in {"scan", "report"} =>
       \A p \in Pieces : p < pieceIndex =>
         /\ p \in have[current] <=> p \in disk[current]
         /\ p \in checked[current]
  /\ thread = "report" => stopCurrent \/ pieceIndex = PieceCount
  /\ CutShortIsAborted
  /\ report.tor # None /\ ~report.aborted =>
       /\ \A p \in Pieces : p \in have[report.tor] <=> p \in disk[report.tor]
       /\ ~(current = report.tor /\ thread \in Busy) => checked[report.tor] = Pieces

\* What a scan reports is so.
THEOREM ScanSoFarHolds == Spec => []ScanSoFar
<1>1. Init => ScanSoFar
  BY DEF Init, ScanSoFar, CutShortIsAborted, NoReport
<1>2. TypeOK /\ Structure /\ ScanSoFar /\ [Next]_vars => ScanSoFar'
  <2> SUFFICES ASSUME TypeOK, Structure, ScanSoFar, [Next]_vars PROVE ScanSoFar'
    OBVIOUS
  <2> USE DEF ScanSoFar, CutShortIsAborted, Busy, queueVars, pieceVars
  <2>0. ASSUME UNCHANGED <<pieceVars, report, current>>, stopCurrent => stopCurrent',
               thread' = thread \/ (thread = "none" /\ thread' = "top")
        PROVE  ScanSoFar'
    BY <2>0
  <2>1. CASE ThreadTake
    BY <2>1 DEF ThreadTake
  <2>2. CASE ThreadEnd
    BY <2>2 DEF ThreadEnd
  <2>3. CASE ScanBegin
    <3>1. \A p \in Pieces : ~(p < 0)
      BY PieceCountAssumption DEF Pieces
    <3>2. \A t \in Torrents : t # current => checked'[t] = checked[t]
      BY <2>3 DEF ScanBegin, TypeOK
    <3> QED BY <2>3, <3>1, <3>2 DEF ScanBegin, TypeOK
  <2>4. CASE ScanPiece
    <3>1. current \in Torrents /\ pieceIndex \in Pieces
      BY <2>4, PieceCountAssumption DEF ScanPiece, SetHasPiece, Structure, TypeOK, Pieces
    <3>2. pieceIndex \in have'[current] <=> pieceIndex \in disk[current]
      BY <2>4, <3>1 DEF ScanPiece, SetHasPiece, TypeOK
    <3>3. \A p \in Pieces : p # pieceIndex => (p \in have'[current] <=> p \in have[current])
      BY <2>4, <3>1 DEF ScanPiece, SetHasPiece, TypeOK
    <3>4. \A t \in Torrents : t # current => have'[t] = have[t] /\ checked'[t] = checked[t]
      BY <2>4, <3>1 DEF ScanPiece, SetHasPiece, TypeOK
    <3>5. checked'[current] = checked[current] \cup {pieceIndex}
      BY <2>4, <3>1 DEF ScanPiece, SetHasPiece, TypeOK
    <3>6. \A p \in Pieces : p < pieceIndex + 1 => p < pieceIndex \/ p = pieceIndex
      BY <3>1 DEF Pieces
    <3>7. thread = "scan" /\ pieceIndex' = pieceIndex + 1
          /\ UNCHANGED <<thread, current, stopCurrent, report, disk>>
      BY <2>4 DEF ScanPiece, SetHasPiece
    <3>8. \A p \in Pieces : p < pieceIndex' =>
            /\ p \in have'[current] <=> p \in disk[current]
            /\ p \in checked'[current]
      BY <3>2, <3>3, <3>5, <3>6, <3>7
    <3>9. ASSUME report.tor # None, ~report.aborted
          PROVE /\ \A p \in Pieces : p \in have'[report.tor] <=> p \in disk[report.tor]
                /\ ~(current = report.tor /\ thread \in Busy) => checked'[report.tor] = Pieces
      BY <3>2, <3>3, <3>4, <3>7, <3>9 DEF TypeOK
    <3> QED BY <3>7, <3>8, <3>9
  <2>5. CASE ScanEnd
    BY <2>5 DEF ScanEnd
  <2>6. CASE ScanReport
    <3>1. current \in Torrents /\ report' = [tor |-> current, aborted |-> stopCurrent, scanned |-> pieceIndex]
      BY <2>6 DEF ScanReport, Structure
    <3>2. ~stopCurrent => pieceIndex = PieceCount
      BY <2>6 DEF ScanReport
    <3>3. ASSUME pieceIndex = PieceCount
          PROVE /\ \A p \in Pieces : p \in have[current] <=> p \in disk[current]
                /\ checked[current] = Pieces
      <4>1. \A p \in Pieces : p < pieceIndex
        BY <3>3, PieceCountAssumption DEF Pieces
      <4>2. \A p \in Pieces : (p \in have[current] <=> p \in disk[current]) /\ p \in checked[current]
        BY <2>6, <4>1 DEF ScanReport
      <4>3. checked[current] \subseteq Pieces
        BY <3>1 DEF TypeOK
      <4> QED BY <4>2, <4>3
    <3>4. pieceIndex \in 0 .. PieceCount
      BY DEF TypeOK
    <3> QED BY <2>6, <3>1, <3>2, <3>3, <3>4, PieceCountAssumption DEF ScanReport
  <2>7. CASE Call \/ NestedCall
    <3>1. PICK fn, t, caller : Remove(fn, t, caller)
      BY <2>7 DEF Call, CallVerify, CallStop, CallRemove, NestedCall
    <3> QED BY <2>0, <3>1 DEF Remove, RemoveCurrent, RemoveWaiting
  <2>8. CASE AddScan
    BY <2>0, <2>8 DEF AddScan, VerifyAdd
  <2>9. CASE RemoveReturn \/ StopFirst \/ GiveUp \/ Stopped \/ Freed
    BY <2>0, <2>9 DEF RemoveReturn, StopFirst, GiveUp, Stopped, Freed
  <2>10. CASE Close
    BY <2>0, <2>10 DEF Close
  <2>11. CASE UNCHANGED vars
    BY <2>11 DEF vars
  <2> QED
    BY <2>1, <2>2, <2>3, <2>4, <2>5, <2>6, <2>7, <2>8, <2>9, <2>10, <2>11
       DEF Next, VerifyThread, EventThread, HandlerStep
<1> QED BY <1>1, <1>2, StructureHolds, PTL DEF Spec

\* A scan cut short is always reported as aborted.
THEOREM CutShortIsAbortedHolds == Spec => []CutShortIsAborted
<1>1. ScanSoFar => CutShortIsAborted
  BY DEF ScanSoFar
<1> QED BY <1>1, ScanSoFarHolds, PTL

\* A scan that is not reported as aborted leaves the completion bitfield equal
\* to what is on the disk.
THEOREM VerifiedIsTruthHolds == Spec => []VerifiedIsTruth
<1>1. TypeOK /\ ScanSoFar => VerifiedIsTruth
  <2> SUFFICES ASSUME TypeOK, ScanSoFar, report.tor # None, ~report.aborted
               PROVE /\ have[report.tor] = disk[report.tor]
                     /\ report.tor \notin InScan => checked[report.tor] = Pieces
    BY DEF VerifiedIsTruth
  <2>1. report.tor \in Torrents
    BY DEF TypeOK
  <2>2. have[report.tor] \subseteq Pieces /\ disk[report.tor] \subseteq Pieces
    BY <2>1 DEF TypeOK
  <2>3. have[report.tor] = disk[report.tor]
    BY <2>2 DEF ScanSoFar
  <2>4. report.tor \notin InScan => ~(current = report.tor /\ thread \in Busy)
    BY <2>1 DEF InScan, Busy
  <2> QED BY <2>3, <2>4 DEF ScanSoFar
<1> QED BY <1>1, TypeCorrect, ScanSoFarHolds, PTL

-----------------------------------------------------------------------------
(* What RemoveEnds rests on.                                               *)

\* How many steps the verify thread has to make until it lowers the flag,
\* once it is up.
StepsToLower ==
  CASE thread = "mark"   -> 4
    [] thread = "scan"   -> 3
    [] thread = "report" -> 2
    [] thread = "top"    -> 1
    [] thread = "none"   -> 0

\* While tr_verifyRemove waits for the flag, the thread is alive and every
\* step it makes brings it nearer to lowering the flag, at the latest the
\* fourth: it scans no further piece, and takes no other torrent before.
WaitIsShort ==
  [][ev.phase = "waiting" /\ stopCurrent =>
       /\ thread # "none"
       /\ VerifyThread => \/ ~stopCurrent'
                          \/ have' = have /\ current' = current /\ StepsToLower' < StepsToLower
       /\ ~VerifyThread => StepsToLower' = StepsToLower /\ current' = current]_vars

\* The thread that is waited for has the torrent in its hands, and until the
\* wait is over no other handler runs that could raise the flag again.
THEOREM WaitIsShortHolds == Spec => WaitIsShort
<1> DEFINE Short ==
      ev.phase = "waiting" /\ stopCurrent =>
        /\ thread # "none"
        /\ VerifyThread => \/ ~stopCurrent'
                           \/ have' = have /\ current' = current /\ StepsToLower' < StepsToLower
        /\ ~VerifyThread => StepsToLower' = StepsToLower /\ current' = current
<1>1. TypeOK /\ Structure /\ [Next]_vars => [Short]_vars
  <2> SUFFICES ASSUME TypeOK, Structure, Next,
                      ev.phase = "waiting", stopCurrent
               PROVE  /\ thread # "none"
                      /\ VerifyThread => \/ ~stopCurrent'
                                         \/ /\ have' = have /\ current' = current
                                            /\ StepsToLower' < StepsToLower
                      /\ ~VerifyThread => StepsToLower' = StepsToLower /\ current' = current
    OBVIOUS
  <2>1. current = ev.tor /\ ev # Idle /\ current # None /\ thread # "none"
    <3>1. ev # Idle
      BY FrameFacts
    <3> QED BY <3>1, EvFacts, NoneAssumption DEF Structure
  <2>2. ASSUME VerifyThread
        PROVE  \/ ~stopCurrent'
               \/ have' = have /\ current' = current /\ StepsToLower' < StepsToLower
    <3>1. CASE ThreadTake \/ ThreadEnd
      BY <3>1 DEF ThreadTake, ThreadEnd
    <3>2. CASE ScanBegin
      BY <3>2 DEF ScanBegin, StepsToLower
    <3>3. CASE ScanPiece
      BY <3>3 DEF ScanPiece
    <3>4. CASE ScanEnd
      BY <3>4 DEF ScanEnd, pieceVars, StepsToLower
    <3>5. CASE ScanReport
      BY <3>5 DEF ScanReport, pieceVars, StepsToLower
    <3> QED
      BY <2>2, <3>1, <3>2, <3>3, <3>4, <3>5 DEF VerifyThread
  <2>3. ASSUME ~VerifyThread PROVE StepsToLower' = StepsToLower /\ current' = current
    <3>1. ~Call /\ ~Close /\ ~NestedCall
      BY <2>1 DEF Call, Close, NestedCall
    <3>2. ~(StopFirst \/ AddScan \/ GiveUp \/ Stopped \/ Freed \/ RemoveReturn)
      BY DEF StopFirst, AddScan, GiveUp, Stopped, Freed, RemoveReturn
    <3> QED
      BY <2>3, <3>1, <3>2 DEF Next, EventThread, HandlerStep
  <2> QED
    BY <2>1, <2>2, <2>3
<1> QED
  BY <1>1, StructureHolds, PTL DEF Spec, WaitIsShort
=============================================================================
