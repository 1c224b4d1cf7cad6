------------------------------- MODULE Verify -------------------------------
(***************************************************************************)
(* The verification thread of libtransmission/verify.c.                    *)
(*                                                                         *)
(* Two threads meet here: the libtransmission (event) thread, which calls  *)
(* tr_verifyAdd, tr_verifyRemove and tr_verifyClose, and the verify thread *)
(* that tr_verifyAdd creates on demand and that ends when its list is      *)
(* empty.  They share verifyList, currentNode, stopCurrent and             *)
(* verifyThread, guarded by the verify lock; a step below is one critical  *)
(* section, or one stretch of code between two of them.                    *)
(*                                                                         *)
(* The callers are three handlers of torrent.c.  verifyTorrent() stops a   *)
(* running torrent inline, and stopTorrent() goes on to verify a torrent   *)
(* whose metadata has just arrived: the two nest in each other.            *)
(*                                                                         *)
(* What is abstracted: a torrent has the pieces 0..PieceCount-1, a piece   *)
(* is read and hashed in one step, and the sorted list is the set of its   *)
(* nodes, at whose front is any node no other one sorts before.  A node    *)
(* has an identity, its address, for the same torrent can be added twice.  *)
(***************************************************************************)
EXTENDS Integers, FiniteSets

CONSTANTS Torrents,    \* the torrents of the session
          PieceCount,  \* tor->info.pieceCount, the same for each of them
          NodeIds,     \* the addresses of struct verify_node
          Sizes,       \* the sizes on disk that current_size may take
          Priority,    \* tr_torrentGetPriority, as a function of the torrent
          None,        \* the NULL torrent
          Disks,       \* what may be on the disk of a torrent: the pieces that match
          Magnets,     \* the torrents that were added without their metadata
          MayFail      \* disks fail: local errors, files that disappear

Pieces == 0 .. PieceCount - 1

ASSUME PieceCountAssumption == PieceCount \in Nat \ {0}
ASSUME PriorityAssumption == Priority \in [Torrents -> Int] /\ Sizes \subseteq Nat
ASSUME DisksAssumption == Disks \subseteq SUBSET Pieces
ASSUME NoneAssumption == None \notin Torrents

Node == [id : NodeIds, tor : Torrents, size : Sizes]

VARIABLES
  verifyList,   \* the nodes waiting for the thread
  current,      \* currentNode.torrent
  stopCurrent,  \* the static flag verifyTorrent() polls
  thread,       \* where the verify thread is; "none" when verifyThread is NULL
  pieceIndex,   \* verifyTorrent's pieceIndex
  verifyState,  \* tor->verifyState
  have,         \* the complete pieces of tor->completion
  checked,      \* the pieces whose timeChecked is set
  disk,         \* the pieces whose bytes on disk match their hash
  ev,           \* what the event thread is doing
  closed,       \* tr_verifyClose has run
  magnetVerify, \* tor->magnetVerify: to be verified when it is stopped
  freed,        \* the torrents freeTorrent() has freed
  doubled,      \* history: the torrents verified again from their own verifyTorrent()
  owed,         \* history: how many verify-done callbacks of a torrent are to come
  report        \* history: the arguments of the last callback of a scan

queueVars == <<verifyList, current, stopCurrent, thread>>
pieceVars == <<pieceIndex, have, checked, disk>>
torrentVars == <<magnetVerify, freed, doubled>>
vars == <<verifyList, current, stopCurrent, thread, pieceIndex, verifyState,
          have, checked, disk, ev, closed, owed, report, magnetVerify, freed, doubled>>

-----------------------------------------------------------------------------
(* The event thread is idle, or in the handler fn of torrent tor.  The     *)
(* handler is about to call tr_verifyRemove ("call"), "waiting" in its     *)
(* loop, or "after" it; verifyTorrent() can also be back from its inline   *)
(* tr_torrentStop and about to "add".  Its caller is the event loop, the   *)
(* bandwidth timer, or a verifyTorrent() of the same torrent.              *)

Handlers == {"verifyTorrent", "stopTorrent", "removeTorrent"}
Frame(fn, t, phase, caller) == [fn |-> fn, tor |-> t, phase |-> phase, caller |-> caller]
Idle == Frame("idle", None, "idle", "loop")
Calls == [fn : Handlers, tor : Torrents, phase : {"call", "waiting", "after", "add"},
          caller : {"loop", "bandwidthPulse", "verifyTorrent"}]

\* Where the event thread is when the handler it is in returns.
Return == IF ev.caller = "verifyTorrent" THEN Frame("verifyTorrent", ev.tor, "add", "loop")
                                         ELSE Idle

Live == Torrents \ freed

NoReport == [tor |-> None, aborted |-> FALSE, scanned |-> 0]

Init ==
  /\ verifyList = {}
  /\ current = None
  /\ stopCurrent = FALSE
  /\ thread = "none"
  /\ pieceIndex = 0
  /\ verifyState = [t \in Torrents |-> "none"]
  /\ have \in [Torrents -> SUBSET Pieces]
  /\ checked = [t \in Torrents |-> {}]
  /\ disk \in [Torrents -> Disks]
  /\ ev = Idle
  /\ closed = FALSE
  /\ magnetVerify \in [Torrents -> BOOLEAN]
  /\ \A t \in Torrents : magnetVerify[t] => t \in Magnets /\ have[t] = {}
  /\ freed = {}
  /\ doubled = {}
  /\ owed = [t \in Torrents |-> 0]
  /\ report = NoReport

-----------------------------------------------------------------------------
(* The verify thread.                                                      *)

\* compareVerifyByPriorityAndSize (a, b) < 0
SortsBefore(a, b) ==
  \/ Priority[a.tor] > Priority[b.tor]
  \/ Priority[a.tor] = Priority[b.tor] /\ a.size < b.size

\* the nodes of nodes that can be the first ones in the sorted verifyList
First(nodes) == {n \in nodes : ~ \E m \in nodes : SortsBefore(m, n)}

NodesOf(t) == {n \in verifyList : n.tor = t}

\* Mutant: the flag stays up when the next node is taken.
ThreadTakeKeepsFlag ==
  /\ thread = "top"
  /\ \E n \in First(verifyList) :
       /\ current' = n.tor
       /\ verifyList' = verifyList \ {n}
  /\ thread' = "mark"
  /\ UNCHANGED <<stopCurrent, pieceVars, verifyState, ev, closed, owed, report,
                 torrentVars>>

\* The critical section at the top of verifyThreadFunc, with a node to take.
ThreadTake ==
  /\ thread = "top"
  /\ stopCurrent' = FALSE
  /\ \E n \in First(verifyList) :
       /\ current' = n.tor
       /\ verifyList' = verifyList \ {n}
  /\ thread' = "mark"
  /\ UNCHANGED <<pieceVars, verifyState, ev, closed, owed, report, torrentVars>>

\* Mutant: the flag stays up when the thread ends.
ThreadEndKeepsFlag ==
  /\ thread = "top"
  /\ verifyList = {}
  /\ current' = None
  /\ thread' = "none"
  /\ UNCHANGED <<verifyList, stopCurrent, pieceVars, verifyState, ev, closed, owed, report,
                 torrentVars>>

\* The same critical section on an empty list: the thread ends.
ThreadEnd ==
  /\ thread = "top"
  /\ verifyList = {}
  /\ stopCurrent' = FALSE
  /\ current' = None
  /\ thread' = "none"
  /\ UNCHANGED <<verifyList, pieceVars, verifyState, ev, closed, owed, report,
                 torrentVars>>

\* TR_VERIFY_NOW, then the prologue of verifyTorrent().
ScanBegin ==
  /\ thread = "mark"
  /\ verifyState' = [verifyState EXCEPT ![current] = "now"]
  /\ checked' = [checked EXCEPT ![current] = {}]
  /\ pieceIndex' = 0
  /\ thread' = "scan"
  /\ UNCHANGED <<verifyList, current, stopCurrent, have, disk, ev, closed, owed, report,
                 torrentVars>>

\* Mutant: a piece that was believed to be good and is not is left alone.
SetHasPieceOnlyGood(t, p) == IF p \in disk[t] THEN [have EXCEPT ![t] = @ \cup {p}] ELSE have

\* tr_torrentSetHasPiece when piece p is good or was believed to be
SetHasPiece(t, p) ==
  LET hadPiece == p \in have[t]
      hasPiece == p \in disk[t]
  IN IF hasPiece \/ hadPiece
     THEN [have EXCEPT ![t] = IF hasPiece THEN @ \cup {p} ELSE @ \ {p}]
     ELSE have

\* Mutant: the loop runs one piece too far.
ScanPieceTooFar ==
  /\ thread = "scan"
  /\ ~stopCurrent
  /\ pieceIndex <= PieceCount
  /\ have' = SetHasPiece(current, pieceIndex)
  /\ checked' = [checked EXCEPT ![current] = @ \cup {pieceIndex}]
  /\ pieceIndex' = pieceIndex + 1
  /\ UNCHANGED <<queueVars, verifyState, disk, ev, closed, owed, report, torrentVars>>

\* One piece of verifyTorrent()'s loop.
ScanPiece ==
  /\ thread = "scan"
  /\ ~stopCurrent
  /\ pieceIndex < PieceCount
  /\ have' = SetHasPiece(current, pieceIndex)
  /\ checked' = [checked EXCEPT ![current] = @ \cup {pieceIndex}]
  /\ pieceIndex' = pieceIndex + 1
  /\ UNCHANGED <<queueVars, verifyState, disk, ev, closed, owed, report, torrentVars>>

\* Mutant: the flag is lowered as soon as the loop has seen it.
ScanEndLowersFlag ==
  /\ thread = "scan"
  /\ stopCurrent \/ pieceIndex = PieceCount
  /\ stopCurrent' = FALSE
  /\ verifyState' = [verifyState EXCEPT ![current] = "none"]
  /\ thread' = "report"
  /\ UNCHANGED <<verifyList, current, pieceVars, ev, closed, owed, report,
                 torrentVars>>

\* The loop's exit, and TR_VERIFY_NONE.
ScanEnd ==
  /\ thread = "scan"
  /\ stopCurrent \/ pieceIndex = PieceCount
  /\ verifyState' = [verifyState EXCEPT ![current] = "none"]
  /\ thread' = "report"
  /\ UNCHANGED <<verifyList, current, stopCurrent, pieceVars, ev, closed, owed, report,
                 torrentVars>>

\* The verify-done callback, which reads stopCurrent a last time.
ScanReport ==
  /\ thread = "report"
  /\ report' = [tor |-> current, aborted |-> stopCurrent, scanned |-> pieceIndex]
  /\ owed' = [owed EXCEPT ![current] = @ - 1]
  /\ thread' = "top"
  /\ UNCHANGED <<verifyList, current, stopCurrent, pieceVars, verifyState, ev, closed,
                 torrentVars>>

VerifyThread == ThreadTake \/ ThreadEnd \/ ScanBegin \/ ScanPiece \/ ScanEnd \/ ScanReport

-----------------------------------------------------------------------------
(* The event thread.  Each of its handlers starts with tr_verifyRemove.    *)

\* tr_verifyRemove of the torrent the thread holds: raise the flag and wait.
RemoveCurrent(fn, t, caller) ==
  /\ current = t
  /\ stopCurrent' = TRUE
  /\ ev' = Frame(fn, t, "waiting", caller)
  /\ UNCHANGED <<verifyList, current, thread, pieceVars, verifyState, closed, owed, report>>

\* Mutant: the torrent's state is reset and its node forgotten in the list.
RemoveWaitingLeavesNode(fn, t, caller) ==
  /\ current # t
  /\ verifyState' = [verifyState EXCEPT ![t] = "none"]
  /\ ev' = Frame(fn, t, "after", caller)
  /\ UNCHANGED <<queueVars, pieceVars, closed, owed, report>>

\* Mutant: a waiting node is dropped without its callback.
RemoveWaitingSilently(fn, t, caller) ==
  /\ current # t
  /\ verifyList' = verifyList \ NodesOf(t)
  /\ verifyState' = [verifyState EXCEPT ![t] = "none"]
  /\ ev' = Frame(fn, t, "after", caller)
  /\ UNCHANGED <<current, stopCurrent, thread, pieceVars, closed, owed, report>>

\* tr_verifyRemove of any other torrent: drop the first node it has, if any,
\* and call its callback with aborted = true from here.
RemoveWaiting(fn, t, caller) ==
  /\ current # t
  /\ IF NodesOf(t) = {}
     THEN UNCHANGED <<verifyList, owed>>
     ELSE /\ \E n \in First(NodesOf(t)) : verifyList' = verifyList \ {n}
          /\ owed' = [owed EXCEPT ![t] = @ - 1]
  /\ verifyState' = [verifyState EXCEPT ![t] = "none"]
  /\ ev' = Frame(fn, t, "after", caller)
  /\ UNCHANGED <<current, stopCurrent, thread, pieceVars, closed, report>>

Remove(fn, t, caller) == RemoveCurrent(fn, t, caller) \/ RemoveWaiting(fn, t, caller)

\* Mutant: tr_verifyRemove does not wait for the thread.
RemoveReturnAtOnce ==
  /\ ev.phase = "waiting"
  /\ ev' = [ev EXCEPT !.phase = "after"]
  /\ UNCHANGED <<queueVars, pieceVars, verifyState, closed, owed, report, torrentVars>>

\* The loop "while (stopCurrent)" sees the flag down.
RemoveReturn ==
  /\ ev.phase = "waiting"
  /\ ~stopCurrent
  /\ ev' = [ev EXCEPT !.phase = "after"]
  /\ UNCHANGED <<queueVars, pieceVars, verifyState, closed, owed, report, torrentVars>>

\* verifyTorrent() of a torrent that runs calls tr_torrentStop, which clears
\* isRunning and calls stopTorrent() from here.
StopFirst ==
  /\ ev.fn = "verifyTorrent" /\ ev.phase = "after"
  /\ ev.caller # "verifyTorrent"
  /\ ev' = Frame("stopTorrent", ev.tor, "call", "verifyTorrent")
  /\ UNCHANGED <<queueVars, pieceVars, verifyState, closed, owed, report, torrentVars>>

\* the addresses no node has; which of them malloc picks makes no difference
FreeIds == NodeIds \ {n.id : n \in verifyList}

\* tr_verifyAdd
VerifyAdd(t) ==
  /\ FreeIds # {}
  /\ \E size \in Sizes :
       verifyList' = verifyList \cup {[id |-> CHOOSE id \in FreeIds : TRUE, tor |-> t, size |-> size]}
  /\ verifyState' = [verifyState EXCEPT ![t] = "wait"]
  /\ thread' = IF thread = "none" THEN "top" ELSE thread
  /\ owed' = [owed EXCEPT ![t] = @ + 1]
  /\ UNCHANGED <<current, stopCurrent>>

\* setLocalErrorIfFilesDisappeared: there may be no data although pieces are complete
FilesGone(t) == MayFail /\ have[t] # {}

\* The end of verifyTorrent(): queue the scan, or
AddScan ==
  /\ ev.fn = "verifyTorrent" /\ ev.phase \in {"after", "add"}
  /\ VerifyAdd(ev.tor)
  /\ ev' = Return
  /\ UNCHANGED <<pieceVars, closed, report, torrentVars>>

\* give up on a torrent whose files have disappeared.
GiveUp ==
  /\ ev.fn = "verifyTorrent" /\ ev.phase \in {"after", "add"}
  /\ FilesGone(ev.tor)
  /\ ev' = Return
  /\ UNCHANGED <<queueVars, pieceVars, verifyState, closed, owed, report, torrentVars>>

\* The end of stopTorrent(): with magnetVerify, tr_torrentVerify from here.
Stopped ==
  /\ ev.fn = "stopTorrent" /\ ev.phase = "after"
  /\ \/ /\ ~magnetVerify[ev.tor]
        /\ ev' = Return
        /\ UNCHANGED torrentVars
     \/ /\ magnetVerify[ev.tor]
        /\ magnetVerify' = [magnetVerify EXCEPT ![ev.tor] = FALSE]
        /\ ev' = Frame("verifyTorrent", ev.tor, "call", ev.caller)
        /\ doubled' = IF ev.caller = "verifyTorrent" THEN doubled \cup {ev.tor} ELSE doubled
        /\ UNCHANGED freed
  /\ UNCHANGED <<queueVars, pieceVars, verifyState, closed, owed, report>>

\* The end of closeTorrent(): freeTorrent().
Freed ==
  /\ ev.fn = "removeTorrent" /\ ev.phase = "after"
  /\ freed' = freed \cup {ev.tor}
  /\ ev' = Idle
  /\ UNCHANGED <<queueVars, pieceVars, verifyState, closed, owed, report, magnetVerify, doubled>>

\* The tr_verifyRemove of a handler that was called from another one.
NestedCall ==
  /\ ev.phase = "call"
  /\ Remove(ev.fn, ev.tor, ev.caller)
  /\ UNCHANGED torrentVars

\* tr_verifyClose: free the nodes without calling their callbacks.
Close ==
  /\ ev = Idle
  /\ ~closed
  /\ closed' = TRUE
  /\ stopCurrent' = TRUE
  /\ verifyList' = {}
  /\ UNCHANGED <<current, thread, pieceVars, verifyState, ev, owed, report, torrentVars>>

\* The beginning of the three handlers, up to their tr_verifyRemove.
CallVerify(t) == Remove("verifyTorrent", t, "loop") /\ UNCHANGED torrentVars
CallStop(t, caller) == Remove("stopTorrent", t, caller) /\ UNCHANGED torrentVars
CallRemove(t) ==
  /\ Remove("removeTorrent", t, "loop")
  /\ magnetVerify' = [magnetVerify EXCEPT ![t] = FALSE]
  /\ UNCHANGED <<freed, doubled>>

\* The event loop enters a handler.  Once the session is closing, it only closes
\* and frees its torrents.
Call ==
  /\ ev = Idle
  /\ \E t \in Live : \/ ~closed /\ (CallVerify(t) \/ CallStop(t, "loop"))
                     \/ CallRemove(t)

HandlerStep == RemoveReturn \/ NestedCall \/ StopFirst \/ AddScan \/ GiveUp \/ Stopped \/ Freed

EventThread == Call \/ HandlerStep \/ Close

Next == VerifyThread \/ EventThread

\* Both threads are scheduled, and a handler that was entered goes on; the
\* event thread is under no obligation to start one.
Fairness == WF_vars(VerifyThread) /\ WF_vars(HandlerStep)

Spec == Init /\ [][Next]_vars /\ Fairness

-----------------------------------------------------------------------------
(* Properties.                                                             *)

TypeOK ==
  /\ verifyList \subseteq Node
  /\ current \in Torrents \cup {None}
  /\ stopCurrent \in BOOLEAN
  /\ thread \in {"none", "top", "mark", "scan", "report"}
  /\ pieceIndex \in 0 .. PieceCount
  /\ verifyState \in [Torrents -> {"none", "wait", "now"}]
  /\ have \in [Torrents -> SUBSET Pieces]
  /\ checked \in [Torrents -> SUBSET Pieces]
  /\ disk \in [Torrents -> SUBSET Pieces]
  /\ ev \in Calls \cup {Idle}
  /\ closed \in BOOLEAN
  /\ magnetVerify \in [Torrents -> BOOLEAN]
  /\ freed \subseteq Torrents
  /\ doubled \subseteq Torrents
  /\ owed \in [Torrents -> Int]
  /\ report.tor \in Torrents \cup {None}
  /\ report.aborted \in BOOLEAN
  /\ report.scanned \in 0 .. PieceCount

Waiting == {n.tor : n \in verifyList}
InScan == {t \in Torrents : current = t /\ thread \in {"mark", "scan", "report"}}

\* the scans of t that are waiting or under way
Scans(t) == Cardinality(NodesOf(t)) + (IF t \in InScan THEN 1 ELSE 0)
\* the pointers to t in the list and in currentNode, which keeps the torrent of
\* the last scan until the thread is back at the top of its loop
Pointers(t) == Cardinality(NodesOf(t)) + (IF current = t THEN 1 ELSE 0)
\* what tr_verifyRemove may leave behind: it drops one node
Leftover(t) == IF t \in doubled THEN 1 ELSE 0

\* A torrent is in the verifier once, since verifyTorrent() removes before it
\* adds.  The exception is the magnet whose verifyTorrent() calls itself through
\* its inline stop: both calls add, and from then on there may be two scans of
\* it, yet never three.
QueuedOnce == \A t \in Torrents : Scans(t) <= 1 + Leftover(t)

\* tor->verifyState, which the rest of the program decides by
\* (tr_torrentGetActivity), says where the torrent is in the verifier.  When
\* there are two scans of it, the state of the one hides the other.
StateTellsQueue ==
  ~closed => \A t \in Torrents :
    LET waits == t \in Waiting \/ (current = t /\ thread = "mark")
        scans == current = t /\ thread = "scan"
    IN /\ verifyState[t] = "wait" => waits
       /\ verifyState[t] = "now" => scans
       /\ t \notin doubled => /\ waits => verifyState[t] = "wait"
                              /\ scans => verifyState[t] = "now"

\* When tr_verifyRemove has returned, neither the list nor the verify thread
\* holds a pointer to the torrent, so that freeTorrent() may follow; of a doubled
\* torrent there may be one left, which verify.c:223 asserts there is not.
RemovedIsReleased == ev.phase = "after" => Pointers(ev.tor) <= Leftover(ev.tor)

\* Before tr_verifyClose, the stop flag is up only while tr_verifyRemove waits
\* for the very torrent being verified: removing one torrent never cuts the
\* scan of another one short.
StopHitsItsTorrent ==
  stopCurrent /\ ~closed => ev.phase = "waiting" /\ current = ev.tor

\* Every tr_verifyAdd is answered by exactly one callback: the callbacks still
\* owed to a torrent are as many as its scans that wait or run.  Only
\* tr_verifyClose, which frees nodes silently, breaks the account.
CallbackOwed == ~closed => \A t \in Torrents : owed[t] = Scans(t)

\* A scan that was cut short is reported as aborted: the flag is lowered only
\* when the thread is back at the top of its loop.
CutShortIsAborted ==
  report.tor # None /\ report.scanned < PieceCount => report.aborted

\* After a scan that was not aborted, the completion bitfield is what the disk
\* holds, also for the pieces that were wrongly believed to be there, and
\* each piece has its timeChecked until the next scan clears them.
VerifiedIsTruth ==
  report.tor # None /\ ~report.aborted =>
    /\ have[report.tor] = disk[report.tor]
    /\ report.tor \notin InScan => checked[report.tor] = Pieces

\* The busy wait in tr_verifyRemove ends, and with it the handler, however deep
\* it nests: the flag it raised is seen by the thread and lowered, and nobody
\* raises it again in between.
RemoveEnds == ev.phase = "waiting" ~> ev = Idle
=============================================================================
