---------------------------- MODULE TorrentQueue ----------------------------
(* The queues of a session: torrent.c, session.c, peer-mgr.c, rpcimpl.c.     *)
(* Every torrent has a position; torrents that wait for a slot are started   *)
(* in that order by the pulse of the bandwidth timer, separately for those   *)
(* that download and those that seed.                                        *)
(*                                                                           *)
(* The event thread runs all of it but tr_torrentNew, which another thread   *)
(* calls under the session lock.  The moves of a batch and the count of the  *)
(* free slots do not take that lock, so they are broken into the steps a     *)
(* torrentInit can come between.  Verification, the event pipe and the       *)
(* threads that stop torrents are in TorrentLifecycle.                       *)
EXTENDS Integers, FiniteSets, FiniteSetsExt, Sequences

CONSTANTS Torrents,       \* every torrent that may be added
          None,           \* no torrent
          Sizes,          \* the queue sizes a user may set, by direction
          Switched,       \* the directions whose queue may be switched off
          Positions,      \* the positions a user may ask for
          Moves,          \* the batch moves that are asked for
          Batches,        \* and the sets of torrents they are asked for
          Flipping,       \* torrents whose completeness may change
          Idling,         \* torrents that may stall
          Losing          \* torrents whose files may disappear

Dirs == {"up", "down"}

ASSUME QueueAssumption ==
    /\ None \notin Torrents
    /\ Sizes \in [Dirs -> SUBSET Nat]
    /\ Switched \subseteq Dirs
    /\ Positions \subseteq Int
    /\ Moves \subseteq {"top", "up", "down", "bottom"}
    /\ Batches \subseteq SUBSET Torrents
    /\ Flipping \subseteq Torrents /\ Idling \subseteq Torrents /\ Losing \subseteq Torrents

VARIABLES session,        \* the torrents of session->torrentList
          torrentCount,
          queuePosition,
          isRunning, isStopping, isQueued,
          isSeed,         \* completeness is not TR_LEECH
          idle,           \* idle for longer than the stalled minutes
          lost,           \* had data once, and none is left on disk
          queueSize, queueEnabled,
          batch,          \* the loop of a tr_torrentsQueueMove...
          starting        \* a torrentStart that has counted the free slots

settings == <<queueSize, queueEnabled>>
disk     == <<isSeed, idle, lost>>
flags    == <<isRunning, isStopping, isQueued>>
places   == <<session, torrentCount, queuePosition>>
vars     == <<places, flags, disk, settings, batch, starting>>

NoBatch == [move |-> "none", torrents |-> <<>>, i |-> 0]
NoStart == [tor |-> None, wait |-> FALSE]

(* The event thread is between two callbacks. *)
EventLoop == batch = NoBatch /\ starting = NoStart

Init ==
    /\ session = {} /\ torrentCount = 0
    /\ queuePosition = [t \in Torrents |-> 0]
    /\ isRunning = [t \in Torrents |-> FALSE]
    /\ isStopping = [t \in Torrents |-> FALSE]
    /\ isQueued = [t \in Torrents |-> FALSE]
    /\ isSeed = [t \in Torrents |-> FALSE]
    /\ idle = [t \in Torrents |-> FALSE]
    /\ lost = [t \in Torrents |-> FALSE]
    /\ queueSize \in {s \in [Dirs -> UNION {Sizes[d] : d \in Dirs}] : \A d \in Dirs : s[d] \in Sizes[d]}
    /\ queueEnabled = [d \in Dirs |-> TRUE]
    /\ batch = NoBatch /\ starting = NoStart
-----------------------------------------------------------------------------
(* Slots. *)

Direction(t) == IF isSeed[t] THEN "up" ELSE "down"

IsStalled(t) == isRunning[t] /\ idle[t]

Active(d) == {t \in session : isRunning[t] /\ ~IsStalled(t) /\ Direction(t) = d}

(* Mutant: stalled torrents keep their slot. *)
ActiveOrStalled(d) == {t \in session : isRunning[t] /\ Direction(t) = d}

FreeSlotsCountStalled(d, stopped) ==
    IF ~queueEnabled[d] THEN torrentCount + 1
    ELSE Max({0, queueSize[d] - Cardinality(ActiveOrStalled(d) \ stopped)})

(* tr_sessionCountQueueFreeSlots, when the torrents of stopped do not run    *)
(* any more; without a limit it is INT_MAX, more than there are torrents.    *)
FreeSlots(d, stopped) ==
    IF ~queueEnabled[d] THEN torrentCount + 1
    ELSE Max({0, queueSize[d] - Cardinality(Active(d) \ stopped)})

Waiting(d) == {t \in session : isQueued[t] /\ Direction(t) = d}

AheadOf(t, S) == {u \in S : queuePosition[u] < queuePosition[t]}

(* Mutant: one torrent more than wanted. *)
NextQueuedAndOne(d, stopped) ==
    {t \in Waiting(d) \ stopped :
        Cardinality(AheadOf(t, Waiting(d) \ stopped)) <= FreeSlots(d, stopped)}

(* Mutant: the last ones instead of the first ones. *)
NextQueuedLast(d, stopped) ==
    LET S == Waiting(d) \ stopped
    IN  {t \in S : Cardinality({u \in S : t \in AheadOf(u, S)}) < FreeSlots(d, stopped)}

(* tr_sessionGetNextQueuedTorrents *)
NextQueued(d, stopped) ==
    {t \in Waiting(d) \ stopped :
        Cardinality(AheadOf(t, Waiting(d) \ stopped)) < FreeSlots(d, stopped)}
-----------------------------------------------------------------------------
(* Adding and removing. *)

(* torrentInit: the new torrent goes to the back of the line.  With a saved  *)
(* .torrent file and a resume file that says so it is started at once; a new *)
(* torrent is verified first, and then started as StartCheck does it.  The   *)
(* resume file has set isRunning when setLocalErrorIfFilesDisappeared looks, *)
(* so a torrent without its files is marked to be stopped.                   *)
Add(t, seed, gone, doStart) ==
    LET d == IF seed THEN "up" ELSE "down"
        wait == FreeSlots(d, {}) = 0
    IN  /\ t \notin session
        /\ (seed => t \in Flipping) /\ (gone => t \in Losing)
        /\ queuePosition' = [queuePosition EXCEPT ![t] = torrentCount]
        /\ torrentCount' = torrentCount + 1
        /\ session' = session \cup {t}
        /\ isSeed' = [isSeed EXCEPT ![t] = seed]
        /\ lost' = [lost EXCEPT ![t] = gone]
        /\ isQueued' = [isQueued EXCEPT ![t] = doStart /\ wait]
        /\ isRunning' = [isRunning EXCEPT ![t] = doStart /\ ~wait /\ ~gone]
        /\ isStopping' = [isStopping EXCEPT ![t] = doStart /\ gone]
        /\ UNCHANGED <<idle, settings, batch, starting>>

(* closeTorrent: stopTorrent, then freeTorrent closes the gap in the line. *)
Remove(t) ==
    /\ EventLoop
    /\ t \in session
    /\ session' = session \ {t}
    /\ torrentCount' = torrentCount - 1
    /\ queuePosition' = [u \in Torrents |->
           IF u = t \/ u \notin session THEN 0
           ELSE IF queuePosition[u] > queuePosition[t] THEN queuePosition[u] - 1
           ELSE queuePosition[u]]
    /\ isRunning' = [isRunning EXCEPT ![t] = FALSE]
    /\ isStopping' = [isStopping EXCEPT ![t] = FALSE]
    /\ isQueued' = [isQueued EXCEPT ![t] = FALSE]
    /\ isSeed' = [isSeed EXCEPT ![t] = FALSE]
    /\ idle' = [idle EXCEPT ![t] = FALSE]
    /\ lost' = [lost EXCEPT ![t] = FALSE]
    /\ UNCHANGED <<settings, batch, starting>>
-----------------------------------------------------------------------------
(* Starting and stopping. *)

(* torrentStart up to torrentShouldQueue, for the RPC handler and for the    *)
(* end of a verification: no lock is held when the slots are counted.        *)
StartCheck(t) ==
    /\ EventLoop
    /\ t \in session
    /\ ~isRunning[t]
    /\ ~(isQueued[t] /\ queueEnabled[Direction(t)])     \* already queued
    /\ starting' = [tor |-> t, wait |-> FreeSlots(Direction(t), {}) = 0]
    /\ UNCHANGED <<places, flags, disk, settings, batch>>

(* torrentStart from there on, with torrentStartImpl. *)
StartFinish ==
    LET t == starting.tor
        runs == ~starting.wait /\ ~lost[t]
    IN  /\ t # None
        /\ isRunning' = [isRunning EXCEPT ![t] = runs]
        /\ isQueued' = [isQueued EXCEPT ![t] = starting.wait \/ (@ /\ ~runs)]
        /\ idle' = [idle EXCEPT ![t] = @ /\ ~runs]
        /\ starting' = NoStart
        /\ UNCHANGED <<places, isStopping, isSeed, lost, settings, batch>>

(* tr_torrentStartNow passes by the queue. *)
StartNow(t) ==
    /\ EventLoop
    /\ t \in session
    /\ ~isRunning[t] /\ ~lost[t]
    /\ isRunning' = [isRunning EXCEPT ![t] = TRUE]
    /\ isQueued' = [isQueued EXCEPT ![t] = FALSE]
    /\ idle' = [idle EXCEPT ![t] = FALSE]
    /\ UNCHANGED <<places, isStopping, isSeed, lost, settings, batch, starting>>

(* torrentStop of RPC, a seed limit or a local error: stopped by the pulse. *)
AskStop(t) ==
    /\ EventLoop
    /\ t \in session
    /\ isRunning[t] \/ isQueued[t]
    /\ isStopping' = [isStopping EXCEPT ![t] = TRUE]
    /\ UNCHANGED <<places, isRunning, isQueued, disk, settings, batch, starting>>

(* bandwidthPulse: stop what is to be stopped, then fill the free slots of   *)
(* both queues.  A torrent whose files have disappeared is picked, does not  *)
(* start and stays in the queue.                                             *)
Pulse ==
    LET stopped == {t \in session : isStopping[t]}
        picked == UNION {NextQueued(d, stopped) : d \in {e \in Dirs : queueEnabled[e]}}
        started == {t \in picked : ~lost[t]}
    IN  /\ EventLoop
        /\ isRunning' = [t \in Torrents |-> t \in started \/ (isRunning[t] /\ t \notin stopped)]
        /\ isQueued' = [t \in Torrents |-> isQueued[t] /\ t \notin stopped \cup started]
        /\ isStopping' = [t \in Torrents |-> isStopping[t] /\ t \notin stopped]
        /\ idle' = [t \in Torrents |-> idle[t] /\ t \notin stopped \cup started]
        /\ UNCHANGED <<places, isSeed, lost, settings, batch, starting>>
-----------------------------------------------------------------------------
(* Moving in the line. *)

(* Mutant: a step too few makes room when t moves ahead. *)
WalkedTooFew(t, pos) ==
    [u \in session |->
        IF u = t THEN -1
        ELSE IF queuePosition[t] < pos /\ queuePosition[u] \in queuePosition[t] .. pos
             THEN queuePosition[u] - 1
        ELSE IF queuePosition[t] > pos /\ queuePosition[u] \in pos + 1 .. queuePosition[t] - 1
             THEN queuePosition[u] + 1
        ELSE queuePosition[u]]

(* tr_torrentSetQueuePosition: the others make room, then t takes its place, *)
(* but never further back than behind the last one.                          *)
Walked(t, pos) ==
    [u \in session |->
        IF u = t THEN -1
        ELSE IF queuePosition[t] < pos /\ queuePosition[u] \in queuePosition[t] .. pos
             THEN queuePosition[u] - 1
        ELSE IF queuePosition[t] > pos /\ queuePosition[u] \in pos .. queuePosition[t] - 1
             THEN queuePosition[u] + 1
        ELSE queuePosition[u]]

Back(walked) == Max({walked[u] : u \in session})

(* Mutant: positions below zero are not brought to the front. *)
SetAnyPosition(t, where) ==
    queuePosition' = [u \in Torrents |->
        IF u = t THEN Min({where, Back(Walked(t, where)) + 1})
        ELSE IF u \in session THEN Walked(t, where)[u] ELSE queuePosition[u]]

SetQueuePosition(t, where) ==
    LET pos == Max({0, where})
        walked == Walked(t, pos)
    IN  queuePosition' = [u \in Torrents |->
            IF u = t THEN Min({pos, Back(walked) + 1})
            ELSE IF u \in session THEN walked[u] ELSE queuePosition[u]]

(* torrent-set with a queuePosition. *)
PlaceAt(t, where) ==
    /\ EventLoop
    /\ t \in session
    /\ SetQueuePosition(t, where)
    /\ UNCHANGED <<session, torrentCount, flags, disk, settings, batch, starting>>

Sorted(q) ==
    \A i, j \in DOMAIN q : i < j => queuePosition[q[i]] < queuePosition[q[j]]

(* tr_torrentsQueueMoveTop, ...Up, ...Down and ...Bottom sort their batch    *)
(* once and move its torrents one by one, from the front or from the back.   *)
(* Mutant: a move to the top begins with the first of the batch. *)
FromFrontToTop(move) == move \in {"up", "bottom", "top"}

FromFront(move) == move \in {"up", "bottom"}

BatchBegin(move, S) ==
    /\ EventLoop
    /\ S \subseteq session /\ S # {}
    /\ \E q \in [1..Cardinality(S) -> S] :
          /\ Sorted(q)
          /\ batch' = [move |-> move, torrents |-> q,
                       i |-> IF FromFront(move) THEN 1 ELSE Len(q)]
    /\ UNCHANGED <<places, flags, disk, settings, starting>>

Target(move, t) ==
    CASE move = "top"    -> 0
      [] move = "up"     -> queuePosition[t] - 1
      [] move = "down"   -> queuePosition[t] + 1
      [] move = "bottom" -> torrentCount       \* INT_MAX

BatchStep ==
    LET t == batch.torrents[batch.i]
        next == IF FromFront(batch.move) THEN batch.i + 1 ELSE batch.i - 1
    IN  /\ batch # NoBatch
        /\ SetQueuePosition(t, Target(batch.move, t))
        /\ batch' = IF next \in DOMAIN batch.torrents
                    THEN [batch EXCEPT !.i = next] ELSE NoBatch
        /\ UNCHANGED <<session, torrentCount, flags, disk, settings, starting>>
-----------------------------------------------------------------------------
(* What else changes: completeness, traffic, the disk and the settings. *)

(* tr_torrentRecheckCompleteness; a running torrent that has become a seed   *)
(* may be past its seed limit already.                                       *)
Flip(t, full) ==
    /\ EventLoop
    /\ t \in session \cap Flipping
    /\ full => isRunning[t] /\ ~isSeed[t]
    /\ isSeed' = [isSeed EXCEPT ![t] = ~@]
    /\ isStopping' = [isStopping EXCEPT ![t] = @ \/ full]
    /\ UNCHANGED <<places, isRunning, isQueued, idle, lost, settings, batch, starting>>

Traffic(t) ==
    /\ EventLoop
    /\ t \in session \cap Idling
    /\ isRunning[t]
    /\ idle' = [idle EXCEPT ![t] = ~@]
    /\ UNCHANGED <<places, flags, isSeed, lost, settings, batch, starting>>

(* Nobody looks at the disk during a batch. *)
Disk(t) ==
    /\ batch = NoBatch
    /\ t \in session \cap Losing
    /\ lost' = [lost EXCEPT ![t] = ~@]
    /\ UNCHANGED <<places, flags, isSeed, idle, settings, batch, starting>>

SetQueueSize(d, n) ==
    /\ EventLoop
    /\ queueSize' = [queueSize EXCEPT ![d] = n]
    /\ UNCHANGED <<places, flags, disk, queueEnabled, batch, starting>>

SetQueueEnabled(d, on) ==
    /\ EventLoop
    /\ queueEnabled' = [queueEnabled EXCEPT ![d] = on]
    /\ UNCHANGED <<places, flags, disk, queueSize, batch, starting>>

Next ==
    \/ \E t \in Torrents :
          \/ \E seed, gone, doStart \in BOOLEAN : Add(t, seed, gone, doStart)
          \/ Remove(t) \/ StartCheck(t) \/ StartNow(t) \/ AskStop(t)
          \/ \E where \in Positions : PlaceAt(t, where)
          \/ \E full \in BOOLEAN : Flip(t, full)
          \/ Traffic(t) \/ Disk(t)
    \/ StartFinish
    \/ Pulse
    \/ \E move \in Moves, S \in Batches : BatchBegin(move, S)
    \/ BatchStep
    \/ \E d \in Dirs : \E n \in Sizes[d] : SetQueueSize(d, n)
    \/ \E d \in Switched, on \in BOOLEAN : SetQueueEnabled(d, on)

Spec == Init /\ [][Next]_vars

(* The event thread finishes the callback it is in, and its loop serves the  *)
(* bandwidth timer, which arms itself again, whatever else is pending.       *)
Fairness == WF_vars(StartFinish) /\ WF_vars(BatchStep) /\ SF_vars(Pulse)

FairSpec == Spec /\ Fairness
-----------------------------------------------------------------------------
(* Type correctness. *)
QTypeOK ==
    /\ session \subseteq Torrents
    /\ torrentCount \in Nat
    /\ queuePosition \in [Torrents -> Nat]
    /\ isRunning \in [Torrents -> BOOLEAN]
    /\ isStopping \in [Torrents -> BOOLEAN]
    /\ isQueued \in [Torrents -> BOOLEAN]
    /\ isSeed \in [Torrents -> BOOLEAN]
    /\ idle \in [Torrents -> BOOLEAN]
    /\ lost \in [Torrents -> BOOLEAN]
    /\ queueSize \in [Dirs -> Nat]
    /\ queueEnabled \in [Dirs -> BOOLEAN]
    /\ batch \in {NoBatch} \cup [move : Moves, torrents : Seq(session), i : Nat]
    /\ batch # NoBatch => batch.i \in DOMAIN batch.torrents
    /\ starting \in [tor : session \cup {None}, wait : BOOLEAN]

(* The assertions of tr_torrentSetQueuePosition and freeTorrent: sorted by   *)
(* position, the n torrents of the session have the positions 0 to n-1, with *)
(* no gap and no two alike, after every step of a batch and whatever is      *)
(* added in its midst.                                                       *)
QueueIsSequenced ==
    /\ torrentCount = Cardinality(session)
    /\ \A t \in session : queuePosition[t] \in 0 .. torrentCount - 1
    /\ \A t, u \in session : queuePosition[t] = queuePosition[u] => t = u

(* The line the abstract queue speaks of. *)
InFront == {p \in session \X session : queuePosition[p[1]] < queuePosition[p[2]]}

Order == INSTANCE QueueOrder
             WITH Members <- Torrents, line <- session, ahead <- InFront

(* A new torrent joins at the back, a removed one closes its gap, and each   *)
(* step of a move takes one torrent elsewhere without disturbing the order   *)
(* of the others: positions implement the abstract line.                     *)
OrderSpec == Order!Spec

(* tr_torrentsQueueMoveTop and ...Bottom: when the batch is through, its     *)
(* torrents stand in the order they had before, and after a move to the top  *)
(* nobody else stands ahead of any of them.                                  *)
BatchKeepsOrder ==
    [][batch.move \in {"top", "bottom"} /\ batch' = NoBatch =>
          LET q == batch.torrents
          IN  /\ \A j, k \in DOMAIN q :
                    j < k => queuePosition'[q[j]] < queuePosition'[q[k]]
              /\ batch.move = "top" =>
                    \A u \in session \ {q[j] : j \in DOMAIN q} :
                       \A j \in DOMAIN q : queuePosition'[q[j]] < queuePosition'[u]]_vars

Busy(d) == Cardinality({t \in session : isRunning[t] /\ ~idle[t] /\ isSeed[t] = (d = "up")})

(* A start that heeds the queue never makes more torrents busy than the      *)
(* queue has slots.  Only a torrentStart whose count of the free slots was   *)
(* overtaken by a torrentInit in another thread may take one too many.       *)
SlotsRespected ==
    [][\A d \in Dirs : queueEnabled[d] /\ Busy(d)' > Busy(d) =>
          /\ Pulse \/ session' # session => Busy(d)' <= queueSize[d]
          /\ StartFinish => Busy(d)' <= queueSize[d] + 1]_vars

(* The pulse starts the torrents of a queue in the order of their positions: *)
(* whoever stood ahead of one that is started is started too, unless it was  *)
(* being stopped or has lost its files.                                      *)
NoOvertaking ==
    [][Pulse => \A t, u \in session :
          /\ isQueued[t] /\ isRunning'[t] /\ ~isRunning[t]
          /\ isQueued[u] /\ isSeed[u] = isSeed[t] /\ queuePosition[u] < queuePosition[t]
          => isRunning'[u] \/ isStopping[u] \/ lost[u]]_vars

(* t waits, could run, and there are more free slots than torrents ahead.    *)
Due(t) ==
    LET d == Direction(t)
    IN  /\ t \in session /\ isQueued[t] /\ ~isStopping[t] /\ ~lost[t]
        /\ queueEnabled[d]
        /\ Cardinality(AheadOf(t, Waiting(d))) < queueSize[d] - Busy(d)

(* A slot is not left free for ever while a torrent is waiting for it:       *)
(* sooner or later the torrent is started, or it is not its turn any more.   *)
WaitingIsServed == \A t \in Torrents : Due(t) ~> ~Due(t)
=============================================================================
