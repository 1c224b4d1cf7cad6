# A verification of the core of Transmission for Android

This directory specifies parts of the BitTorrent client in this repository in
TLA+, checks them with TLC on small instances, and proves what matters most with
TLAPS for every instance.

The repository is Transmission 2.84 packed into an Android app. The engine is
`src/transmission-2.84/libtransmission` (paths below without a prefix are
relative to it). `src/Android/jni` turns the daemon into a native library:
`jni_interface.cpp` starts `tr_main` of `daemon.c` in a thread of its own, and
`watch.c` follows a directory for new `.torrent` files. curl, libevent and OpenSSL
are vendored and are not looked at.

## 1. The system

### Threads

| thread | runs | shares |
|---|---|---|
| event thread (`trevent.c`) | every handler: messages of the pipe, timers, sockets, RPC requests | everything, under the session lock when it takes it |
| client threads (the daemon's main loop, GUIs) | `tr_torrentNew`, `tr_torrentStart`, ...: some flags in place, the rest as a message in the pipe | torrents, the pipe |
| verify thread (`verify.c`) | one at a time, created on demand | the verify list, `stopCurrent`, `verifyState`, the completion |
| web thread (`web.c`) | all HTTP transfers | the list of tasks |

### Components

| component | state | operations | right when |
|---|---|---|---|
| verifier, `verify.c` | sorted list, current node, stop flag, thread | add, remove, close, the scan | remove returns only when the torrent is let go of; one callback per add; a complete scan leaves the truth |
| torrent lifecycle, `torrent.c`, `trevent.c`, `rpcimpl.c` | `isRunning`, `isStopping`, `startAfterVerify`, `magnetVerify`, the pipe | start, stop, verify, remove, metadata, local error | flags, peers and verifier agree; no pointer to a freed torrent; what is to stop stops |
| queues, `torrent.c`, `session.c`, `peer-mgr.c` | queue positions, `isQueued`, sizes | add, remove, start, start now, stop, batch moves, the pulse | positions are 0 to n-1; order is kept; slots are neither overrun nor wasted |
| disk cache, `cache.c`, `inout.c` | sorted array of blocks, limit | write, read, trim, flush done / file / torrent | reads see the last write; what is saved as complete is on disk; the limit holds |
| completion, `completion.c` | bitfield and lazy counters | add block, add or remove piece | the counters are those of the bitfield |
| resume files, `resume.c` | `.resume` | save, load | a restart never believes more than is on disk |
| peer manager, `peer-mgr.c` | swarms, request list, piece list, chokes | requests, timeouts, endgame, pulses | every wanted block is asked for; pending counts match the list |
| peer protocol, `peer-msgs.c`, `peer-io.c`, `handshake.c` | one automaton per connection | messages | requests are answered or rejected once |
| announcer, `announcer.c` | tiers, event queues, slots, stops of removed torrents | announce, scrape, stop, new tracker lists, answers | the last word to a tracker is right; slots and marks come back; running torrents are announced |
| UDP trackers, `announcer-udp.c` | address, connection, requests | ask, upkeep, time out, answer, close | each callback is called once, and at last |
| web tasks, `web.c`; webseeds, `webseed.c` | tasks | run, finish, close | every task is answered or dropped once |
| bandwidth, `bandwidth.c` | a tree of budgets | allocate, clamp | no one gets more than the parents have |
| session, `session.c` | settings, timers | save, close | everything is flushed in the right order within the deadline |
| watch directory, `src/Android/jni/watch.c` | names seen last | scan | every new file is added |
| others | port forwarding, DHT, LPD, blocklists, fd pool, RPC server, parsers | | |

They meet in four places: *shared flags* of `tr_torrent`, which several threads
write; *the pipe*, which delays a client's request until the event thread reads
it; *callbacks* (`onVerifyDone` comes back through the pipe); and *direct calls*
within the event thread (a block goes from `peer-msgs.c` to the cache, to the
completion, to the test of the piece, to the flush of the file). The announcer
is asked by the lifecycle, asks the UDP code and `web.c`, and is called back by
them; peers and webseeds share the request list of the peer manager, and their
blocks reach it and the cache.

What is hard to test here is listed with its line under `hazards` in
`PROJECT.json`: the waiting loop in `tr_verifyRemove`, one stop flag for all
scans, messages that outlive their torrent, deferred stops, flushes that fail
half way, an age that shares an integer with flag bits, batch moves that a new
torrent can come into, answers of trackers that find another torrent than asked,
requests that time out from inside the loop that times them out, two tables of
block requests that must agree, a snapshot of the pieces to be asked for.

## 2. The modules

| module | models | extends / refines |
|---|---|---|
| `Verify` | `verify.c` and the handlers of `torrent.c` that call it, nested in each other | |
| `VerifyProofs` | theorems about `Verify` | `Verify` |
| `TorrentLifecycle` | start, stop, verify, remove through three threads, the pipe and the bandwidth timer | composes with `Verify` |
| `LifecycleProofs` | theorems about `TorrentLifecycle` | `TorrentLifecycle` |
| `BlockStore` | abstract: a write-back store of blocks | |
| `Cache` | `cache.c`, `inout.c`, and the handlers that call them | implements `BlockStore` |
| `CacheProofs` | theorems about `Cache`: types, refinement, size | `Cache` |
| `CacheDataProofs` | theorems about the data in `Cache` | `CacheProofs` |
| `QueueOrder` | abstract: a line one joins, leaves and moves in | |
| `TorrentQueue` | positions, batch moves, slots, the queue pulse | implements `QueueOrder` |
| `TorrentQueueProofs` | theorems about `TorrentQueue` | `TorrentQueue` |
| `Announcer` | the tiers of each torrent, their event queues, slots, and late answers | |
| `AnnouncerProofs` | theorems about `Announcer` | `Announcer` |
| `TrackerPromise` | abstract: every request is answered at most once, after it was made | |
| `TrackerUdp` | one UDP tracker and the closing loop of the session | implements `TrackerPromise`, which `Announcer` relies on |
| `TrackerUdpProofs` | theorems about `TrackerUdp` | `TrackerUdp` |
| `PeerRequests` | request list, piece list and endgame, used by peers and webseeds | |
| `PeerRequestsProofs` | theorems about `PeerRequests` | `PeerRequests` |
| `MCVerify`, `MCLifecycle`, `MCCache`, `MCQueue`, `MCAnnouncer`, `MCTrackerUdp`, `MCPeerRequests` | instances for TLC | |

Operators named "Mutant" in a comment are variants of the definition that follows
them, each with one plausible mistake. They are not part of any specification:
they show that the property which rules the mistake out is able to fail.

### Verify

One step is one critical section of the verify lock, or one stretch of code
between two of them; the busy wait of `tr_verifyRemove` is a step that waits for
the flag to be down. `thread` is the program counter of the verify thread. The
list is a set of nodes with addresses, because the same torrent can be added
twice. A piece is read and hashed in one step.

The callers belong to the model, since what `tr_verifyRemove` promises depends on
them. `ev` is the frame of the event thread: the handler (`verifyTorrent`,
`stopTorrent`, `removeTorrent`, which is `closeTorrent`), its torrent, its phase
(about to `call` `tr_verifyRemove`, `waiting` in it, `after` it, about to `add`), and
its `caller`. The handlers nest:

    verifyTorrent             tr_verifyRemove, then StopFirst if it runs (torrent.c:1814)
      stopTorrent             tr_verifyRemove, then Stopped
        verifyTorrent         if magnetVerify (torrent.c:1877): tr_verifyRemove, AddScan
      ... back in phase "add": AddScan or GiveUp (torrent.c:1818-1821)

Three frames are enough, for the innermost `verifyTorrent` finds `isRunning`
cleared and the stop around it has cleared `magnetVerify`; the outer frames have
nothing left to do but the `add`, so that one `caller` field describes them. `StopFirst`
leaves open whether the torrent runs, and `magnetVerify` starts out with any value
for a magnet without data; `TorrentLifecycle` decides both. A torrent that went
through the inner `verifyTorrent` is in `doubled` from then on: the second
`tr_verifyAdd` follows no `tr_verifyRemove` that could have seen the first. `doubled`,
`owed` and `report` are history.

### TorrentLifecycle

It extends `Verify` by what decides about the calls: the flags of the torrents, their
swarms, the pipe, the bandwidth timer, RPC requests and a client thread. Each
of its actions is an action of `Verify` with what the handler does besides
(`StopTorrent` is `Stopped` and ends the swarm, `VerifyTorrent` is `AddScan` or
`GiveUp` and sets `startAfterVerify`), or leaves the verifier alone. RPC requests
and timers are handlers; a client thread reads the activity of a torrent without
the lock, and acts on it in a later step, as `torrentStart` does. A handler keeps the
session lock to its end, but a `stopTorrent` that came through the pipe has released
it when it goes on to `tr_torrentVerify` (`torrent.c:1875`): `SessionLocked`. `startAfter`
is the local of `verifyTorrent` that must survive its inline stop. `asked`, `calls`
and `overtaken` (torrents whose start ran between a client's stop and the handler of
that stop) are history. The pipe never fills up, the session is not closed, and
the queues are off (`TorrentQueue` has them).

### Cache and BlockStore

The array of cached blocks is a function from blocks to contents, a run a maximal
interval of cached ones. A flush is the set of its outcomes: runs are written in
the order of their ranks, a write may fail after a part of it has reached the disk,
and the flush stops there. `Rank` keeps the integer arithmetic of `calcRuns`,
flag bits included. A block is "good", "bad" or not there. The steps of
`tr_torrentPieceCompleted` that flush the files one after the other are separate
(`todo`), since each flush can fail on its own and the program can die between
them; no other handler runs in between. `SaveTimer` flushes and then saves any part of the
torrents, because the program can die among the saves as well. `BlockStore` says what a reader may rely
on: reads return the last write, the disk holds that or an older value of every
block, a crash falls back to the disk, and only torrents with a write error may
lose anything else.

### TorrentQueue and QueueOrder

Positions are global, the two queues are separated by direction only. The event
thread runs everything but `torrentInit`, which another thread runs under the
session lock. Batch moves and `torrentShouldQueue` do not take that lock, so a
batch is one step per `tr_torrentSetQueuePosition`, and a queued start is a check
and an act, with `Add` free to come between. `FreeSlots` is
`tr_sessionCountQueueFreeSlots`; `Pulse` is the part of `bandwidthPulse` that stops
what is marked and fills both queues. A request that names a torrent twice is not
modelled. `QueueOrder` is a strict order: a new member joins at the back, a
leaving one changes nothing for the others, a move takes one member to another
place; `ahead` is mapped to "has the smaller position".

### Announcer

A tier is a record with its trackers, the queue of announce events, the marks
"announcing" and "scraping", and its times, of which only "never", "later" and
"now" are told apart. The functions on tiers (`Push`, `IncrementTracker`, `Copy`,
`Announced`, ...) are the functions of `announcer.c`. What `torrent.c` does is one
action per call, since everything runs in the event thread (whether a torrent that
becomes a seed has downloaded anything, `torrent.c:2154`, is left open: if not, it
announces nothing); `net` holds the
requests without an answer, and an answer looks for its tier again by key or by
scrape URL, as the code does, however much has changed. `Upkeep` chooses which
tiers get the slots, because the order depends on byte counts. An announce
carries the tick it was sent at, so that two equal ones stay two. `excused` is history.
Left out: byte counts and the order of tiers, the 48 hashes per scrape, the
intervals themselves, `tr_announcerClose`.

### TrackerUdp and TrackerPromise

One `tau_tracker` as a record that the functions of `announcer-udp.c` map to a
new one, in the order in which they call each other: `TimeoutReqs` can refuse the
connection, which fails all requests, before it looks at their ages; `evdns` may
call back inside `AfterUpkeep`. Two clocks are kept as what is left of a time or
as an age, and `lag` is the difference between them. Datagrams that are lost,
doubled or too late match no transaction and change nothing. The closing loop
of `sessionCloseImpl` runs in the event thread, so that nothing is read and no
timer fires while it waits. `TrackerPromise` says what the announcer relies on.

### PeerRequests

`requests` is `swarm->requests`; `pending` and `count` are the counters that are
kept beside it, per peer and per piece; `listed` is the piece list. Every call that
removes requests is `Remove`, or `BlockFrom` for an arriving block, which cancels it
everywhere; `Request` adds what `tr_peerMgrGetNextRequests` returns. Which
requests are old, the order of the pieces, and what peers send is left open.
Left out: strikes and bans, `isReadingBlock` (`peer-mgr.c:1512`: a block that is being
read is not timed out), blocks of different size, the retry counter of webseeds and a webseed that writes over a checked piece
(which `Cache` has).

## 3. What is checked

| run | instance | shows |
|---|---|---|
| `verify` | a torrent and a magnet, 2 pieces of which the disk has one, every belief about them, 3 nodes, 2 sizes, close at any time | list, flag, callbacks and completion agree in every interleaving, with nested handlers: `QueuedOnce`, `RemovedIsReleased`, `CallbackOwed`, ...; `RemoveEnds`: the event thread does not spin for ever |
| `lifecycle_rpc` | a magnet and a torrent, 3 requests over RPC, 3 nodes | flags and peers agree between handlers; no peers while verifying; `StoppingEnds`, `MagnetResumes` |
| `lifecycle_client` | the same with 3 calls of a client thread, which verifies the magnet too, and failing disks | `SingleIsForgotten`: removal leaves the verifier no pointer, and one at most of a doubled magnet; `FlagAndSwarmMeet`: where flag and swarm differ, the handler that joins them is on its way |
| `cache` | 1 torrent, pieces of 1 and 2 blocks, 2 files sharing a block, limits 0, 1, 2, failing writes, good and bad blocks | complete pieces read as good, saved pieces are on disk, finished files are flushed |
| `cache_fail` | 2 torrents of 2 blocks, limit 1, webseeds, failing writes | implements `BlockStore`; the size never grows beyond the limit |
| `queue` | 3 torrents (one flips between download and seed, one stalls, one loses its files), sizes 1 and 2, a queue that is switched off | positions implement `QueueOrder`; batches keep their order; slots are respected, in order, and not wasted |
| `announcer` | a torrent whose tier has two trackers or one, 1 slot, failures, new tracker lists | no mark and no slot stays behind (`BusyIsInFlight`, `NoSlotIsLost`); `LastWordIsRight`; `RunningIsAnnounced` |
| `tracker_udp` | 2 requests and a "stopped" without callback, 2 clocks, silent tracker and resolver, close at any time | `SendAssertsHold`; implements `TrackerPromise`; `EveryRequestEnds` |
| `requests` | pieces of 2 blocks and 1, an honest peer, a silent one, a webseed | `TablesAgree`; no block is asked of three (`NoWaste`); `EveryBlockArrives` although others take requests and answer none |

What the properties say of a doubled magnet is a bound, not an excuse: `QueuedOnce`
allows it two scans, `RemovedIsReleased` and `SingleIsForgotten` allow one pointer after
a removal, `CallbackOwed` counts its callbacks like any other's. Every bound is
reached in `verify` and in `lifecycle_client`; in `lifecycle_rpc` a magnet is not
verified on request, so that nothing is doubled there.

Three runs end in a violation, each a disagreement between the code and what the
repository says of it (`findings` in `PROJECT.json`):

- `cache_stale`: `calcRuns` adds the age of a run to its rank; after 36 hours
  the age reaches the flag bits, an unfinished run sorts before done ones, and
  the save timer saves pieces as complete that are still in memory.
- `announcer_silent`: a stopped torrent that a new selection of files makes a
  seed announces "completed", and its success queues periodic announces for ever.
- `requests_stale`: a complete piece that a verification finds missing is not in
  the piece list, which is rebuilt only when it is empty; the shelf life that
  `peer-mgr.c:78` documents is not used. Nobody is asked for the piece as long as
  another one cannot be had.

### Bounds, and why they are enough

Two torrents are what it takes for one to be scanned while another is removed,
and for a flush of one to harm the other; three let two swap places behind or
before a third. Two pieces let a scan be cut short in its middle; one of them is good
and one bad, so that with every belief about them each of the four cases of
`SetHasPiece` is met. Three node addresses are enough for a doubled torrent and another
one: no state lacks a free one. Three calls reach
every pair of requests with a third to follow. Blocks:
a piece of one and one of two, with a file boundary inside the second, is the
smallest layout with a piece in two files, a file in two pieces and a run across
both. Ages are stepped only where a property depends on them: by 8200 at once
in `cache_stale`. Batches in `queue` are the pair of `t1` and `t2`, in every
order, with the third torrent anywhere around them. Positions asked for are one
below the range and one above; the moves ask for all others.

Announcer: `MaxKey` tiers are made in all, so a torrent is added and its trackers
are replaced once; queues hold `MaxEvents` (2) events beside the one in flight,
more than a start and a stop, because "stopped" empties the queue; a tick is used
again once its requests are answered, and `MaxTicks` (2) of them are open at a
time; slots are counted to `MaxSlots`, since scrapes give back slots they never
took. One slot is the tightest; a search with two slots and all layouts (6.6
million states, safety only) finds nothing else. UDP: intervals of 1 to 3 in the
order of the real ones and a lag of 1 let every pair of timeouts happen in either
order. PeerRequests: two blocks in one piece are the least that a piece can lack
in part; three askers are one more than may have a block; `MaxMishaps` (2) stops,
selections, lost and failed pieces together; `Desired` 2 leaves a peer room for a
part of the torrent. A search with `Desired` 3 and two tasks finds nothing else.

`queue`, `announcer` and the runs of the cache check for deadlock; `verify` may stop when
all its torrents are freed, the lifecycle runs because nobody has to call anything,
`tracker_udp` when the session closes, and `requests` when the torrent is complete.

### Fairness

- Verify: both threads are scheduled by the operating system and a handler that
  was entered goes on; nothing is assumed of callers.
- TorrentLifecycle: weak fairness of the verify thread, of the event loop and of
  a client call that was begun; strong fairness of the bandwidth timer per
  torrent, since the event loop serves a due timer no matter how many messages
  arrive and the timer re-arms itself (`peer-mgr.c`, end of `bandwidthPulse`).
- TorrentQueue: the event thread finishes the callback it is in; strong fairness
  of the pulse for the same reason.
- Announcer: the upkeep timer re-arms itself, time passes for every tier, and
  every request is answered, which the timeouts of curl and `TrackerUdp`'s
  `EveryRequestEnds` justify.
- TrackerUdp: the clock, the timer of `tr_time()`, the upkeep and the loop of the
  close go on. Nothing is assumed of trackers and resolvers.
- PeerRequests: strong fairness of the pulse and the answers of the peers in
  `Honest` only, and that requests grow old and failing transfers of webseeds end.
  The pulse runs twice a second (`peer-msgs.c`); it is not always beaten to a
  block because a peer that answers nothing is closed as idle
  (`shouldPeerBeClosed`, `peer-mgr.c:3192`) and a webseed that fails waits
  (`FAILURE_RETRY_INTERVAL`, `webseed.c`).
- Cache states no liveness.

## 4. What is proved

All proofs are checked by TLAPS for every value of the constants that satisfies
the named assumptions of the modules (`PieceCountAssumption`, `PriorityAssumption`,
`DisksAssumption`, `NoneAssumption`, `CallsAssumption`, `CacheAssumption`, `QueueAssumption`,
`AnnouncerAssumption`, `TrackerUdpAssumption`, `PeerRequestsAssumption`).

**`VerifyProofs`.** None of the safety properties is inductive by itself: that a
removal has released the torrent depends on where the thread is, on who raised
the flag and on how many nodes the list holds. The invariant is built in three
layers, each proved from those under it. `Structure` counts pointers, by where the
handler of the torrent is: a torrent has one, and a doubled torrent two at most;
one less from the moment a removal of it has dropped a node, or has seen the flag
go down; none at all in the innermost `verifyTorrent`, because the two removals before
it have dropped what there was and its torrent becomes doubled only there. That is
why the outer `add` makes two pointers and never three. Besides, the flag is up only
for the torrent a removal waits for. From `Structure` follow `QueuedOnce`,
`RemovedIsReleased` and `StopHitsItsTorrent`. On top of it come `StateTellsQueue` (in one
direction only for doubled torrents, where the state of one scan hides the other)
and `CallbackOwed`, what the rest of the program reads off. `ScanSoFar` says what the
scan has found among the pieces below `pieceIndex`; `CutShortIsAborted` and
`VerifiedIsTruth` follow from it. The counting lemmas (`TakeCounts`, `PutCounts`,
`RemovePointers`, `AddPointers`) rest on the cardinality of finite sets; every step
lemma is stated for `VerifyStep`, which also covers what `TorrentLifecycle` adds.

**`LifecycleProofs`.** `VerifierSteps` shows that every step of the lifecycle is a
`VerifyStep`, so that the lemmas of `VerifyProofs` carry over: `BaseHolds` is the
invariant (`Structure` with the types, `MagnetOnce`, by which a magnet is doubled once
at most, and `CallerStopped`, by which a nested stop has cleared the flag),
`VerifierHolds` restates the properties of the verifier for the composed system, and
`FreedIsForgotten` follows for every torrent.

`FlagAndSwarmMeetHolds` is about both halves of a start or stop by a client. `FlagSteps`
lists who changes a torrent's flag or its swarm and how; `PostedStays` shows that a
message stays in the pipe until it is read, `StopsItStays` that a stop which was
posted is posted or under way until its handler has ended the swarm, nested calls
included. `SwarmIsWatched` then needs no more than that whoever clears the flag posts a
stop or is one: a pending `verifyTorrent` does not count. `StartIsWatched` is the reverse,
and its invariant has to say more: a swarm that is stopped under a flag that is set
belongs to a torrent whose start had overtaken the stop.

The other two hold when all requests come over RPC, an assumption of the theorems
(`ClientCalls = {}`). `SwarmTellsRunning` is the invariant of `FlagAndSwarmAgree`: between
the clearing of a flag and the end of its swarm there is a handler. It covers disks
that fail, which run `lifecycle_rpc` leaves out for the sake of `MagnetResumes`.
`ScansAreUndisturbed` assumes as well that no magnet is verified on request
(`MagnetsUnasked`); then metadata never arrives in the middle of a verification,
nothing is queued twice, and a torrent whose state is "none" is not in the verifier.

**`CacheProofs`.** `TypeCorrect`; `CacheImplementsStore`, that every step of the
cache is a write, a sync, a crash or a stutter of `BlockStore`, for every layout
of pieces and files and every order in which a flush may take its runs, unless
`pwrite` falls short, which the code takes for success; and `CacheIsBoundedHolds`,
by counting: a trim chooses enough runs to fit, and a flush that fails has
removed at least the run it failed at, hence a block for the block that came in.

**`CacheDataProofs`.** What is in the blocks, while no write has failed. The
invariant, `DataInv`, has to speak of both sides at once, because a crash makes
the completion what the resume file says and the data what the disk holds: a block
of a piece that counts as complete reads as good (`GoodToRead`), a block of a piece
that was saved as complete is good on the disk (`GoodOnDisk`), and what was saved
is still held (`SavedIsHeld`). The save timer is where it could break. It flushes
runs in the order of their ranks and stops at the first that is not due, so that
what is saved after it is on the disk only if every run with a block of a
complete piece comes before all others. `CachedIsInARun` finds the run of a cached
block by going to the nearest gap on either side, a run with a block of a complete
piece is done or multi (it lies within a piece, or crosses into the next, hence the
clause of `CacheAssumption` that later blocks belong to later pieces), and
the arithmetic of the ranks sorts those first as long as an age does not reach the
flag bits. The theorems say so: `AgesFit` (limit and greatest age together stay below
the lower flag) is a hypothesis, and `cache_stale` is what happens without
it. The others are `~MayShort` (a short write counts as a success, `inout.c`) and
`WebseedsAreRight`, since a webseed may write over a piece that was tested.
`CompleteFileIsFlushedHolds` needs only that there are no webseeds: `FilesAreFlushed`
adds to the property that a finished file with a cached block is still on `todo`.

**`TorrentQueueProofs`.** The invariant is `Numbered`: the session is finite, its
count is right, positions are distinct, below the count, *and every number is
taken*. The last part is what makes a move provable: `RoomIsMade` shows from it
that the greatest position the walk leaves behind clamps a move past the end to
the last place, `MoveShifts` gives the closed form of a move, and
`MoveKeepsNumbers`, `MoveKeepsOthers` follow by arithmetic. `QueueIsSequencedHolds`
is the assertion of `tr_torrentSetQueuePosition` and `freeTorrent`;
`QueueImplementsOrder` is the refinement.

On it rest three properties of steps. `BatchKeepsOrderHolds`: `BatchProgress` is
the invariant of the loop, that the torrents it has dealt with stand in their old
order at their end of the line, ahead of everybody outside the batch if that is
the top; it survives a `torrentInit` in between, which joins at the back, and for a
move to the bottom it claims nothing of such a newcomer. `NoOvertakingHolds`: of
those picked each has fewer torrents ahead than there are slots, and a set of
those ahead of a picked torrent is smaller. `SlotsRespectedHolds` counts:
`NoMoreThanSlots` bounds what is picked by taking the hindmost picked torrent (all
others are ahead of it); `SlotsAreCounted` relates the free slots, counted without
what the pulse stops, to the torrents that stay busy; and `StartFits` is the
invariant that makes the overtaken start exceed by one only, because every
`torrentInit` in between starts its torrent only when it finds a slot free itself.

**`AnnouncerProofs`.** Five invariants. `KeysOK` has the types and that no two tiers
of a torrent have one key; it rests on the assumption that no URL is twice in a
tracker list (`filter_trackers`), because tiers that copied the same old tier would
share its key. On it rest four that do not need each other, each proved by what an
action does to one tier: `SlotsOK` counts (as many announces are sent as tiers are
marked, since keys differ, and a tick that is free sends none twice); `BusyOK`
follows each mark to its answer; and `WordsOK` adds to `LastWordIsRight` that a tier
which saw no error has at most one announce under way, and only while it is
marked; with two under way, an empty queue would not tell which one the tracker
hears last. `TimedOK` is that what is queued has a time. They hold for any `MaxKey`, `MaxEvents`, `MaxSlots` and `MaxTicks`.

**`TrackerUdpProofs`.** The functions of the tracker call each other, so the proof
follows them instead of the actions: `Sound(s)` says what each needs and leaves
behind (a connection is made only when there is none, an address is looked up
only when there is none, a callback was called once exactly for what is done),
and `Moves(s, u)` that no request went anywhere but forward. One lemma per function, an
action is a composition of them. `SendAssertsHoldAlways` are the assertions of
`tau_tracker_send_reqs`; `TrackerKeepsPromise` is the refinement: whoever was
pending before and is done after was answered in between, once.

**`PeerRequestsProofs`.** Whatever happens to the request list either removes
requests or adds blocks that may be asked for. `RemovingKeepsTables` and
`RequestKeepsTables` say that the counters still agree, by the arithmetic of
finite sets (`TakenAway`, `JoinedDisjoint`); each action adds only who it is about.
`NoWaste` needs the other half of the invariant, that a stopped torrent has no
connected peers: a verification takes blocks away under the list.

**What the liveness properties rest on.** That something happens in the end
follows from fairness and from a step that helps whenever it is taken. The second
half is a fact about steps, and is proved for every value of the constants:

- `RemoveEnds`: `WaitIsShortHolds`. While `tr_verifyRemove` waits, `StepsToLower` (at
  most four) goes down with every step of the thread, and nobody else moves it.
- `StoppingEnds`: the pulse clears the flag in one step; `FlagAndSwarmMeetHolds`, by which
  the stop that ends the swarm is then in the pipe or under way.
- `WaitingIsServed`: `DueAreStartedHolds`. No torrent that a pulse finds due is left
  out by what the same pulse stops or starts before it.
- `RunningIsAnnounced`: `RunningHasWorkHolds`, from `WordsOK` and `TimedOK`. With
  `MarksAreTakenAway` and `SlotsComeBack` nothing else keeps the upkeep from it.
- `EveryRequestEnds`: `OverdueIsEndedHolds`. Only an upkeep that begins a lookup or a
  connection leaves an overdue request; the next one finds that begun.
- `EveryBlockArrives`: `PulseAsksHolds`, from `TablesAgree` (the peer has room) and
  `PieceListIsWholeHolds` (the piece is in the list). Both say "unless a complete piece
  was lost": then the list is not whole, which is the finding of `requests_stale`.

**Only model-checked:** everything that needs fairness (`RemoveEnds`,
`StoppingEnds`, `MagnetResumes`, `WaitingIsServed`, `RunningIsAnnounced`,
`EveryRequestEnds`, `EveryBlockArrives`), which is out of the prover's reach, but for
the steps above. Every
invariant, action property and refinement of a passing run has a theorem; where
that has a hypothesis the property lacks (those of `LifecycleProofs` about who
calls, those of the cache about writes, webseeds and ages), the instance of its run
satisfies it.

## 5. What is not modelled

The list with reasons is under `components` in `PROJECT.json`. In short: parsers and
printers are data without protocol; DHT, uTP, UPnP and NAT-PMP are decided by
libraries outside the repository; handshakes, choking, uploads, web tasks and the
session's close are still to come. Inside the modelled parts: rename and
relocation of torrents, seed limits (an arbitrary stop stands for them), the
prefetch call, and what section 2 names as left out.

Most lines of this repository are vendored (curl, OpenSSL, libevent and copies
of their headers). They are libraries with their own projects; the models
contain only what `libtransmission` sees of them (a transfer that ends or fails,
a lookup that calls back), so that the share of all lines that is modelled stays
small.

Known behaviour that no run shows, because nothing in the repository promises
otherwise or a property above excuses it:

- A magnet whose metadata arrives while a `verifyTorrent` of it is about to stop it is
  queued twice (`torrent.c:1815`, `:1877`, `:1821`). Its removal drops one node only
  (`verify.c:309`), so that the verify thread may find a freed torrent, against
  the assertion of `verify.c:223`; and a second scan may follow the first. Run `verify`
  and the theorems bound this behaviour and reach it. A message of a freed
  torrent may be in the pipe (`torrent.c:1779`).
- A start that runs between a client's `tr_torrentStop` and its `stopTorrent` sets the
  flag again (`torrent.c:1644`), and `stopTorrent` does not clear it: the torrent counts
  as running without peers, and a later start returns at once (`torrent.c:1697`). `overtaken` in `FlagAndSwarmMeet`.
- `torrent-stop` is ignored for a torrent that will start after its scan
  (`rpcimpl.c:336`); a client's start that races with the end of a scan is lost.
- Moving the first torrents of the line up turns them around (`torrent.c:3511`).
  A queued torrent whose files are lost keeps its turn and blocks the slot
  (`peer-mgr.c:3579`). Switching a queue off leaves its waiting torrents waiting
  (`peer-mgr.c:3588`).
- A failed write loses the blocks of the run while the completion still claims
  them (`cache.c:181`); `stopTorrent` ignores a failed flush (`torrent.c:1870`), and
  `onSaveTimer` saves every torrent after a flush that stopped at one of them
  (`session.c:543`), also those whose complete pieces are still in memory. A webseed may
  write over a piece that was tested; `BlockStore` allows it.
- A scrape gives back a slot it never took (`announcer.c:1391`), so that there may be
  more than `MAX_CONCURRENT_TASKS` announces. A "started" that fails is queued
  again behind a "stopped" (`announcer.c:1006`).
- The closing loop runs in the event thread, so no answer to a connect is read and
  a "stopped" to a UDP tracker without a connection is never sent. An HTTP
  "stopped" at the close is never sent either, since `tr_webRunImpl` (`web.c:269`)
  takes no tasks when the session is closing. The resolver's base is freed before the
  trackers that may still wait for it (`session.c:1838`).

## 6. Plan

Done, in this order: `Verify` (the waiting loop is what all removals rest on),
`TorrentLifecycle` on top of it, `Cache` with `BlockStore`, `TorrentQueue` with
`QueueOrder`, `Announcer`, `TrackerUdp` with `TrackerPromise`, `PeerRequests`.

To do, in this order:

1. `EventPipe`: a bounded pipe and the session lock, for the deadlock hazard.
2. `Completion` and `Resume`: lazy counters against the bitfield (assertions in
   `completion.c`), what `saveProgress` and `loadProgress` keep of the time
   stamps of pieces and files; to be composed with `Cache`, whose `saved` is the
   part of the resume file it needs. Theorem: the counters equal their definition.
3. `CacheArray`: the sorted array and the position fix-ups of `flushRuns`,
   refining `Cache`.
4. `WebTasks` and `SessionClose`: the task list between two threads, the order
   and the deadline of the close.
5. `Handshake`: both automata, with the fallback from an encrypted connection.
6. `WatchDir`: names seen once and never retried.
