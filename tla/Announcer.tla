----------------------------- MODULE Announcer -----------------------------
(***************************************************************************)
(* The announcer of libtransmission/announcer.c: the tiers of each         *)
(* torrent, their queues of announce events, the slots for requests to     *)
(* trackers, and the answers that come back after the torrent was stopped, *)
(* started, removed or given other trackers.                               *)
(*                                                                         *)
(* Everything happens in the event thread.  Requests are answered by the   *)
(* HTTP and the UDP tracker code, each once and in any order; the answer   *)
(* finds its tier again by info hash and key (announces) or by info hash   *)
(* and scrape URL (scrapes).  Times are only "never", "later" and "now".   *)
(***************************************************************************)
EXTENDS Integers, Sequences, FiniteSets

CONSTANTS Torrents,
          Urls,         \* announce URLs; a tracker's scrape URL goes with it
          Scrapable,    \* the trackers that have a scrape URL
          Layouts,      \* the tracker lists of torrents, as filter_trackers returns them
          MaxTasks,     \* MAX_CONCURRENT_TASKS
          ScrapePaused, \* session->scrapePausedTorrents
          MaxKey,       \* bound: the number of tiers that are ever made
          MaxEvents,    \* bound: the length of a queue of announce events
          MaxSlots,     \* bound: no more slots than this are counted
          MaxTicks      \* bound: upkeeps whose requests are in flight at a time

Events == {"started", "completed", "stopped", "none"}
Times == {"never", "later", "now"}

ASSUME AnnouncerAssumption ==
  /\ IsFiniteSet(Torrents)
  /\ MaxTasks \in Nat /\ MaxSlots \in Nat /\ MaxTasks <= MaxSlots
  /\ MaxKey \in Nat /\ MaxTicks \in Nat
  /\ Layouts \subseteq Seq(Seq(Urls))
  /\ \A L \in Layouts : \A j \in DOMAIN L : L[j] # <<>>
  /\ \A L \in Layouts : \A i, j \in DOMAIN L : \A x \in DOMAIN L[i], y \in DOMAIN L[j] :
       L[i][x] = L[j][y] => i = j /\ x = y
  /\ ScrapePaused \in BOOLEAN

Keys == 1 .. MaxKey
Ticks == 1 .. MaxTicks

Announce == [kind : {"announce"}, tor : Torrents, key : Keys, event : Events,
             ok : BOOLEAN,        \* announce_data.isRunningOnSuccess
             tick : Ticks]
Scrape == [kind : {"scrape"}, url : Urls, tors : SUBSET Torrents, tick : Ticks]

VARIABLES
  status,   \* "absent", "stopped" or "running", tor->isRunning
  tiers,    \* tor->tiers
  nextKey,  \* tierConstruct's counter
  slots,    \* announcer->slotsAvailable
  stops,    \* announcer->stops, as torrents and the URLs they are for
  net,      \* the announces and scrapes that have not been answered
  excused   \* history: the keys of tiers that saw an error, or that completed while stopped

vars == <<status, tiers, nextKey, slots, stops, net, excused>>

-----------------------------------------------------------------------------
(* Tiers.                                                                  *)

Current(r) == r.urls[r.cur]

\* The queue without the events e at its end.
NoTrailing(q, e) ==
  LET n == CHOOSE n \in 0 .. Len(q) :
             /\ \A i \in n + 1 .. Len(q) : q[i] = e
             /\ n > 0 => q[n] # e
  IN SubSeq(q, 1, n)

\* "stopped" dumps everything but "completed"
Dump(q, e) ==
  IF e # "stopped" THEN q
  ELSE IF \E i \in DOMAIN q : q[i] = "completed" THEN <<"completed">> ELSE <<>>

\* tier_announce_event_push
Push(r, e, when) ==
  [r EXCEPT !.events = Append(NoTrailing(NoTrailing(Dump(@, e), "none"), e), e),
            !.due = when]

\* Mutant: what is under way at the old tracker is not forgotten.
NextTracker(r) == [r EXCEPT !.cur = (@ % Len(r.urls)) + 1, !.announcing = FALSE]

\* Mutant: the index runs past the last tracker.
TrackerAfter(r) == [r EXCEPT !.cur = @ + 1, !.announcing = FALSE, !.scraping = FALSE]

\* tierIncrementTracker
IncrementTracker(r) ==
  [r EXCEPT !.cur = (@ % Len(r.urls)) + 1, !.announcing = FALSE, !.scraping = FALSE]

\* get_next_scrape_time, of an interval that ends at when
ScrapeTime(r, when) == IF ~r.running /\ ~ScrapePaused THEN "never" ELSE when

\* getRetryInterval is 0 only for a tracker that has not just failed.
RetryTimes(r) == IF Len(r.urls) > 1 THEN {"now", "later"} ELSE {"later"}

\* tierConstruct, and addTorrentToTier's tierIncrementTracker
NewTier(urls, key, when) ==
  [key |-> key, urls |-> urls, cur |-> 1, events |-> <<>>, due |-> "never",
   scrape |-> IF ScrapePaused THEN when ELSE "never",
   running |-> FALSE, announcing |-> FALSE, scraping |-> FALSE]

\* addTorrentToTier
NewTiers(L, when) == [j \in DOMAIN L |-> NewTier(L[j], nextKey + j - 1, when)]

CanMake(L) == nextKey + Len(L) - 1 <= MaxKey

\* Every tier of t gets the event e; queues are bounded.
AddAnnounce(t, e) ==
  /\ \A i \in DOMAIN tiers[t] : Len(tiers[t][i].events) < MaxEvents
  /\ tiers' = [tiers EXCEPT ![t] = [i \in DOMAIN @ |-> Push(@[i], e, "now")]]

-----------------------------------------------------------------------------
(* What the session does with a torrent.                                   *)

Init ==
  /\ status = [t \in Torrents |-> "absent"]
  /\ tiers = [t \in Torrents |-> <<>>]
  /\ nextKey = 1
  /\ slots = MaxTasks
  /\ stops = {}
  /\ net = {}
  /\ excused = {}

\* tr_announcerAddTorrent
AddTorrent(t, L, when) ==
  /\ status[t] = "absent"
  /\ CanMake(L)
  /\ status' = [status EXCEPT ![t] = "stopped"]
  /\ tiers' = [tiers EXCEPT ![t] = NewTiers(L, when)]
  /\ nextKey' = nextKey + Len(L)
  /\ UNCHANGED <<slots, stops, net, excused>>

\* torrentStartImpl
StartTorrent(t) ==
  /\ status[t] = "stopped"
  /\ status' = [status EXCEPT ![t] = "running"]
  /\ AddAnnounce(t, "started")
  /\ UNCHANGED <<nextKey, slots, stops, net, excused>>

\* tr_torrentStop, called in the event thread: stopTorrent follows at once.
StopTorrent(t) ==
  /\ status[t] # "absent"
  /\ status' = [status EXCEPT ![t] = "stopped"]
  /\ AddAnnounce(t, "stopped")
  /\ UNCHANGED <<nextKey, slots, stops, net, excused>>

\* closeTorrent: its "stopped" events go with the tiers that freeTorrent
\* removes; tr_announcerRemoveTorrent keeps one for the tiers that run.
RemoveTorrent(t) ==
  /\ status[t] # "absent"
  /\ status' = [status EXCEPT ![t] = "absent"]
  /\ stops' = stops \cup {<<t, Current(tiers[t][i])>> :
                            i \in {j \in DOMAIN tiers[t] : tiers[t][j].running}}
  /\ tiers' = [tiers EXCEPT ![t] = <<>>]
  /\ UNCHANGED <<nextKey, slots, net, excused>>

\* tr_torrentRecheckCompleteness finds a torrent that is a seed now; it may
\* have been stopped meanwhile.  Whether it has downloaded anything in this
\* session (downloadedCur) is left open: without that nothing is announced.
CompleteTorrent(t) ==
  /\ status[t] # "absent"
  /\ AddAnnounce(t, "completed")
  /\ excused' = IF status[t] = "running" THEN excused
                ELSE excused \cup {tiers[t][i].key : i \in DOMAIN tiers[t]}
  /\ UNCHANGED <<status, nextKey, slots, stops, net>>

\* tr_torrentManualUpdateImpl
ManualAnnounce(t) ==
  /\ status[t] = "running"
  /\ AddAnnounce(t, "none")
  /\ UNCHANGED <<status, nextKey, slots, stops, net, excused>>

\* tr_torrentChangeMyPort of every torrent
ChangeMyPort ==
  /\ \E t \in Torrents : status[t] = "running"
  /\ \A t \in Torrents : status[t] = "running" =>
       \A i \in DOMAIN tiers[t] : Len(tiers[t][i].events) < MaxEvents
  /\ tiers' = [t \in Torrents |->
                IF status[t] # "running" THEN tiers[t]
                ELSE [i \in DOMAIN tiers[t] |-> Push(tiers[t][i], "started", "now")]]
  /\ UNCHANGED <<status, nextKey, slots, stops, net, excused>>

\* copy_tier_attributes finds the new tier with the old one's tracker.
Matches(old, urls) == \E x \in DOMAIN urls : urls[x] = Current(old)

\* copy_tier_attributes_impl
Copy(old, urls) ==
  [old EXCEPT !.urls = urls, !.cur = CHOOSE x \in DOMAIN urls : urls[x] = Current(old)]

\* tr_announcerResetTorrent: src tells the old tier that a new one was copied
\* from last, or 0; a tier that is new is started.
ResetTorrent(t, L, when) ==
  /\ status[t] # "absent"
  /\ CanMake(L)
  /\ \E src \in [DOMAIN L -> 0 .. Len(tiers[t])] :
       /\ \A j \in DOMAIN L : src[j] # 0 => Matches(tiers[t][src[j]], L[j])
       /\ \A j \in DOMAIN L, i \in DOMAIN tiers[t] : Matches(tiers[t][i], L[j]) => i <= src[j]
       /\ tiers' = [tiers EXCEPT ![t] =
                     [j \in DOMAIN L |->
                       IF src[j] # 0 THEN Copy(@[src[j]], L[j])
                       ELSE IF status[t] = "running"
                            THEN Push(NewTiers(L, when)[j], "started", "now")
                            ELSE NewTiers(L, when)[j]]]
  /\ nextKey' = nextKey + Len(L)
  /\ UNCHANGED <<status, slots, stops, net, excused>>

-----------------------------------------------------------------------------
(* The upkeep timer.                                                       *)

NeedsToAnnounce(r) ==
  /\ ~r.announcing /\ ~r.scraping
  /\ r.due = "now"
  /\ r.events # <<>>

NeedsToScrape(r) == ~r.scraping /\ r.scrape = "now" /\ Current(r) \in Scrapable

Tiers == UNION {{t} \X DOMAIN tiers[t] : t \in Torrents}
Tier(p) == tiers[p[1]][p[2]]

ToAnnounce == {p \in Tiers : NeedsToAnnounce(Tier(p))}
ToScrape == {p \in Tiers \ ToAnnounce : NeedsToScrape(Tier(p))}

\* As many of S as n allows.  Which come first depends on the bytes that were
\* transferred (compareTiers), and on the order of the torrents.
UpTo(n, S) ==
  {A \in SUBSET S : Cardinality(A) = IF Cardinality(S) < n THEN Cardinality(S) ELSE n}

AnnounceOf(p, s) ==
  [kind |-> "announce", tor |-> p[1], key |-> Tier(p).key, event |-> Head(Tier(p).events),
   ok |-> (status[p[1]] = "running"), tick |-> s]

\* the torrents whose hashes are batched into one request for the scrape URL u
ScrapeOf(u, s) ==
  [kind |-> "scrape", url |-> u,
   tors |-> {p[1] : p \in {q \in ToScrape : Current(Tier(q)) = u}}, tick |-> s]

\* announceMore: announce the tiers A, then scrape what is due at the URLs U.
\* The slots are spent by tierAnnounce; multiscrape takes none.
AnnounceMore(A, U, s) ==
  /\ tiers' = [t \in Torrents |-> [i \in DOMAIN tiers[t] |->
                LET r == tiers[t][i]
                IN IF <<t, i>> \in A
                   THEN [r EXCEPT !.events = Tail(@), !.announcing = TRUE]
                   ELSE IF <<t, i>> \in ToScrape /\ Current(r) \in U
                        THEN [r EXCEPT !.scraping = TRUE]
                        ELSE r]]
  /\ net' = net \cup {AnnounceOf(p, s) : p \in A} \cup {ScrapeOf(u, s) : u \in U}
  /\ slots' = slots - Cardinality(A)

IsFree(s) == \A m \in net : m.tick # s

\* onUpkeepTimer: flushCloseMessages sends the stops, which nobody waits for.
Upkeep ==
  /\ stops' = {}
  /\ \/ /\ slots < 1 \/ ToAnnounce \cup ToScrape = {}
        /\ UNCHANGED <<tiers, slots, net>>
     \/ /\ slots >= 1 /\ ToAnnounce \cup ToScrape # {}
        /\ \E A \in UpTo(slots, ToAnnounce) :
           \E U \in UpTo(slots - Cardinality(A), {Current(Tier(p)) : p \in ToScrape}) :
           \E s \in Ticks :
             /\ IsFree(s) /\ \A r \in Ticks : IsFree(r) => s <= r
             /\ AnnounceMore(A, U, s)
  /\ UNCHANGED <<status, nextKey, excused>>

-----------------------------------------------------------------------------
(* Answers.                                                                *)

\* A slot is given back.  As multiscrape takes none, there may be more of them
\* after each scrape; beyond MaxSlots they make no difference to a few tiers.
OneMore == IF slots < MaxSlots THEN slots + 1 ELSE slots

\* Mutant: a periodic update is queued after a "stopped" too.
AnnouncedAnyway(r, m) ==
  LET done == [r EXCEPT !.announcing = FALSE, !.running = m.ok]
      next == IF r.events = <<>> THEN Push(done, "none", "later") ELSE done
  IN {[next EXCEPT !.scrape = when] :
        when \in {r.scrape, ScrapeTime(done, "now"), ScrapeTime(done, "later")}}

\* Mutant: the periodic update has no time.
AnnouncedNever(r, m) ==
  LET done == [r EXCEPT !.announcing = FALSE, !.running = m.ok]
      next == IF m.event # "stopped" /\ r.events = <<>> THEN Push(done, "none", "never") ELSE done
  IN {[next EXCEPT !.scrape = when] :
        when \in {r.scrape, ScrapeTime(done, "now"), ScrapeTime(done, "later")}}

\* on_announce_done, when the tracker accepted the announce: the next scrape
\* may be put off or become due, and a periodic update is queued.
Announced(r, m) ==
  LET done == [r EXCEPT !.announcing = FALSE, !.running = m.ok]
      next == IF m.event # "stopped" /\ r.events = <<>> THEN Push(done, "none", "later") ELSE done
  IN {[next EXCEPT !.scrape = when] :
        when \in {r.scrape, ScrapeTime(done, "now"), ScrapeTime(done, "later")}}

\* on_announce_error: the event goes to the end of the queue, for the next tracker.
AnnounceFailed(r, m) ==
  {Push(IncrementTracker(r), m.event, when) : when \in RetryTimes(r)}

\* Mutant: without its tier, the answer is dropped, and so is the slot.
DoneWithTier(m, err) ==
  /\ net' = net \ {m}
  /\ \/ \E i \in DOMAIN tiers[m.tor] :
          /\ tiers[m.tor][i].key = m.key
          /\ err => Len(tiers[m.tor][i].events) < MaxEvents
          /\ \E r \in IF err THEN AnnounceFailed(tiers[m.tor][i], m)
                      ELSE Announced(tiers[m.tor][i], m) :
               tiers' = [tiers EXCEPT ![m.tor][i] = r]
          /\ excused' = IF err THEN excused \cup {m.key} ELSE excused
          /\ slots' = OneMore
     \/ /\ \A i \in DOMAIN tiers[m.tor] : tiers[m.tor][i].key # m.key
        /\ UNCHANGED <<tiers, slots, excused>>

\* on_announce_done: the slot is free again, whether or not getTier finds the tier.
Done(m, err) ==
  /\ net' = net \ {m}
  /\ slots' = OneMore
  /\ \/ \E i \in DOMAIN tiers[m.tor] :
          /\ tiers[m.tor][i].key = m.key
          /\ err => Len(tiers[m.tor][i].events) < MaxEvents
          /\ \E r \in IF err THEN AnnounceFailed(tiers[m.tor][i], m)
                      ELSE Announced(tiers[m.tor][i], m) :
               tiers' = [tiers EXCEPT ![m.tor][i] = r]
          /\ excused' = IF err THEN excused \cup {m.key} ELSE excused
     \/ /\ \A i \in DOMAIN tiers[m.tor] : tiers[m.tor][i].key # m.key
        /\ UNCHANGED <<tiers, excused>>

AnnounceDone(m, err) ==
  /\ m.kind = "announce"
  /\ Done(m, err)
  /\ UNCHANGED <<status, nextKey, stops>>

\* find_tier: the tier of t that scrapes at u now
IsScraped(m, t, i) == t \in m.tors /\ Current(tiers[t][i]) = m.url

\* on_scrape_done, for one row, and on_scrape_error
Scraped(r, err, when) ==
  LET done == IF err THEN IncrementTracker(r) ELSE [r EXCEPT !.scraping = FALSE]
  IN [done EXCEPT !.scrape = ScrapeTime(done, when)]

\* on_scrape_done: every torrent of the request gets the same answer.
ScrapeDone(m, err) ==
  /\ m.kind = "scrape"
  /\ net' = net \ {m}
  /\ \E when \in [m.tors -> {"now", "later"}] :
       /\ \A t \in m.tors : \A i \in DOMAIN tiers[t] :
            when[t] = "now" => err /\ Len(tiers[t][i].urls) > 1
       /\ tiers' = [t \in Torrents |-> [i \in DOMAIN tiers[t] |->
                     IF IsScraped(m, t, i) THEN Scraped(tiers[t][i], err, when[t])
                     ELSE tiers[t][i]]]
  /\ slots' = OneMore
  /\ excused' = IF ~err THEN excused
                ELSE excused \cup {tiers[p[1]][p[2]].key : p \in {q \in Tiers : IsScraped(m, q[1], q[2])}}
  /\ UNCHANGED <<status, nextKey, stops>>

\* Time passes.
AnnounceTime(t, i) ==
  /\ i \in DOMAIN tiers[t]
  /\ tiers[t][i].due = "later"
  /\ tiers' = [tiers EXCEPT ![t][i].due = "now"]
  /\ UNCHANGED <<status, nextKey, slots, stops, net, excused>>

ScrapeDue(t, i) ==
  /\ i \in DOMAIN tiers[t]
  /\ tiers[t][i].scrape = "later"
  /\ tiers' = [tiers EXCEPT ![t][i].scrape = "now"]
  /\ UNCHANGED <<status, nextKey, slots, stops, net, excused>>

User(t) ==
  \/ StartTorrent(t) \/ StopTorrent(t) \/ RemoveTorrent(t)
  \/ CompleteTorrent(t) \/ ManualAnnounce(t)
  \/ \E L \in Layouts, when \in {"now", "later"} :
       AddTorrent(t, L, when) \/ ResetTorrent(t, L, when)

Answer(m) == \E err \in BOOLEAN : AnnounceDone(m, err) \/ ScrapeDone(m, err)

Next ==
  \/ \E t \in Torrents : User(t)
  \/ ChangeMyPort
  \/ Upkeep
  \/ \E m \in net : Answer(m)
  \/ \E t \in Torrents : \E i \in DOMAIN tiers[t] : AnnounceTime(t, i) \/ ScrapeDue(t, i)

Spec == Init /\ [][Next]_vars

\* The timer runs, time passes, and every request is answered: curl and the
\* UDP tracker code have timeouts.  A tick is not used again before all of its
\* requests are answered.
Fairness ==
  /\ WF_vars(Upkeep)
  /\ \A s \in Ticks : WF_vars(\E m \in net : m.tick = s /\ Answer(m))
  /\ \A t \in Torrents, i \in 1 .. MaxKey : WF_vars(AnnounceTime(t, i))

FairSpec == Spec /\ Fairness

-----------------------------------------------------------------------------
(* Properties.                                                             *)

TierType ==
  [key : Keys, urls : Seq(Urls), cur : Nat, events : Seq(Events), due : Times, scrape : Times,
   running : BOOLEAN, announcing : BOOLEAN, scraping : BOOLEAN]

TypeOK ==
  /\ status \in [Torrents -> {"absent", "stopped", "running"}]
  /\ tiers \in [Torrents -> Seq(TierType)]
  /\ \A t \in Torrents : \A i \in DOMAIN tiers[t] :
       tiers[t][i].key < nextKey /\ tiers[t][i].cur \in DOMAIN tiers[t][i].urls
  /\ nextKey \in 1 .. MaxKey + 1
  /\ slots \in Int
  /\ stops \subseteq Torrents \X Urls
  /\ net \subseteq Announce \cup Scrape
  /\ excused \subseteq Keys

Announces == {m \in net : m.kind = "announce"}

\* A tier that is marked as announcing or scraping waits for an answer that
\* will find it: whatever happened to the torrent and its trackers meanwhile,
\* the marks that keep a tier from being served are taken away again.
BusyIsInFlight ==
  \A t \in Torrents : \A i \in DOMAIN tiers[t] :
    LET r == tiers[t][i]
    IN /\ r.announcing => \E m \in Announces : m.tor = t /\ m.key = r.key
       /\ r.scraping => \E m \in net \ Announces : t \in m.tors /\ m.url = Current(r)

\* Every slot that is not available is held by an announce under way, even
\* when the torrent is gone before the answer (announcer.c:1020).
NoSlotIsLost == slots + Cardinality(Announces) >= MaxTasks

\* What a tier has still to say, its announce in flight first.
Words(t, r) ==
  LET sent == {m \in Announces : m.tor = t /\ m.key = r.key}
  IN {m.event : m \in sent} \cup {r.events[i] : i \in DOMAIN r.events}

LastWord(t, r) ==
  IF r.events # <<>> THEN r.events[Len(r.events)]
  ELSE IF Words(t, r) = {} THEN "" ELSE CHOOSE e \in Words(t, r) : TRUE

\* While none of its requests fails, the last thing that a tier will say
\* is right: a torrent that was stopped ends with "stopped", and one that runs
\* always has something else in flight or in its queue.
LastWordIsRight ==
  \A t \in Torrents : \A i \in DOMAIN tiers[t] :
    tiers[t][i].key \notin excused =>
      IF status[t] = "running" THEN LastWord(t, tiers[t][i]) \in Events \ {"stopped"}
      ELSE LastWord(t, tiers[t][i]) \in {"stopped", ""}

\* transmission.h:1585: "we won't (announce,scrape) this torrent to this
\* tracker because the torrent is stopped": no torrent that is not running
\* is announced as one that runs.
StoppedIsSilent ==
  \A m \in Announces : ~m.ok => m.event \in {"stopped", "completed"}

Serves(k) == \E t \in Torrents : \E i \in DOMAIN tiers[t] :
  tiers[t][i].key = k /\ status[t] = "running"

\* As long as nothing fails, every tier of a torrent that keeps running gets
\* to announce, again and again.
RunningIsAnnounced ==
  \A k \in Keys :
    (Serves(k) /\ excused = {}) ~>
      (~Serves(k) \/ excused # {} \/ \E m \in Announces : m.key = k)
=============================================================================
