-------------------------- MODULE AnnouncerProofs --------------------------
(***************************************************************************)
(* The safety properties of module Announcer, for any torrents, trackers   *)
(* and tracker lists.                                                      *)
(*                                                                         *)
(* A first invariant has the types, and that no two tiers of a torrent     *)
(* have one key: this is why an answer finds at most one tier.  The slots, *)
(* the marks and the last words are proved on top of it, each by the       *)
(* actions that touch them.                                                *)
(***************************************************************************)
EXTENDS Announcer, FiniteSetTheorems, SequenceTheorems, WellFoundedInduction, TLAPS

-----------------------------------------------------------------------------
(* The functions on tiers.                                                 *)

LEMMA LeastNumber ==
  ASSUME NEW C \in SUBSET Nat, C # {}
  PROVE  \E n \in C : \A k \in C : n <= k
<1> DEFINE R == OpToRel(<, Nat)
<1>1. IsWellFoundedOn(R, Nat)
  BY NatLessThanWellFounded
<1> HIDE DEF R
<1>2. PICK n \in C : \A k \in C : ~(<<k, n>> \in R)
  BY <1>1, WFMin
<1>3. \A k \in C : ~(k < n)
  BY <1>2 DEF R, OpToRel
<1> QED
  BY <1>3

LEMMA FunctionIsSeq ==
  ASSUME NEW S, NEW n \in Nat, NEW f \in [1 .. n -> S]
  PROVE  f \in Seq(S) /\ Len(f) = n
OBVIOUS

LEMMA NoTrailingType ==
  ASSUME NEW q \in Seq(Events), NEW e
  PROVE  NoTrailing(q, e) \in Seq(Events)
<1> DEFINE C == {n \in 0 .. Len(q) : \A i \in n + 1 .. Len(q) : q[i] = e}
           Good(n) == (\A i \in n + 1 .. Len(q) : q[i] = e) /\ (n > 0 => q[n] # e)
<1>1. Len(q) \in Nat /\ C \in SUBSET Nat /\ Len(q) \in C
  BY LenProperties
<1>2. PICK n \in C : \A k \in C : n <= k
  BY <1>1, LeastNumber
<1>3. n > 0 => q[n] # e
  <2> SUFFICES ASSUME n > 0, q[n] = e PROVE FALSE
    OBVIOUS
  <2>1. n - 1 \in 0 .. Len(q)
    BY <1>1
  <2>2. \A i \in (n - 1) + 1 .. Len(q) : q[i] = e
    <3> SUFFICES ASSUME NEW i \in (n - 1) + 1 .. Len(q) PROVE q[i] = e
      OBVIOUS
    <3>1. i = n \/ i \in n + 1 .. Len(q)
      BY <1>1
    <3> QED
      BY <3>1
  <2>3. n - 1 \in C
    BY <2>1, <2>2
  <2>4. n \in Nat /\ n <= n - 1
    BY <1>2, <2>3
  <2> QED
    BY <2>4
<1>4. n \in 0 .. Len(q) /\ Good(n)
  BY <1>3
<1> HIDE DEF Good
<1> DEFINE c == CHOOSE c \in 0 .. Len(q) : Good(c)
<1>5. c \in 0 .. Len(q)
  BY <1>4
<1>6. NoTrailing(q, e) = SubSeq(q, 1, c)
  BY DEF NoTrailing, Good
<1> HIDE DEF c
<1>7. \A i \in 1 .. c : q[i] \in Events
  BY <1>1, <1>5, ElementOfSeq
<1>8. SubSeq(q, 1, c) \in Seq(Events)
  BY <1>1, <1>5, <1>7, SubSeqProperties, 1 \in Int, c \in Int
<1> QED
  BY <1>6, <1>8

LEMMA DumpType ==
  ASSUME NEW q \in Seq(Events), NEW e
  PROVE  Dump(q, e) \in Seq(Events)
<1>1. <<"completed">> \in Seq({"completed"}) /\ <<>> \in Seq(Events)
  OBVIOUS
<1>2. <<"completed">> \in Seq(Events)
  BY <1>1, SeqMonotonic DEF Events
<1> QED
  BY <1>1, <1>2 DEF Dump

\* An event that was pushed is the last one, and nothing else changes.
LEMMA PushType ==
  ASSUME NEW r \in TierType, NEW e \in Events, NEW when \in Times
  PROVE  /\ Push(r, e, when) \in TierType
         /\ Push(r, e, when).events # <<>>
         /\ Push(r, e, when).events[Len(Push(r, e, when).events)] = e
         /\ Push(r, e, when).due = when
         /\ Push(r, e, when).key = r.key /\ Push(r, e, when).urls = r.urls
         /\ Push(r, e, when).cur = r.cur /\ Push(r, e, when).scrape = r.scrape
         /\ Push(r, e, when).announcing = r.announcing
         /\ Push(r, e, when).scraping = r.scraping /\ Push(r, e, when).running = r.running
<1> DEFINE q == NoTrailing(NoTrailing(Dump(r.events, e), "none"), e)
<1>1. r.events \in Seq(Events)
  BY DEF TierType
<1>2. q \in Seq(Events)
  BY <1>1, DumpType, NoTrailingType
<1>3. Push(r, e, when) = [r EXCEPT !.events = Append(q, e), !.due = when]
  BY DEF Push
<1> HIDE DEF q
<1>4. /\ Append(q, e) \in Seq(Events) /\ Append(q, e) # <<>>
      /\ Append(q, e)[Len(Append(q, e))] = e
  BY <1>2
<1> QED
  BY <1>3, <1>4 DEF TierType

\* Another tracker's turn: nothing is under way there.
LEMMA IncrementTrackerType ==
  ASSUME NEW r \in TierType, r.cur \in DOMAIN r.urls
  PROVE  /\ IncrementTracker(r) \in TierType
         /\ IncrementTracker(r).cur \in DOMAIN r.urls
         /\ IncrementTracker(r).key = r.key /\ IncrementTracker(r).urls = r.urls
         /\ IncrementTracker(r).events = r.events /\ IncrementTracker(r).due = r.due
         /\ ~IncrementTracker(r).announcing /\ ~IncrementTracker(r).scraping
<1>1. r.urls \in Seq(Urls) /\ r.cur \in 1 .. Len(r.urls) /\ Len(r.urls) \in Nat
  BY LenProperties DEF TierType
<1>2. (r.cur % Len(r.urls)) + 1 \in 1 .. Len(r.urls)
  BY <1>1
<1>3. IncrementTracker(r).cur = (r.cur % Len(r.urls)) + 1 /\ IncrementTracker(r).urls = r.urls
  BY DEF IncrementTracker, TierType
<1>4. DOMAIN r.urls = 1 .. Len(r.urls)
  BY <1>1, LenProperties
<1>5. IncrementTracker(r).cur \in DOMAIN r.urls /\ IncrementTracker(r).cur \in Nat
  BY <1>2, <1>3, <1>4
<1>6. IncrementTracker(r) \in TierType
  BY <1>3, <1>5 DEF IncrementTracker, TierType
<1> QED
  BY <1>3, <1>5, <1>6 DEF IncrementTracker, TierType

LEMMA CurrentType ==
  ASSUME NEW r \in TierType, r.cur \in DOMAIN r.urls
  PROVE  Current(r) \in Urls
BY LenProperties, ElementOfSeq DEF Current, TierType

LEMMA ScrapeTimeType ==
  ASSUME NEW r \in TierType, NEW when \in Times
  PROVE  ScrapeTime(r, when) \in Times
BY DEF ScrapeTime, Times

\* The answers to an announce.
LEMMA AnnouncedType ==
  ASSUME NEW r \in TierType, NEW m \in Announce, NEW s \in Announced(r, m)
  PROVE  /\ s \in TierType
         /\ s.key = r.key /\ s.urls = r.urls /\ s.cur = r.cur
         /\ ~s.announcing /\ s.scraping = r.scraping
         /\ m.event = "stopped" \/ r.events # <<>> => s.events = r.events /\ s.due = r.due
         /\ m.event # "stopped" /\ r.events = <<>> =>
              s.events # <<>> /\ s.events[Len(s.events)] = "none" /\ s.due = "later"
<1> DEFINE done == [r EXCEPT !.announcing = FALSE, !.running = m.ok]
           next == IF m.event # "stopped" /\ r.events = <<>> THEN Push(done, "none", "later")
                   ELSE done
<1>1. /\ done \in TierType /\ done.key = r.key /\ done.urls = r.urls /\ done.cur = r.cur
      /\ ~done.announcing /\ done.scraping = r.scraping /\ done.events = r.events
      /\ done.due = r.due
  BY DEF TierType, Announce
<1>2. PICK when \in {r.scrape, ScrapeTime(done, "now"), ScrapeTime(done, "later")} :
        s = [next EXCEPT !.scrape = when]
  BY DEF Announced
<1> HIDE DEF done
<1>3. r.scrape \in Times /\ "now" \in Times /\ "later" \in Times /\ "none" \in Events
  BY DEF TierType, Times, Events
<1>4. when \in Times
  BY <1>1, <1>2, <1>3, ScrapeTimeType
<1>5. /\ next \in TierType /\ next.key = r.key /\ next.urls = r.urls /\ next.cur = r.cur
      /\ ~next.announcing /\ next.scraping = r.scraping
      /\ m.event = "stopped" \/ r.events # <<>> => next.events = r.events /\ next.due = r.due
      /\ m.event # "stopped" /\ r.events = <<>> =>
           next.events # <<>> /\ next.events[Len(next.events)] = "none" /\ next.due = "later"
  BY <1>1, <1>3, PushType
<1> HIDE DEF next
<1> QED
  BY <1>2, <1>4, <1>5 DEF TierType

LEMMA AnnounceFailedType ==
  ASSUME NEW r \in TierType, r.cur \in DOMAIN r.urls, NEW m \in Announce,
         NEW s \in AnnounceFailed(r, m)
  PROVE  /\ s \in TierType
         /\ s.key = r.key /\ s.urls = r.urls /\ s.cur \in DOMAIN r.urls
         /\ ~s.announcing /\ ~s.scraping /\ s.due # "never"
<1>1. /\ m.event \in Events
      /\ \A when \in RetryTimes(r) : when \in Times /\ when # "never"
  BY DEF Announce, RetryTimes, Times
<1> QED
  BY <1>1, IncrementTrackerType, PushType DEF AnnounceFailed

\* A new list of trackers gets new keys.
LEMMA NewTiersType ==
  ASSUME AnnouncerAssumption, NEW L \in Layouts, NEW when \in Times,
         nextKey \in 1 .. MaxKey + 1, CanMake(L)
  PROVE  /\ NewTiers(L, when) \in Seq(TierType)
         /\ DOMAIN NewTiers(L, when) = DOMAIN L /\ Len(NewTiers(L, when)) = Len(L)
         /\ Len(L) \in Nat /\ DOMAIN L = 1 .. Len(L)
         /\ \A j \in DOMAIN L : LET r == NewTiers(L, when)[j]
                                IN /\ r \in TierType /\ r.key = nextKey + j - 1
                                   /\ r.urls = L[j] /\ r.cur = 1 /\ 1 \in DOMAIN L[j]
                                   /\ r.events = <<>> /\ ~r.announcing /\ ~r.scraping
         /\ nextKey + Len(L) \in 1 .. MaxKey + 1
<1>1. L \in Seq(Seq(Urls)) /\ Len(L) \in Nat /\ DOMAIN L = 1 .. Len(L) /\ MaxKey \in Nat
  BY LenProperties DEF AnnouncerAssumption
<1>2. \A j \in DOMAIN L : L[j] \in Seq(Urls) /\ L[j] # <<>>
  BY <1>1, ElementOfSeq DEF AnnouncerAssumption
<1>3. \A j \in DOMAIN L : 1 \in DOMAIN L[j]
  BY <1>2, EmptySeq, LenProperties
<1>4. \A j \in DOMAIN L : nextKey + j - 1 \in Keys
  BY <1>1 DEF CanMake, Keys
<1>5. \A j \in DOMAIN L : NewTiers(L, when)[j] = NewTier(L[j], nextKey + j - 1, when)
  BY DEF NewTiers
<1>6. \A j \in DOMAIN L : NewTier(L[j], nextKey + j - 1, when) \in TierType
  BY <1>2, <1>4 DEF NewTier, TierType, Times
<1>7. NewTiers(L, when) \in [1 .. Len(L) -> TierType]
  BY <1>1, <1>5, <1>6 DEF NewTiers
<1>8. NewTiers(L, when) \in Seq(TierType) /\ Len(NewTiers(L, when)) = Len(L)
  BY <1>1, <1>7, FunctionIsSeq
<1>9. nextKey + Len(L) \in 1 .. MaxKey + 1
  BY <1>1 DEF CanMake
<1>10. ASSUME NEW j \in DOMAIN L
       PROVE  /\ NewTiers(L, when)[j] \in TierType
              /\ NewTiers(L, when)[j].key = nextKey + j - 1
              /\ NewTiers(L, when)[j].urls = L[j] /\ NewTiers(L, when)[j].cur = 1
              /\ 1 \in DOMAIN L[j] /\ NewTiers(L, when)[j].events = <<>>
              /\ ~NewTiers(L, when)[j].announcing /\ ~NewTiers(L, when)[j].scraping
  <2>1. NewTiers(L, when)[j] = NewTier(L[j], nextKey + j - 1, when)
    BY <1>5
  <2>2. NewTier(L[j], nextKey + j - 1, when) \in TierType /\ 1 \in DOMAIN L[j]
    BY <1>3, <1>6
  <2> QED
    BY <2>1, <2>2 DEF NewTier
<1> QED
  BY <1>1, <1>7, <1>8, <1>9, <1>10

-----------------------------------------------------------------------------
(* Types and keys.                                                         *)

\* A list of tiers whose keys were made before n, each for one tier.
ListOK(q, n) ==
  /\ q \in Seq(TierType)
  /\ \A i \in DOMAIN q : q[i].key < n /\ q[i].cur \in DOMAIN q[i].urls
  /\ \A i, j \in DOMAIN q : q[i].key = q[j].key => i = j

\* The first invariant.
KeysOK ==
  /\ TypeOK
  /\ \A t \in Torrents : ListOK(tiers[t], nextKey)
  /\ \A m \in Announces : m.key < nextKey

LEMMA TierFacts ==
  ASSUME KeysOK, NEW t \in Torrents, NEW i \in DOMAIN tiers[t]
  PROVE  /\ tiers[t][i] \in TierType /\ tiers[t][i].cur \in DOMAIN tiers[t][i].urls
         /\ tiers[t][i].key \in Keys /\ tiers[t][i].key < nextKey
         /\ Current(tiers[t][i]) \in Urls
         /\ DOMAIN tiers[t] = 1 .. Len(tiers[t]) /\ Len(tiers[t]) \in Nat
<1>1. tiers[t] \in Seq(TierType) /\ tiers[t][i].key < nextKey
      /\ tiers[t][i].cur \in DOMAIN tiers[t][i].urls
  BY DEF KeysOK, ListOK
<1>2. DOMAIN tiers[t] = 1 .. Len(tiers[t]) /\ Len(tiers[t]) \in Nat /\ tiers[t][i] \in TierType
  BY <1>1, LenProperties, ElementOfSeq
<1>3. tiers[t][i].key \in Keys
  BY <1>2 DEF TierType
<1> QED
  BY <1>1, <1>2, <1>3, CurrentType

\* The tiers of a list change, but none comes or goes.
LEMMA SameKeys ==
  ASSUME NEW q, NEW n, ListOK(q, n), NEW p \in [DOMAIN q -> TierType],
         \A i \in DOMAIN q : p[i].key = q[i].key /\ p[i].cur \in DOMAIN p[i].urls
  PROVE  ListOK(p, n) /\ DOMAIN p = DOMAIN q
<1>1. DOMAIN q = 1 .. Len(q) /\ Len(q) \in Nat
  BY LenProperties DEF ListOK
<1>2. p \in Seq(TierType)
  BY <1>1, FunctionIsSeq
<1> QED
  BY <1>2 DEF ListOK

\* The same for all lists.
LEMMA SameKeysStep ==
  ASSUME KeysOK, nextKey' = nextKey,
         tiers' = [t \in Torrents |-> tiers'[t]],
         \A t \in Torrents : tiers'[t] \in [DOMAIN tiers[t] -> TierType],
         \A t \in Torrents : \A i \in DOMAIN tiers[t] :
           tiers'[t][i].key = tiers[t][i].key /\ tiers'[t][i].cur \in DOMAIN tiers'[t][i].urls
  PROVE  /\ tiers' \in [Torrents -> Seq(TierType)]
         /\ \A t \in Torrents : ListOK(tiers[t], nextKey)' /\ DOMAIN tiers'[t] = DOMAIN tiers[t]
<1>1. ASSUME NEW t \in Torrents
      PROVE  ListOK(tiers'[t], nextKey') /\ DOMAIN tiers'[t] = DOMAIN tiers[t]
  <2>1. ListOK(tiers[t], nextKey)
    BY DEF KeysOK
  <2> QED
    BY <2>1, SameKeys
<1>2. \A t \in Torrents : tiers'[t] \in Seq(TierType)
  BY <1>1 DEF ListOK
<1>3. tiers' \in [Torrents -> Seq(TierType)]
  BY <1>2
<1>4. \A t \in Torrents : ListOK(tiers[t], nextKey)' <=> ListOK(tiers'[t], nextKey')
  BY DEF ListOK
<1> QED
  BY <1>1, <1>3, <1>4

\* The parts of KeysOK that most actions leave alone.
LEMMA KeysFromLists ==
  ASSUME KeysOK,
         tiers' \in [Torrents -> Seq(TierType)],
         \A t \in Torrents : ListOK(tiers[t], nextKey)',
         status' \in [Torrents -> {"absent", "stopped", "running"}],
         nextKey' \in 1 .. MaxKey + 1, slots' \in Int, stops' \subseteq Torrents \X Urls,
         net' \subseteq Announce \cup Scrape, excused' \subseteq Keys,
         \A m \in Announces' : m.key < nextKey'
  PROVE  KeysOK'
<1>1. \A t \in Torrents : \A i \in DOMAIN tiers'[t] :
        tiers'[t][i].key < nextKey' /\ tiers'[t][i].cur \in DOMAIN tiers'[t][i].urls
  BY DEF ListOK
<1> QED
  BY <1>1 DEF KeysOK, TypeOK

\* The tiers of the torrents T get an event.
Pushed(T, e) ==
  tiers' = [t \in Torrents |-> IF t \in T THEN [i \in DOMAIN tiers[t] |-> Push(tiers[t][i], e, "now")]
                               ELSE tiers[t]]

LEMMA AddAnnouncePushes ==
  ASSUME KeysOK, NEW t \in Torrents, NEW e, AddAnnounce(t, e)
  PROVE  Pushed({t}, e)
BY DEF AddAnnounce, Pushed, KeysOK, TypeOK

\* What the session asks for, as far as it only adds events.
Asks ==
  \/ \E t \in Torrents : \/ StartTorrent(t) \/ StopTorrent(t)
                         \/ CompleteTorrent(t) \/ ManualAnnounce(t)
  \/ ChangeMyPort

LEMMA PushedTiers ==
  ASSUME KeysOK, NEW T \in SUBSET Torrents, NEW e \in Events, Pushed(T, e), nextKey' = nextKey
  PROVE  /\ tiers' \in [Torrents -> Seq(TierType)]
         /\ \A t \in Torrents : ListOK(tiers[t], nextKey)' /\ DOMAIN tiers'[t] = DOMAIN tiers[t]
<1>1. ASSUME NEW t \in Torrents
      PROVE  /\ tiers'[t] \in [DOMAIN tiers[t] -> TierType]
             /\ \A i \in DOMAIN tiers[t] :
                  /\ tiers'[t][i].key = tiers[t][i].key
                  /\ tiers'[t][i].cur \in DOMAIN tiers'[t][i].urls
  <2>1. tiers'[t] = IF t \in T THEN [i \in DOMAIN tiers[t] |-> Push(tiers[t][i], e, "now")]
                    ELSE tiers[t]
    BY DEF Pushed
  <2>2. tiers[t] \in [DOMAIN tiers[t] -> TierType]
    BY LenProperties DEF KeysOK, ListOK
  <2>3. \A i \in DOMAIN tiers[t] : tiers[t][i].cur \in DOMAIN tiers[t][i].urls
    BY TierFacts
  <2>4. "now" \in Times
    BY DEF Times
  <2>5. ASSUME NEW i \in DOMAIN tiers[t]
        PROVE  LET r == Push(tiers[t][i], e, "now")
               IN r \in TierType /\ r.key = tiers[t][i].key /\ r.cur \in DOMAIN r.urls
    BY <2>2, <2>3, <2>4, PushType
  <2> QED
    BY <2>1, <2>2, <2>3, <2>5
<1>2. tiers' = [t \in Torrents |-> tiers'[t]]
  BY DEF Pushed
<1> QED
  BY <1>1, <1>2, SameKeysStep

LEMMA AsksPush ==
  ASSUME KeysOK, Asks
  PROVE  /\ \E T \in SUBSET Torrents, e \in Events : Pushed(T, e)
         /\ UNCHANGED <<nextKey, slots, stops, net>>
         /\ status' \in [Torrents -> {"absent", "stopped", "running"}]
         /\ excused' \subseteq Keys
<1> USE DEF KeysOK, TypeOK
<1>1. ASSUME NEW t \in Torrents, StartTorrent(t) \/ StopTorrent(t) \/ ManualAnnounce(t)
      PROVE  /\ \E T \in SUBSET Torrents, e \in Events : Pushed(T, e)
             /\ status' \in [Torrents -> {"absent", "stopped", "running"}]
             /\ UNCHANGED <<nextKey, slots, stops, net, excused>>
  <2>1. PICK e \in Events : AddAnnounce(t, e)
    BY <1>1 DEF StartTorrent, StopTorrent, ManualAnnounce, Events
  <2>2. Pushed({t}, e)
    BY <2>1, AddAnnouncePushes
  <2> QED
    BY <1>1, <2>2 DEF StartTorrent, StopTorrent, ManualAnnounce
<1>2. ASSUME NEW t \in Torrents, CompleteTorrent(t)
      PROVE  /\ \E T \in SUBSET Torrents, e \in Events : Pushed(T, e)
             /\ excused' \subseteq Keys
             /\ UNCHANGED <<nextKey, slots, stops, net, status>>
  <2>1. Pushed({t}, "completed") /\ "completed" \in Events
    BY <1>2, AddAnnouncePushes DEF CompleteTorrent, Events
  <2>2. {tiers[t][i].key : i \in DOMAIN tiers[t]} \subseteq Keys
    BY TierFacts
  <2>3. excused' \subseteq Keys
    BY <1>2, <2>2 DEF CompleteTorrent
  <2> QED
    BY <1>2, <2>1, <2>3 DEF CompleteTorrent
<1>3. CASE ChangeMyPort
  <2>1. Pushed({t \in Torrents : status[t] = "running"}, "started") /\ "started" \in Events
    BY <1>3 DEF ChangeMyPort, Pushed, Events
  <2> QED
    BY <1>3, <2>1 DEF ChangeMyPort
<1> QED
  BY <1>1, <1>2, <1>3 DEF Asks

LEMMA AsksKeys == KeysOK /\ Asks => KeysOK'
<1> SUFFICES ASSUME KeysOK, Asks PROVE KeysOK'
  OBVIOUS
<1>1. /\ \E T \in SUBSET Torrents, e \in Events : Pushed(T, e)
      /\ UNCHANGED <<nextKey, slots, stops, net>>
      /\ status' \in [Torrents -> {"absent", "stopped", "running"}]
      /\ excused' \subseteq Keys
  BY AsksPush
<1>2. tiers' \in [Torrents -> Seq(TierType)] /\ \A t \in Torrents : ListOK(tiers[t], nextKey)'
  BY <1>1, PushedTiers
<1>3. \A m \in Announces' : m.key < nextKey'
  BY <1>1 DEF Announces, KeysOK
<1>4. /\ nextKey' \in 1 .. MaxKey + 1 /\ slots' \in Int /\ stops' \subseteq Torrents \X Urls
      /\ net' \subseteq Announce \cup Scrape
  BY <1>1 DEF KeysOK, TypeOK
<1> QED
  BY <1>1, <1>2, <1>3, <1>4, KeysFromLists

\* The list of one torrent is replaced.
LEMMA OneListReplaced ==
  ASSUME KeysOK, NEW t \in Torrents, NEW q, tiers' = [tiers EXCEPT ![t] = q],
         nextKey' \in Nat, nextKey <= nextKey', ListOK(q, nextKey')
  PROVE  /\ tiers' \in [Torrents -> Seq(TierType)]
         /\ \A x \in Torrents : ListOK(tiers[x], nextKey)'
<1>1. /\ tiers \in [Torrents -> Seq(TierType)] /\ nextKey \in Nat
      /\ \A x \in Torrents : ListOK(tiers[x], nextKey)
  BY DEF KeysOK, TypeOK
<1>2. \A x \in Torrents : tiers'[x] = IF x = t THEN q ELSE tiers[x]
  BY <1>1
<1>3. q \in Seq(TierType)
  BY DEF ListOK
<1>4. tiers' \in [Torrents -> Seq(TierType)]
  BY <1>1, <1>3
<1>5. ASSUME NEW x \in Torrents
      PROVE  ListOK(tiers[x], nextKey)'
  <2>1. CASE x = t
    <3>1. tiers'[x] = q
      BY <1>2, <2>1
    <3>2. ListOK(tiers'[x], nextKey')
      BY <3>1
    <3> QED
      BY <3>2 DEF ListOK
  <2>2. CASE x # t
    <3>1. tiers'[x] = tiers[x]
      BY <1>2, <2>2
    <3>2. \A i \in DOMAIN tiers[x] : tiers[x][i].key < nextKey /\ tiers[x][i].key \in Nat
      BY <1>1, TierFacts DEF Keys
    <3>3. \A i \in DOMAIN tiers'[x] : tiers'[x][i].key < nextKey'
      BY <1>1, <3>1, <3>2
    <3> QED
      BY <1>1, <3>1, <3>3 DEF ListOK
  <2> QED
    BY <2>1, <2>2
<1> QED
  BY <1>4, <1>5

LEMMA AddTorrentKeys ==
  ASSUME KeysOK, NEW t \in Torrents, NEW L \in Layouts, NEW when \in {"now", "later"},
         AddTorrent(t, L, when)
  PROVE  KeysOK'
<1>1. nextKey \in 1 .. MaxKey + 1 /\ MaxKey \in Nat /\ nextKey \in Nat
  BY AnnouncerAssumption DEF KeysOK, TypeOK
<1>2. when \in Times /\ CanMake(L)
  BY DEF AddTorrent, Times
<1> DEFINE q == NewTiers(L, when)
<1>3. /\ q \in Seq(TierType) /\ DOMAIN q = 1 .. Len(L) /\ Len(L) \in Nat
      /\ \A j \in DOMAIN q : q[j].key = nextKey + j - 1 /\ q[j].cur = 1 /\ 1 \in DOMAIN q[j].urls
      /\ nextKey + Len(L) \in 1 .. MaxKey + 1
  BY <1>1, <1>2, AnnouncerAssumption, NewTiersType
<1>4. tiers' = [tiers EXCEPT ![t] = q] /\ nextKey' = nextKey + Len(L)
  BY DEF AddTorrent
<1> HIDE DEF q
<1>5. ListOK(q, nextKey')
  <2>1. \A j \in 1 .. Len(L) : nextKey + j - 1 < nextKey'
    BY <1>1, <1>3, <1>4
  <2>2. \A i, j \in 1 .. Len(L) : nextKey + i - 1 = nextKey + j - 1 => i = j
    BY <1>1, <1>3
  <2>3. \A j \in DOMAIN q : q[j].key < nextKey' /\ q[j].cur \in DOMAIN q[j].urls
    BY <1>3, <2>1
  <2>4. \A i, j \in DOMAIN q : q[i].key = q[j].key => i = j
    BY <1>3, <2>2
  <2> QED
    BY <1>3, <2>3, <2>4 DEF ListOK
<1>6. tiers' \in [Torrents -> Seq(TierType)] /\ \A x \in Torrents : ListOK(tiers[x], nextKey)'
  <2>1. nextKey' \in Nat /\ nextKey <= nextKey'
    BY <1>1, <1>3, <1>4
  <2> QED
    BY <1>4, <1>5, <2>1, OneListReplaced
<1>7. \A m \in Announces' : m.key < nextKey'
  <2>1. Announces' = Announces
    BY DEF AddTorrent, Announces
  <2>2. \A m \in Announces : m.key < nextKey /\ m.key \in Nat
    BY DEF KeysOK, TypeOK, Announces, Announce, Scrape, Keys
  <2> QED
    BY <1>1, <1>3, <1>4, <2>1, <2>2
<1>8. /\ status' \in [Torrents -> {"absent", "stopped", "running"}]
      /\ slots' \in Int /\ stops' \subseteq Torrents \X Urls
      /\ net' \subseteq Announce \cup Scrape /\ excused' \subseteq Keys
  BY DEF AddTorrent, KeysOK, TypeOK
<1> QED
  BY <1>3, <1>4, <1>6, <1>7, <1>8, KeysFromLists

LEMMA RemoveTorrentKeys ==
  ASSUME KeysOK, NEW t \in Torrents, RemoveTorrent(t)
  PROVE  KeysOK'
<1>1. tiers' = [tiers EXCEPT ![t] = <<>>] /\ nextKey' = nextKey /\ nextKey \in Nat
  BY DEF RemoveTorrent, KeysOK, TypeOK
<1>2. ListOK(<<>>, nextKey')
  <2>1. <<>> \in Seq(TierType) /\ DOMAIN <<>> = {}
    OBVIOUS
  <2> QED
    BY <2>1 DEF ListOK
<1>3. tiers' \in [Torrents -> Seq(TierType)] /\ \A x \in Torrents : ListOK(tiers[x], nextKey)'
  <2>1. nextKey' \in Nat /\ nextKey <= nextKey'
    BY <1>1
  <2> QED
    BY <1>1, <1>2, <2>1, OneListReplaced
<1>4. stops' \subseteq Torrents \X Urls
  <2>1. \A i \in DOMAIN tiers[t] : Current(tiers[t][i]) \in Urls
    BY TierFacts
  <2> QED
    BY <2>1 DEF RemoveTorrent, KeysOK, TypeOK
<1>5. \A m \in Announces' : m.key < nextKey'
  BY <1>1 DEF RemoveTorrent, Announces, KeysOK
<1>6. /\ status' \in [Torrents -> {"absent", "stopped", "running"}]
      /\ slots' \in Int /\ nextKey' \in 1 .. MaxKey + 1
      /\ net' \subseteq Announce \cup Scrape /\ excused' \subseteq Keys
  BY DEF RemoveTorrent, KeysOK, TypeOK
<1> QED
  BY <1>3, <1>4, <1>5, <1>6, KeysFromLists

\* A tier that is copied keeps its key, its marks, its events and its tracker.
LEMMA CopyType ==
  ASSUME NEW r \in TierType, NEW urls \in Seq(Urls), Matches(r, urls)
  PROVE  /\ Copy(r, urls) \in TierType
         /\ Copy(r, urls).cur \in DOMAIN urls /\ Copy(r, urls).urls = urls
         /\ Current(Copy(r, urls)) = Current(r)
         /\ Copy(r, urls).key = r.key /\ Copy(r, urls).events = r.events
         /\ Copy(r, urls).due = r.due
         /\ Copy(r, urls).announcing = r.announcing /\ Copy(r, urls).scraping = r.scraping
<1> DEFINE c == CHOOSE x \in DOMAIN urls : urls[x] = Current(r)
<1>1. c \in DOMAIN urls /\ urls[c] = Current(r)
  BY DEF Matches
<1>2. DOMAIN urls \subseteq Nat
  BY LenProperties
<1>3. Copy(r, urls) = [r EXCEPT !.urls = urls, !.cur = c]
  BY DEF Copy
<1> HIDE DEF c
<1>4. Copy(r, urls).urls = urls /\ Copy(r, urls).cur = c
  BY <1>3 DEF TierType
<1> QED
  BY <1>1, <1>2, <1>3, <1>4 DEF TierType, Current

\* The list that tr_announcerResetTorrent makes for t.
NewList(t, L, when, src) ==
  [j \in DOMAIN L |->
    IF src[j] # 0 THEN Copy(tiers[t][src[j]], L[j])
    ELSE IF status[t] = "running" THEN Push(NewTiers(L, when)[j], "started", "now")
    ELSE NewTiers(L, when)[j]]

SourceOK(t, L, src) ==
  /\ src \in [DOMAIN L -> 0 .. Len(tiers[t])]
  /\ \A j \in DOMAIN L : src[j] # 0 => Matches(tiers[t][src[j]], L[j])

LEMMA ResetMakes ==
  ASSUME KeysOK, NEW t \in Torrents, NEW L, NEW when, ResetTorrent(t, L, when)
  PROVE  /\ \E src : SourceOK(t, L, src) /\ tiers' = [tiers EXCEPT ![t] = NewList(t, L, when, src)]
         /\ CanMake(L) /\ nextKey' = nextKey + Len(L)
         /\ UNCHANGED <<status, slots, stops, net, excused>>
BY DEF ResetTorrent, SourceOK, NewList, KeysOK, TypeOK

\* The new tier j is the copy of one, or new.
LEMMA NewListTier ==
  ASSUME KeysOK, NEW t \in Torrents, NEW L \in Layouts, NEW when \in {"now", "later"},
         CanMake(L), NEW src, SourceOK(t, L, src), NEW j \in DOMAIN L
  PROVE  LET r == NewList(t, L, when, src)[j]
         IN /\ r \in TierType /\ r.cur \in DOMAIN r.urls
            /\ \/ /\ src[j] \in DOMAIN tiers[t]
                  /\ Matches(tiers[t][src[j]], L[j])
                  /\ r.key = tiers[t][src[j]].key /\ r.events = tiers[t][src[j]].events
                  /\ r.due = tiers[t][src[j]].due
                  /\ r.announcing = tiers[t][src[j]].announcing
                  /\ r.scraping = tiers[t][src[j]].scraping
                  /\ Current(r) = Current(tiers[t][src[j]])
               \/ /\ r.key = nextKey + j - 1 /\ ~r.announcing /\ ~r.scraping
                  /\ IF status[t] = "running"
                     THEN r.events # <<>> /\ r.events[Len(r.events)] = "started" /\ r.due = "now"
                     ELSE r.events = <<>>
<1> DEFINE r == NewList(t, L, when, src)[j]
           n == NewTiers(L, when)[j]
<1>1. /\ when \in Times /\ "now" \in Times /\ "started" \in Events
      /\ nextKey \in 1 .. MaxKey + 1
  BY DEF Times, Events, KeysOK, TypeOK
<1>2. /\ n \in TierType /\ n.key = nextKey + j - 1 /\ n.urls = L[j] /\ n.cur = 1
      /\ 1 \in DOMAIN L[j] /\ n.events = <<>> /\ ~n.announcing /\ ~n.scraping
  BY <1>1, AnnouncerAssumption, NewTiersType
<1>3. L[j] \in Seq(Urls)
  BY <1>2 DEF TierType
<1>4. r = IF src[j] # 0 THEN Copy(tiers[t][src[j]], L[j])
          ELSE IF status[t] = "running" THEN Push(n, "started", "now") ELSE n
  BY DEF NewList
<1> HIDE DEF n, r
<1>5. CASE src[j] # 0
  <2>1. tiers[t] \in Seq(TierType) /\ Len(tiers[t]) \in Nat /\ DOMAIN tiers[t] = 1 .. Len(tiers[t])
    BY LenProperties DEF KeysOK, ListOK
  <2>2. src[j] \in DOMAIN tiers[t] /\ Matches(tiers[t][src[j]], L[j])
    BY <1>5, <2>1 DEF SourceOK
  <2>3. tiers[t][src[j]] \in TierType
    BY <2>2, TierFacts
  <2>4. r = Copy(tiers[t][src[j]], L[j])
    BY <1>4, <1>5
  <2> QED
    BY <1>3, <2>2, <2>3, <2>4, CopyType DEF r
<1>6. CASE ~(src[j] # 0) /\ status[t] = "running"
  <2>1. r = Push(n, "started", "now")
    BY <1>4, <1>6
  <2> QED
    BY <1>1, <1>2, <1>6, <2>1, PushType DEF r
<1>7. CASE ~(src[j] # 0) /\ status[t] # "running"
  <2>1. r = n
    BY <1>4, <1>7
  <2> QED
    BY <1>2, <1>7, <2>1 DEF r
<1> QED
  BY <1>5, <1>6, <1>7

LEMMA ResetTorrentKeys ==
  ASSUME KeysOK, NEW t \in Torrents, NEW L \in Layouts, NEW when \in {"now", "later"},
         ResetTorrent(t, L, when)
  PROVE  KeysOK'
<1>1. PICK src : SourceOK(t, L, src) /\ tiers' = [tiers EXCEPT ![t] = NewList(t, L, when, src)]
  BY ResetMakes
<1>2. /\ CanMake(L) /\ nextKey' = nextKey + Len(L)
      /\ UNCHANGED <<status, slots, stops, net, excused>>
  BY ResetMakes
<1>3. nextKey \in 1 .. MaxKey + 1 /\ MaxKey \in Nat /\ nextKey \in Nat /\ when \in Times
  BY AnnouncerAssumption DEF KeysOK, TypeOK, Times
<1>4. Len(L) \in Nat /\ DOMAIN L = 1 .. Len(L) /\ nextKey + Len(L) \in 1 .. MaxKey + 1
  BY <1>2, <1>3, AnnouncerAssumption, NewTiersType
<1> DEFINE q == NewList(t, L, when, src)
           Copied(j) == /\ src[j] \in DOMAIN tiers[t] /\ Matches(tiers[t][src[j]], L[j])
                        /\ q[j].key = tiers[t][src[j]].key
           Fresh(j) == q[j].key = nextKey + j - 1
<1>5. \A j \in DOMAIN L : q[j] \in TierType /\ q[j].cur \in DOMAIN q[j].urls /\ (Copied(j) \/ Fresh(j))
  BY <1>1, <1>2, NewListTier
<1>6. DOMAIN q = DOMAIN L /\ q = [j \in DOMAIN L |-> q[j]]
  BY DEF NewList
<1> HIDE DEF q
<1>7. q \in Seq(TierType)
  BY <1>4, <1>5, <1>6, FunctionIsSeq
<1>8. \A j \in DOMAIN L : Copied(j) => q[j].key < nextKey /\ q[j].key \in Nat
  BY TierFacts DEF Keys
<1>9. \A j \in DOMAIN L : q[j].key < nextKey'
  BY <1>2, <1>3, <1>4, <1>5, <1>8
<1>10. ASSUME NEW i \in DOMAIN L, NEW j \in DOMAIN L, q[i].key = q[j].key
       PROVE  i = j
  <2>1. CASE Fresh(i) /\ Fresh(j)
    <3>1. i \in Nat /\ j \in Nat
      BY <1>4
    <3>2. nextKey + i - 1 = nextKey + j - 1
      BY <1>10, <2>1
    <3> QED
      BY <1>3, <3>1, <3>2
  <2>2. CASE Copied(i) /\ Copied(j)
    <3>1. src[i] = src[j]
      BY <1>10, <2>2 DEF KeysOK, ListOK
    <3>2. PICK x \in DOMAIN L[i], y \in DOMAIN L[j] : L[i][x] = L[j][y]
      BY <2>2, <3>1 DEF Matches
    <3> QED
      BY <3>2, AnnouncerAssumption DEF AnnouncerAssumption
  <2>3. CASE (Copied(i) /\ Fresh(j)) \/ (Copied(j) /\ Fresh(i))
    BY <1>3, <1>4, <1>8, <1>10, <2>3
  <2> QED
    BY <1>5, <2>1, <2>2, <2>3
<1>11. ListOK(q, nextKey')
  BY <1>5, <1>6, <1>7, <1>9, <1>10 DEF ListOK
<1>12. tiers' \in [Torrents -> Seq(TierType)] /\ \A x \in Torrents : ListOK(tiers[x], nextKey)'
  <2>1. tiers' = [tiers EXCEPT ![t] = q]
    BY <1>1 DEF q
  <2>2. nextKey' \in Nat /\ nextKey <= nextKey'
    BY <1>2, <1>3, <1>4
  <2> QED
    BY <1>11, <2>1, <2>2, OneListReplaced
<1>13. \A m \in Announces' : m.key < nextKey'
  <2>1. Announces' = Announces
    BY <1>2 DEF Announces
  <2>2. \A m \in Announces : m.key < nextKey /\ m.key \in Nat
    BY DEF KeysOK, TypeOK, Announces, Announce, Scrape, Keys
  <2> QED
    BY <1>2, <1>3, <1>4, <2>1, <2>2
<1>14. /\ status' \in [Torrents -> {"absent", "stopped", "running"}]
       /\ slots' \in Int /\ stops' \subseteq Torrents \X Urls
       /\ net' \subseteq Announce \cup Scrape /\ excused' \subseteq Keys
       /\ nextKey' \in 1 .. MaxKey + 1
  BY <1>2, <1>4 DEF KeysOK, TypeOK
<1> QED
  BY <1>12, <1>13, <1>14, KeysFromLists

\* What the upkeep does to a tier.
Served(t, i, A, W) ==
  LET r == tiers[t][i]
  IN IF <<t, i>> \in A THEN [r EXCEPT !.events = Tail(@), !.announcing = TRUE]
     ELSE IF <<t, i>> \in ToScrape /\ Current(r) \in W THEN [r EXCEPT !.scraping = TRUE]
     ELSE r

LEMMA UpkeepServes ==
  ASSUME KeysOK, Upkeep
  PROVE  /\ UNCHANGED <<status, nextKey, excused>> /\ stops' = {}
         /\ \/ UNCHANGED <<tiers, slots, net>>
            \/ \E A \in SUBSET ToAnnounce, W \in SUBSET {Current(Tier(p)) : p \in ToScrape},
                  s \in Ticks : IsFree(s) /\ AnnounceMore(A, W, s)
BY DEF Upkeep, UpTo

LEMMA TierPlaces ==
  ASSUME NEW p \in Tiers
  PROVE  /\ p = <<p[1], p[2]>> /\ p[1] \in Torrents /\ p[2] \in DOMAIN tiers[p[1]]
         /\ Tier(p) = tiers[p[1]][p[2]]
BY DEF Tiers, Tier

LEMMA ServedTier ==
  ASSUME KeysOK, NEW A \in SUBSET ToAnnounce, NEW W, NEW t \in Torrents, NEW i \in DOMAIN tiers[t]
  PROVE  /\ Served(t, i, A, W) \in TierType
         /\ Served(t, i, A, W).key = tiers[t][i].key /\ Served(t, i, A, W).due = tiers[t][i].due
         /\ Served(t, i, A, W).urls = tiers[t][i].urls /\ Served(t, i, A, W).cur = tiers[t][i].cur
<1> DEFINE r == tiers[t][i]
<1>1. r \in TierType
  BY TierFacts
<1>2. ASSUME <<t, i>> \in A
      PROVE  r.events # <<>> /\ ~r.announcing /\ Tail(r.events) \in Seq(Events)
  <2>1. NeedsToAnnounce(r)
    BY <1>2 DEF ToAnnounce, Tier
  <2> QED
    BY <1>1, <2>1, HeadTailProperties DEF NeedsToAnnounce, TierType
<1>3. Served(t, i, A, W) =
        IF <<t, i>> \in A THEN [r EXCEPT !.events = Tail(@), !.announcing = TRUE]
        ELSE IF <<t, i>> \in ToScrape /\ Current(r) \in W THEN [r EXCEPT !.scraping = TRUE]
        ELSE r
  BY DEF Served
<1> HIDE DEF r
<1>4. CASE <<t, i>> \in A
  <2>1. Served(t, i, A, W) = [r EXCEPT !.events = Tail(@), !.announcing = TRUE]
    BY <1>3, <1>4
  <2> QED
    BY <1>1, <1>2, <1>4, <2>1 DEF r, TierType
<1>5. CASE <<t, i>> \notin A
  <2>1. Served(t, i, A, W) =
          IF <<t, i>> \in ToScrape /\ Current(r) \in W THEN [r EXCEPT !.scraping = TRUE] ELSE r
    BY <1>3, <1>5
  <2> QED
    BY <1>1, <1>5, <2>1 DEF r, TierType
<1> QED
  BY <1>4, <1>5

LEMMA ServedMarks ==
  ASSUME KeysOK, NEW A \in SUBSET ToAnnounce, NEW W, NEW t \in Torrents, NEW i \in DOMAIN tiers[t]
  PROVE  /\ <<t, i>> \in A => /\ tiers[t][i].events # <<>> /\ ~tiers[t][i].announcing
                              /\ Served(t, i, A, W).announcing
                              /\ Served(t, i, A, W).events = Tail(tiers[t][i].events)
                              /\ Served(t, i, A, W).scraping = tiers[t][i].scraping
         /\ <<t, i>> \notin A => /\ Served(t, i, A, W).announcing = tiers[t][i].announcing
                                 /\ Served(t, i, A, W).events = tiers[t][i].events
                                 /\ Served(t, i, A, W).scraping =>
                                      \/ tiers[t][i].scraping
                                      \/ <<t, i>> \in ToScrape /\ Current(tiers[t][i]) \in W
<1> DEFINE r == tiers[t][i]
<1>1. r \in TierType
  BY TierFacts
<1>2. ASSUME <<t, i>> \in A
      PROVE  r.events # <<>> /\ ~r.announcing /\ Tail(r.events) \in Seq(Events)
  <2>1. NeedsToAnnounce(r)
    BY <1>2 DEF ToAnnounce, Tier
  <2> QED
    BY <1>1, <2>1, HeadTailProperties DEF NeedsToAnnounce, TierType
<1>3. Served(t, i, A, W) =
        IF <<t, i>> \in A THEN [r EXCEPT !.events = Tail(@), !.announcing = TRUE]
        ELSE IF <<t, i>> \in ToScrape /\ Current(r) \in W THEN [r EXCEPT !.scraping = TRUE]
        ELSE r
  BY DEF Served
<1> HIDE DEF r
<1>4. CASE <<t, i>> \in A
  <2>1. Served(t, i, A, W) = [r EXCEPT !.events = Tail(@), !.announcing = TRUE]
    BY <1>3, <1>4
  <2> QED
    BY <1>1, <1>2, <1>4, <2>1 DEF r, TierType
<1>5. CASE <<t, i>> \notin A
  <2>1. Served(t, i, A, W) =
          IF <<t, i>> \in ToScrape /\ Current(r) \in W THEN [r EXCEPT !.scraping = TRUE] ELSE r
    BY <1>3, <1>5
  <2> QED
    BY <1>1, <1>5, <2>1 DEF r, TierType
<1> QED
  BY <1>4, <1>5

LEMMA MoreTiers ==
  ASSUME KeysOK, nextKey' = nextKey, NEW A \in SUBSET ToAnnounce, NEW W, NEW s, AnnounceMore(A, W, s)
  PROVE  /\ tiers' \in [Torrents -> Seq(TierType)]
         /\ \A t \in Torrents : /\ ListOK(tiers[t], nextKey)' /\ DOMAIN tiers'[t] = DOMAIN tiers[t]
                                /\ \A i \in DOMAIN tiers[t] : tiers'[t][i] = Served(t, i, A, W)
<1>1. tiers' = [t \in Torrents |-> [i \in DOMAIN tiers[t] |-> Served(t, i, A, W)]]
  BY DEF AnnounceMore, Served
<1>2. ASSUME NEW t \in Torrents
      PROVE  /\ tiers'[t] \in [DOMAIN tiers[t] -> TierType]
             /\ \A i \in DOMAIN tiers[t] :
                  /\ tiers'[t][i] = Served(t, i, A, W)
                  /\ tiers'[t][i].key = tiers[t][i].key
                  /\ tiers'[t][i].cur \in DOMAIN tiers'[t][i].urls
  <2>1. tiers'[t] = [i \in DOMAIN tiers[t] |-> Served(t, i, A, W)]
    BY <1>1
  <2>2. ASSUME NEW i \in DOMAIN tiers[t]
        PROVE  /\ Served(t, i, A, W) \in TierType
               /\ Served(t, i, A, W).key = tiers[t][i].key
               /\ Served(t, i, A, W).cur \in DOMAIN Served(t, i, A, W).urls
    <3>1. tiers[t][i].cur \in DOMAIN tiers[t][i].urls
      BY TierFacts
    <3>2. /\ Served(t, i, A, W) \in TierType
          /\ Served(t, i, A, W).key = tiers[t][i].key
          /\ Served(t, i, A, W).urls = tiers[t][i].urls /\ Served(t, i, A, W).cur = tiers[t][i].cur
      BY ServedTier
    <3> QED
      BY <3>1, <3>2
  <2> QED
    BY <2>1, <2>2
<1>3. tiers' = [t \in Torrents |-> tiers'[t]]
  BY <1>1
<1> QED
  BY <1>2, <1>3, SameKeysStep

\* The trackers that could be scraped now.
Askable == {Current(Tier(p)) : p \in ToScrape}

\* The announces and scrapes that the upkeep sends.
LEMMA SentAnnounces ==
  ASSUME KeysOK, NEW A \in SUBSET ToAnnounce, NEW s \in Ticks, NEW p \in A
  PROVE  /\ AnnounceOf(p, s) \in Announce /\ AnnounceOf(p, s).kind = "announce"
         /\ AnnounceOf(p, s).tick = s
         /\ p = <<p[1], p[2]>> /\ p[1] \in Torrents /\ p[2] \in DOMAIN tiers[p[1]]
         /\ AnnounceOf(p, s).tor = p[1]
         /\ AnnounceOf(p, s).key = tiers[p[1]][p[2]].key
         /\ AnnounceOf(p, s).event = Head(tiers[p[1]][p[2]].events)
<1>1. p \in Tiers /\ NeedsToAnnounce(Tier(p))
  BY DEF ToAnnounce
<1>2. /\ p = <<p[1], p[2]>> /\ p[1] \in Torrents /\ p[2] \in DOMAIN tiers[p[1]]
      /\ Tier(p) = tiers[p[1]][p[2]]
  BY <1>1, TierPlaces
<1>3. Tier(p) \in TierType /\ Tier(p).key \in Keys
  BY <1>2, TierFacts
<1>4. Head(Tier(p).events) \in Events
  BY <1>1, <1>3, HeadTailProperties DEF NeedsToAnnounce, TierType
<1> QED
  BY <1>2, <1>3, <1>4 DEF AnnounceOf, Announce

LEMMA SentScrapes ==
  ASSUME KeysOK, NEW u \in Askable, NEW s \in Ticks
  PROVE  /\ ScrapeOf(u, s) \in Scrape /\ ScrapeOf(u, s).kind = "scrape" /\ ScrapeOf(u, s).url = u
         /\ \A t \in Torrents : \A i \in DOMAIN tiers[t] :
              <<t, i>> \in ToScrape /\ Current(tiers[t][i]) = u => t \in ScrapeOf(u, s).tors
<1>1. ASSUME NEW p \in ToScrape
      PROVE  p[1] \in Torrents /\ Current(Tier(p)) \in Urls
  <2>1. p \in Tiers
    BY DEF ToScrape
  <2> QED
    BY <2>1, TierPlaces, TierFacts
<1>2. {p[1] : p \in {q \in ToScrape : Current(Tier(q)) = u}} \subseteq Torrents /\ u \in Urls
  BY <1>1 DEF Askable
<1>3. ASSUME NEW t \in Torrents, NEW i \in DOMAIN tiers[t], <<t, i>> \in ToScrape,
             Current(tiers[t][i]) = u
      PROVE  t \in ScrapeOf(u, s).tors
  <2>1. Tier(<<t, i>>) = tiers[t][i] /\ <<t, i>>[1] = t
    BY DEF Tier
  <2>2. <<t, i>> \in {q \in ToScrape : Current(Tier(q)) = u}
    BY <1>3, <2>1
  <2> QED
    BY <2>1, <2>2 DEF ScrapeOf
<1> QED
  BY <1>2, <1>3 DEF ScrapeOf, Scrape

\* Different tiers have different keys, so that as many are sent.
LEMMA SentAreAsMany ==
  ASSUME KeysOK, NEW A \in SUBSET ToAnnounce, NEW s \in Ticks
  PROVE  /\ IsFiniteSet(A) /\ IsFiniteSet({AnnounceOf(p, s) : p \in A})
         /\ Cardinality({AnnounceOf(p, s) : p \in A}) = Cardinality(A)
<1> DEFINE N == {AnnounceOf(p, s) : p \in A}
           f == [p \in A |-> <<p[1], tiers[p[1]][p[2]].key>>]
           g == [p \in A |-> AnnounceOf(p, s)]
<1>1. ASSUME NEW p \in A
      PROVE  /\ p = <<p[1], p[2]>> /\ p[1] \in Torrents /\ p[2] \in DOMAIN tiers[p[1]]
             /\ AnnounceOf(p, s).tor = p[1] /\ AnnounceOf(p, s).key = tiers[p[1]][p[2]].key
             /\ tiers[p[1]][p[2]].key \in Keys
  <2>1. /\ p = <<p[1], p[2]>> /\ p[1] \in Torrents /\ p[2] \in DOMAIN tiers[p[1]]
        /\ AnnounceOf(p, s).tor = p[1] /\ AnnounceOf(p, s).key = tiers[p[1]][p[2]].key
    BY SentAnnounces
  <2> QED
    BY <2>1, TierFacts
<1>2. ASSUME NEW p \in A, NEW q \in A, p[1] = q[1],
             tiers[p[1]][p[2]].key = tiers[q[1]][q[2]].key
      PROVE  p = q
  <2>1. p[2] = q[2]
    BY <1>1, <1>2 DEF KeysOK, ListOK
  <2> QED
    BY <1>1, <1>2, <2>1
<1>3. IsFiniteSet(Torrents \X Keys)
  <2>1. IsFiniteSet(Keys)
    BY AnnouncerAssumption, FS_Interval, 1 \in Int, MaxKey \in Int DEF Keys
  <2>2. IsFiniteSet(Torrents)
    BY AnnouncerAssumption
  <2> QED
    BY <2>1, <2>2, FS_Product
<1>4. f \in Injection(A, Torrents \X Keys)
  BY <1>1, <1>2 DEF Injection, IsInjective
<1>5. IsFiniteSet(A)
  BY <1>3, <1>4, FS_Injection
<1>6. g \in Surjection(A, N)
  BY DEF Surjection
<1>7. g \in Injection(A, N)
  BY <1>1, <1>2 DEF Injection, IsInjective
<1> QED
  BY <1>5, <1>6, <1>7, FS_Surjection

LEMMA UpkeepKeys == KeysOK /\ Upkeep => KeysOK'
<1> SUFFICES ASSUME KeysOK, Upkeep PROVE KeysOK'
  OBVIOUS
<1>1. UNCHANGED <<status, nextKey, excused>> /\ stops' = {}
  BY UpkeepServes
<1>2. CASE UNCHANGED <<tiers, slots, net>>
  BY <1>1, <1>2 DEF KeysOK, TypeOK, ListOK, Announces
<1>3. ASSUME NEW A \in SUBSET ToAnnounce, NEW W \in SUBSET {Current(Tier(p)) : p \in ToScrape},
             NEW s \in Ticks, AnnounceMore(A, W, s)
      PROVE  KeysOK'
  <2>1. tiers' \in [Torrents -> Seq(TierType)] /\ \A t \in Torrents : ListOK(tiers[t], nextKey)'
    BY <1>1, <1>3, MoreTiers
  <2>2. net' = net \cup {AnnounceOf(p, s) : p \in A} \cup {ScrapeOf(u, s) : u \in W}
    BY <1>3 DEF AnnounceMore
  <2>3. ASSUME NEW p \in A
        PROVE  AnnounceOf(p, s) \in Announce /\ AnnounceOf(p, s).key < nextKey
    <3>1. /\ AnnounceOf(p, s) \in Announce /\ p[1] \in Torrents /\ p[2] \in DOMAIN tiers[p[1]]
          /\ AnnounceOf(p, s).key = tiers[p[1]][p[2]].key
      BY SentAnnounces
    <3> QED
      BY <3>1, TierFacts
  <2>4. ASSUME NEW u \in W
        PROVE  ScrapeOf(u, s) \in Scrape /\ ScrapeOf(u, s).kind = "scrape"
    <3>1. u \in Askable
      BY DEF Askable
    <3> QED
      BY <3>1, SentScrapes
  <2>5. net' \subseteq Announce \cup Scrape
    BY <2>2, <2>3, <2>4 DEF KeysOK, TypeOK
  <2>6. \A m \in Announces' : m.key < nextKey'
    BY <1>1, <2>2, <2>3, <2>4 DEF Announces, KeysOK
  <2>7. slots' \in Int
    <3>1. IsFiniteSet(A)
      BY SentAreAsMany
    <3>2. Cardinality(A) \in Nat
      BY <3>1, FS_CardinalityType
    <3>3. slots' = slots - Cardinality(A) /\ slots \in Int
      BY <1>3 DEF AnnounceMore, KeysOK, TypeOK
    <3> QED
      BY <3>2, <3>3
  <2> QED
    BY <1>1, <2>1, <2>5, <2>6, <2>7, KeysFromLists DEF KeysOK, TypeOK
<1> QED
  BY <1>2, <1>3, UpkeepServes

\* What an answer does to the tier that it is for: there is only one.
LEMMA DoneTiers ==
  ASSUME KeysOK, NEW m \in Announces, NEW err \in BOOLEAN, AnnounceDone(m, err)
  PROVE  /\ m \in Announce /\ net' = net \ {m} /\ slots' = OneMore
         /\ UNCHANGED <<status, nextKey, stops>>
         /\ tiers' = [t \in Torrents |-> tiers'[t]]
         /\ excused \subseteq excused'
         /\ \A t \in Torrents :
              /\ tiers'[t] \in [DOMAIN tiers[t] -> TierType]
              /\ \A i \in DOMAIN tiers[t] :
                   IF t = m.tor /\ tiers[t][i].key = m.key
                   THEN IF err THEN tiers'[t][i] \in AnnounceFailed(tiers[t][i], m) /\ m.key \in excused'
                        ELSE tiers'[t][i] \in Announced(tiers[t][i], m)
                   ELSE tiers'[t][i] = tiers[t][i]
         /\ excused' \subseteq excused \cup {m.key}
<1>1. m \in Announce
  BY DEF Announces, KeysOK, TypeOK, Scrape
<1>2. m.tor \in Torrents
  BY <1>1 DEF Announce
<1>3. /\ net' = net \ {m} /\ slots' = OneMore /\ UNCHANGED <<status, nextKey, stops>>
      /\ excused \subseteq excused' /\ excused' \subseteq excused \cup {m.key}
  BY DEF AnnounceDone, Done
<1>4. tiers \in [Torrents -> Seq(TierType)]
      /\ \A t \in Torrents : tiers[t] \in [DOMAIN tiers[t] -> TierType]
  BY LenProperties DEF KeysOK, TypeOK, ListOK
<1>5. CASE \A i \in DOMAIN tiers[m.tor] : tiers[m.tor][i].key # m.key
  <2>1. UNCHANGED tiers
    BY <1>5 DEF AnnounceDone, Done
  <2> QED
    BY <1>1, <1>3, <1>4, <1>5, <2>1
<1>6. CASE \E i \in DOMAIN tiers[m.tor] : tiers[m.tor][i].key = m.key
  <2>1. PICK x \in DOMAIN tiers[m.tor] :
          /\ tiers[m.tor][x].key = m.key
          /\ \E r \in IF err THEN AnnounceFailed(tiers[m.tor][x], m) ELSE Announced(tiers[m.tor][x], m) :
               tiers' = [tiers EXCEPT ![m.tor][x] = r]
          /\ excused' = IF err THEN excused \cup {m.key} ELSE excused
    BY <1>6 DEF AnnounceDone, Done
  <2>2. PICK r : /\ r \in IF err THEN AnnounceFailed(tiers[m.tor][x], m)
                          ELSE Announced(tiers[m.tor][x], m)
                 /\ tiers' = [tiers EXCEPT ![m.tor][x] = r]
    BY <2>1
  <2>3. tiers[m.tor][x] \in TierType /\ tiers[m.tor][x].cur \in DOMAIN tiers[m.tor][x].urls
    BY <1>2, TierFacts
  <2>4. r \in TierType
    BY <1>1, <2>2, <2>3, AnnounceFailedType, AnnouncedType
  <2>5. \A i \in DOMAIN tiers[m.tor] : tiers[m.tor][i].key = m.key => i = x
    BY <1>2, <2>1 DEF KeysOK, ListOK
  <2>6. tiers' = [tiers EXCEPT ![m.tor] = [tiers[m.tor] EXCEPT ![x] = r]]
    BY <2>2
  <2>7. \A t \in Torrents : tiers'[t] = IF t = m.tor THEN [tiers[m.tor] EXCEPT ![x] = r] ELSE tiers[t]
    BY <1>4, <2>6
  <2>8. [tiers[m.tor] EXCEPT ![x] = r] \in [DOMAIN tiers[m.tor] -> TierType]
    BY <1>2, <1>4, <2>1, <2>4
  <2>9. \A i \in DOMAIN tiers[m.tor] :
          [tiers[m.tor] EXCEPT ![x] = r][i] = IF i = x THEN r ELSE tiers[m.tor][i]
    BY <1>2, <1>4
  <2>10. tiers' = [t \in Torrents |-> tiers'[t]]
    BY <1>4, <2>6
  <2>11. \A t \in Torrents : tiers'[t] \in [DOMAIN tiers[t] -> TierType]
    BY <1>4, <2>7, <2>8
  <2>12. ASSUME NEW t \in Torrents, NEW i \in DOMAIN tiers[t]
         PROVE  IF t = m.tor /\ tiers[t][i].key = m.key
                THEN IF err THEN tiers'[t][i] \in AnnounceFailed(tiers[t][i], m) /\ m.key \in excused'
                     ELSE tiers'[t][i] \in Announced(tiers[t][i], m)
                ELSE tiers'[t][i] = tiers[t][i]
    <3>1. CASE t = m.tor /\ tiers[t][i].key = m.key
      <4>1. i = x /\ tiers'[t][i] = r
        BY <2>5, <2>7, <2>9, <3>1
      <4> QED
        BY <2>1, <2>2, <3>1, <4>1
    <3>2. CASE t = m.tor /\ tiers[t][i].key # m.key
      <4>1. tiers'[t][i] = tiers[t][i]
        BY <2>1, <2>7, <2>9, <3>2
      <4> QED
        BY <3>2, <4>1
    <3>3. CASE t # m.tor
      BY <2>7, <3>3
    <3> QED
      BY <3>1, <3>2, <3>3
  <2> QED
    BY <1>1, <1>3, <2>10, <2>11, <2>12
<1> QED
  BY <1>5, <1>6

LEMMA AnnounceDoneKeys ==
  ASSUME KeysOK, NEW m \in Announces, NEW err \in BOOLEAN, AnnounceDone(m, err)
  PROVE  KeysOK'
<1>1. /\ m \in Announce /\ net' = net \ {m} /\ slots' = OneMore
      /\ UNCHANGED <<status, nextKey, stops>>
      /\ tiers' = [t \in Torrents |-> tiers'[t]]
      /\ excused' \subseteq excused \cup {m.key}
      /\ \A t \in Torrents : tiers'[t] \in [DOMAIN tiers[t] -> TierType]
  BY DoneTiers
<1>2. ASSUME NEW t \in Torrents, NEW i \in DOMAIN tiers[t]
      PROVE  tiers'[t][i].key = tiers[t][i].key /\ tiers'[t][i].cur \in DOMAIN tiers'[t][i].urls
  <2>1. IF t = m.tor /\ tiers[t][i].key = m.key
        THEN IF err THEN tiers'[t][i] \in AnnounceFailed(tiers[t][i], m)
             ELSE tiers'[t][i] \in Announced(tiers[t][i], m)
        ELSE tiers'[t][i] = tiers[t][i]
    BY DoneTiers
  <2>2. tiers[t][i] \in TierType /\ tiers[t][i].cur \in DOMAIN tiers[t][i].urls
    BY TierFacts
  <2>3. CASE tiers'[t][i] \in AnnounceFailed(tiers[t][i], m)
    BY <1>1, <2>2, <2>3, AnnounceFailedType
  <2>4. CASE tiers'[t][i] \in Announced(tiers[t][i], m)
    BY <1>1, <2>2, <2>4, AnnouncedType
  <2> QED
    BY <2>1, <2>2, <2>3, <2>4
<1>3. tiers' \in [Torrents -> Seq(TierType)] /\ \A t \in Torrents : ListOK(tiers[t], nextKey)'
  BY <1>1, <1>2, SameKeysStep
<1>4. slots' \in Int
  BY <1>1, AnnouncerAssumption DEF OneMore, KeysOK, TypeOK
<1>5. excused' \subseteq Keys
  BY <1>1 DEF KeysOK, TypeOK, Announce
<1>6. \A x \in Announces' : x.key < nextKey'
  BY <1>1 DEF Announces, KeysOK
<1> QED
  BY <1>1, <1>3, <1>4, <1>5, <1>6, KeysFromLists DEF KeysOK, TypeOK

LEMMA ScrapedType ==
  ASSUME NEW r \in TierType, r.cur \in DOMAIN r.urls, NEW err \in BOOLEAN, NEW when \in {"now", "later"}
  PROVE  /\ Scraped(r, err, when) \in TierType
         /\ Scraped(r, err, when).cur \in DOMAIN Scraped(r, err, when).urls
         /\ Scraped(r, err, when).key = r.key /\ Scraped(r, err, when).events = r.events
         /\ ~Scraped(r, err, when).scraping /\ Scraped(r, err, when).due = r.due
         /\ IF err THEN ~Scraped(r, err, when).announcing
            ELSE Scraped(r, err, when).announcing = r.announcing
<1> DEFINE done == IF err THEN IncrementTracker(r) ELSE [r EXCEPT !.scraping = FALSE]
<1>1. /\ done \in TierType /\ done.cur \in DOMAIN done.urls /\ done.key = r.key
      /\ done.events = r.events /\ done.due = r.due /\ ~done.scraping
      /\ IF err THEN ~done.announcing ELSE done.announcing = r.announcing
  BY IncrementTrackerType DEF TierType
<1>2. Scraped(r, err, when) = [done EXCEPT !.scrape = ScrapeTime(done, when)]
  BY DEF Scraped
<1> HIDE DEF done
<1>3. ScrapeTime(done, when) \in Times
  BY <1>1, ScrapeTimeType DEF Times
<1> QED
  BY <1>1, <1>2, <1>3 DEF TierType

LEMMA ScrapeDoneTiers ==
  ASSUME KeysOK, NEW m \in net, NEW err \in BOOLEAN, ScrapeDone(m, err)
  PROVE  /\ m \in Scrape /\ m \notin Announces /\ net' = net \ {m} /\ slots' = OneMore
         /\ UNCHANGED <<status, nextKey, stops>>
         /\ tiers' = [t \in Torrents |-> tiers'[t]]
         /\ excused \subseteq excused' /\ excused' \subseteq Keys
         /\ \A t \in Torrents :
              /\ tiers'[t] \in [DOMAIN tiers[t] -> TierType]
              /\ \A i \in DOMAIN tiers[t] :
                   /\ IF IsScraped(m, t, i)
                      THEN \E when \in {"now", "later"} : tiers'[t][i] = Scraped(tiers[t][i], err, when)
                      ELSE tiers'[t][i] = tiers[t][i]
                   /\ err /\ IsScraped(m, t, i) => tiers[t][i].key \in excused'
<1>1. m \in Scrape /\ m \notin Announces
  BY DEF ScrapeDone, KeysOK, TypeOK, Announce, Announces
<1>2. /\ net' = net \ {m} /\ slots' = OneMore /\ UNCHANGED <<status, nextKey, stops>>
      /\ excused' = IF ~err THEN excused
                    ELSE excused \cup {tiers[p[1]][p[2]].key :
                                         p \in {q \in Tiers : IsScraped(m, q[1], q[2])}}
  BY DEF ScrapeDone
<1>3. PICK when \in [m.tors -> {"now", "later"}] :
        tiers' = [t \in Torrents |-> [i \in DOMAIN tiers[t] |->
                   IF IsScraped(m, t, i) THEN Scraped(tiers[t][i], err, when[t]) ELSE tiers[t][i]]]
  BY DEF ScrapeDone
<1>4. ASSUME NEW p \in Tiers
      PROVE  tiers[p[1]][p[2]].key \in Keys
  BY TierPlaces, TierFacts
<1>5. excused \subseteq excused' /\ excused' \subseteq Keys
  BY <1>2, <1>4 DEF KeysOK, TypeOK
<1>6. ASSUME NEW t \in Torrents, NEW i \in DOMAIN tiers[t]
      PROVE  /\ tiers'[t][i] \in TierType
             /\ IF IsScraped(m, t, i)
                THEN \E w \in {"now", "later"} : tiers'[t][i] = Scraped(tiers[t][i], err, w)
                ELSE tiers'[t][i] = tiers[t][i]
             /\ err /\ IsScraped(m, t, i) => tiers[t][i].key \in excused'
  <2>1. tiers'[t][i] = IF IsScraped(m, t, i) THEN Scraped(tiers[t][i], err, when[t]) ELSE tiers[t][i]
    BY <1>3
  <2>2. tiers[t][i] \in TierType /\ tiers[t][i].cur \in DOMAIN tiers[t][i].urls
    BY TierFacts
  <2>3. ASSUME IsScraped(m, t, i)
        PROVE  /\ \E w \in {"now", "later"} : tiers'[t][i] = Scraped(tiers[t][i], err, w)
               /\ tiers'[t][i] \in TierType
    <3>1. when[t] \in {"now", "later"}
      BY <2>3 DEF IsScraped
    <3> QED
      BY <2>1, <2>2, <2>3, <3>1, ScrapedType
  <2>4. ASSUME err, IsScraped(m, t, i)
        PROVE  tiers[t][i].key \in excused'
    <3>1. <<t, i>> \in Tiers /\ IsScraped(m, <<t, i>>[1], <<t, i>>[2])
      BY <2>4 DEF Tiers
    <3> QED
      BY <1>2, <2>4, <3>1
  <2> QED
    BY <2>1, <2>2, <2>3, <2>4
<1>7. \A t \in Torrents : tiers'[t] \in [DOMAIN tiers[t] -> TierType]
  BY <1>3, <1>6
<1>8. tiers' = [t \in Torrents |-> tiers'[t]]
  BY <1>3
<1> QED
  BY <1>1, <1>2, <1>5, <1>6, <1>7, <1>8

LEMMA ScrapeDoneKeys ==
  ASSUME KeysOK, NEW m \in net, NEW err \in BOOLEAN, ScrapeDone(m, err)
  PROVE  KeysOK'
<1>1. /\ net' = net \ {m} /\ slots' = OneMore
      /\ UNCHANGED <<status, nextKey, stops>>
      /\ tiers' = [t \in Torrents |-> tiers'[t]]
      /\ excused' \subseteq Keys
      /\ \A t \in Torrents : tiers'[t] \in [DOMAIN tiers[t] -> TierType]
  BY ScrapeDoneTiers
<1>2. ASSUME NEW t \in Torrents, NEW i \in DOMAIN tiers[t]
      PROVE  tiers'[t][i].key = tiers[t][i].key /\ tiers'[t][i].cur \in DOMAIN tiers'[t][i].urls
  <2>1. \/ \E when \in {"now", "later"} : tiers'[t][i] = Scraped(tiers[t][i], err, when)
        \/ tiers'[t][i] = tiers[t][i]
    BY ScrapeDoneTiers
  <2>2. tiers[t][i] \in TierType /\ tiers[t][i].cur \in DOMAIN tiers[t][i].urls
    BY TierFacts
  <2> QED
    BY <2>1, <2>2, ScrapedType
<1>3. tiers' \in [Torrents -> Seq(TierType)] /\ \A t \in Torrents : ListOK(tiers[t], nextKey)'
  BY <1>1, <1>2, SameKeysStep
<1>4. slots' \in Int
  BY <1>1, AnnouncerAssumption DEF OneMore, KeysOK, TypeOK
<1>5. \A x \in Announces' : x.key < nextKey'
  BY <1>1 DEF Announces, KeysOK
<1> QED
  BY <1>1, <1>3, <1>4, <1>5, KeysFromLists DEF KeysOK, TypeOK

\* Time passes for one tier.
LEMMA TimeTiers ==
  ASSUME KeysOK, NEW t \in Torrents, NEW i, AnnounceTime(t, i) \/ ScrapeDue(t, i)
  PROVE  /\ UNCHANGED <<status, nextKey, slots, stops, net, excused>>
         /\ tiers' = [x \in Torrents |-> tiers'[x]]
         /\ \A x \in Torrents :
              /\ tiers'[x] \in [DOMAIN tiers[x] -> TierType]
              /\ \A j \in DOMAIN tiers[x] :
                   /\ tiers'[x][j].key = tiers[x][j].key /\ tiers'[x][j].urls = tiers[x][j].urls
                   /\ tiers'[x][j].cur = tiers[x][j].cur
                   /\ tiers'[x][j].events = tiers[x][j].events
                   /\ tiers'[x][j].due \in {tiers[x][j].due, "now"}
                   /\ tiers'[x][j].announcing = tiers[x][j].announcing
                   /\ tiers'[x][j].scraping = tiers[x][j].scraping
<1>1. UNCHANGED <<status, nextKey, slots, stops, net, excused>> /\ i \in DOMAIN tiers[t]
  BY DEF AnnounceTime, ScrapeDue
<1>2. tiers \in [Torrents -> Seq(TierType)]
      /\ \A x \in Torrents : tiers[x] \in [DOMAIN tiers[x] -> TierType]
  BY LenProperties DEF KeysOK, TypeOK, ListOK
<1> DEFINE r == tiers[t][i]
<1>3. PICK n \in {[r EXCEPT !.due = "now"], [r EXCEPT !.scrape = "now"]} :
        tiers' = [tiers EXCEPT ![t] = [tiers[t] EXCEPT ![i] = n]]
  BY DEF AnnounceTime, ScrapeDue
<1>4. r \in TierType
  BY <1>1, TierFacts
<1> HIDE DEF r
<1>5. /\ n \in TierType /\ n.key = r.key /\ n.urls = r.urls /\ n.cur = r.cur
      /\ n.events = r.events /\ n.announcing = r.announcing /\ n.scraping = r.scraping
      /\ n.due \in {r.due, "now"}
  BY <1>3, <1>4 DEF TierType, Times
<1>6. \A x \in Torrents : tiers'[x] = IF x = t THEN [tiers[t] EXCEPT ![i] = n] ELSE tiers[x]
  BY <1>2, <1>3
<1>7. /\ [tiers[t] EXCEPT ![i] = n] \in [DOMAIN tiers[t] -> TierType]
      /\ \A j \in DOMAIN tiers[t] : [tiers[t] EXCEPT ![i] = n][j] = IF j = i THEN n ELSE tiers[t][j]
  BY <1>1, <1>2, <1>5
<1>8. tiers' = [x \in Torrents |-> tiers'[x]]
  BY <1>2, <1>3
<1>9. ASSUME NEW x \in Torrents
      PROVE  /\ tiers'[x] \in [DOMAIN tiers[x] -> TierType]
             /\ \A j \in DOMAIN tiers[x] : tiers'[x][j] = IF x = t /\ j = i THEN n ELSE tiers[x][j]
  BY <1>2, <1>6, <1>7
<1> QED
  BY <1>1, <1>5, <1>8, <1>9 DEF r

LEMMA TimeKeys ==
  ASSUME KeysOK, NEW t \in Torrents, NEW i, AnnounceTime(t, i) \/ ScrapeDue(t, i)
  PROVE  KeysOK'
<1>1. /\ UNCHANGED <<status, nextKey, slots, stops, net, excused>>
      /\ tiers' = [x \in Torrents |-> tiers'[x]]
      /\ \A x \in Torrents : tiers'[x] \in [DOMAIN tiers[x] -> TierType]
  BY TimeTiers
<1>2. ASSUME NEW x \in Torrents, NEW j \in DOMAIN tiers[x]
      PROVE  tiers'[x][j].key = tiers[x][j].key /\ tiers'[x][j].cur \in DOMAIN tiers'[x][j].urls
  <2>1. tiers[x][j].cur \in DOMAIN tiers[x][j].urls
    BY TierFacts
  <2> QED
    BY <2>1, TimeTiers
<1>3. tiers' \in [Torrents -> Seq(TierType)] /\ \A x \in Torrents : ListOK(tiers[x], nextKey)'
  BY <1>1, <1>2, SameKeysStep
<1>4. \A m \in Announces' : m.key < nextKey'
  BY <1>1 DEF Announces, KeysOK
<1> QED
  BY <1>1, <1>3, <1>4, KeysFromLists DEF KeysOK, TypeOK

LEMMA InitKeys == Init => KeysOK
<1> SUFFICES ASSUME Init PROVE KeysOK
  OBVIOUS
<1>1. \A t \in Torrents : tiers[t] = <<>> /\ DOMAIN tiers[t] = {}
  BY DEF Init
<1>2. <<>> \in Seq(TierType)
  OBVIOUS
<1>3. tiers \in [Torrents -> Seq(TierType)]
  BY <1>2 DEF Init
<1>4. \A t \in Torrents : ListOK(tiers[t], nextKey)
  BY <1>1, <1>2 DEF ListOK
<1>5. nextKey \in 1 .. MaxKey + 1 /\ slots \in Int
  BY AnnouncerAssumption DEF Init
<1> QED
  BY <1>1, <1>3, <1>4, <1>5 DEF Init, KeysOK, TypeOK, Announces

\* The actions by what they do to the tiers.
LEMMA NextCases ==
  ASSUME KeysOK, Next
  PROVE  \/ Asks
         \/ \E t \in Torrents, L \in Layouts, when \in {"now", "later"} :
              AddTorrent(t, L, when) \/ ResetTorrent(t, L, when)
         \/ \E t \in Torrents : RemoveTorrent(t)
         \/ Upkeep
         \/ \E m \in Announces, err \in BOOLEAN : AnnounceDone(m, err)
         \/ \E m \in net, err \in BOOLEAN : ScrapeDone(m, err)
         \/ \E t \in Torrents : \E i \in DOMAIN tiers[t] : AnnounceTime(t, i) \/ ScrapeDue(t, i)
BY DEF Next, User, Answer, Asks, Announces, AnnounceDone

LEMMA StepKeys == KeysOK /\ [Next]_vars => KeysOK'
<1> SUFFICES ASSUME KeysOK, [Next]_vars PROVE KeysOK'
  OBVIOUS
<1>1. CASE UNCHANGED vars
  BY <1>1 DEF vars, KeysOK, TypeOK, ListOK, Announces
<1>2. CASE Next
  BY <1>2, NextCases, AsksKeys, AddTorrentKeys, ResetTorrentKeys, RemoveTorrentKeys, UpkeepKeys,
     AnnounceDoneKeys, ScrapeDoneKeys, TimeKeys
<1> QED
  BY <1>1, <1>2

\* The keys of a torrent's tiers are different, older than nextKey, and every
\* variable has its type.
THEOREM KeysAreUnique == Spec => []KeysOK
BY InitKeys, StepKeys, PTL DEF Spec

\* Every variable has its type, for any torrents, trackers and tracker lists
\* (announcer.c, tr_tier).
THEOREM AnnouncerTypeCorrect == Spec => []TypeOK
<1>1. KeysOK => TypeOK
  BY DEF KeysOK
<1> QED
  BY <1>1, KeysAreUnique, PTL

-----------------------------------------------------------------------------
(* The slots.                                                              *)

Scrapes == net \ Announces
Sent(A, s) == {AnnounceOf(p, s) : p \in A}

\* The second invariant.
SlotsOK == KeysOK /\ IsFiniteSet(Announces) /\ NoSlotIsLost

\* The announces that are sent are new: their tick was free.
LEMMA UpkeepAnnounces ==
  ASSUME KeysOK, NEW A \in SUBSET ToAnnounce, NEW W \in SUBSET Askable,
         NEW s \in Ticks, IsFree(s), AnnounceMore(A, W, s)
  PROVE  /\ Announces' = Announces \cup Sent(A, s)
         /\ Announces \cap Sent(A, s) = {}
         /\ Scrapes \subseteq Scrapes'
         /\ \A u \in W : ScrapeOf(u, s) \in Scrapes'
<1>1. net' = net \cup {AnnounceOf(p, s) : p \in A} \cup {ScrapeOf(u, s) : u \in W}
  BY DEF AnnounceMore
<1>2. \A p \in A : AnnounceOf(p, s).kind = "announce" /\ AnnounceOf(p, s).tick = s
  BY SentAnnounces
<1>3. \A u \in W : ScrapeOf(u, s).kind = "scrape"
  BY SentScrapes
<1>4. \A m \in net : m.tick # s
  BY DEF IsFree
<1> QED
  BY <1>1, <1>2, <1>3, <1>4 DEF Announces, Scrapes, Sent

LEMMA UpkeepSlots == SlotsOK /\ Upkeep => IsFiniteSet(Announces)' /\ NoSlotIsLost'
<1> SUFFICES ASSUME SlotsOK, Upkeep PROVE IsFiniteSet(Announces)' /\ NoSlotIsLost'
  OBVIOUS
<1>1. KeysOK /\ IsFiniteSet(Announces) /\ NoSlotIsLost
  BY DEF SlotsOK
<1>2. CASE UNCHANGED <<tiers, slots, net>>
  BY <1>1, <1>2 DEF Announces, NoSlotIsLost
<1>3. ASSUME NEW A \in SUBSET ToAnnounce, NEW W \in SUBSET Askable,
             NEW s \in Ticks, IsFree(s), AnnounceMore(A, W, s)
      PROVE  IsFiniteSet(Announces)' /\ NoSlotIsLost'
  <2> DEFINE N == Sent(A, s)
  <2>1. Announces' = Announces \cup N /\ Announces \cap N = {}
    BY <1>1, <1>3, UpkeepAnnounces
  <2>2. IsFiniteSet(A) /\ IsFiniteSet(N) /\ Cardinality(N) = Cardinality(A)
    BY <1>1, SentAreAsMany DEF Sent
  <2> HIDE DEF N
  <2>3. /\ IsFiniteSet(Announces \cup N)
        /\ Cardinality(Announces \cup N)
             = Cardinality(Announces) + Cardinality(N) - Cardinality(Announces \cap N)
    BY <1>1, <2>2, FS_Union
  <2>4. Cardinality(Announces \cap N) = 0
    BY <2>1, FS_EmptySet
  <2>5. Cardinality(Announces) \in Nat /\ Cardinality(N) \in Nat
    BY <1>1, <2>2, FS_CardinalityType
  <2>6. slots' = slots - Cardinality(A) /\ slots \in Int /\ MaxTasks \in Nat
    BY <1>1, <1>3, AnnouncerAssumption DEF AnnounceMore, KeysOK, TypeOK
  <2>7. Cardinality(Announces') = Cardinality(Announces) + Cardinality(A)
    BY <2>1, <2>2, <2>3, <2>4, <2>5
  <2>8. slots + Cardinality(Announces) >= MaxTasks
    BY <1>1 DEF NoSlotIsLost
  <2>9. slots' + Cardinality(Announces') >= MaxTasks
    BY <2>2, <2>5, <2>6, <2>7, <2>8
  <2> QED
    BY <2>1, <2>3, <2>9 DEF NoSlotIsLost
<1> QED
  BY <1>1, <1>2, <1>3, UpkeepServes DEF Askable

LEMMA AnnounceDoneSlots ==
  ASSUME SlotsOK, NEW m \in Announces, NEW err \in BOOLEAN, AnnounceDone(m, err)
  PROVE  IsFiniteSet(Announces)' /\ NoSlotIsLost'
<1>1. KeysOK /\ IsFiniteSet(Announces) /\ NoSlotIsLost
  BY DEF SlotsOK
<1>2. net' = net \ {m} /\ slots' = OneMore
  BY <1>1, DoneTiers
<1>3. Announces' = Announces \ {m}
  BY <1>2 DEF Announces
<1>4. IsFiniteSet(Announces \ {m}) /\ Cardinality(Announces \ {m}) = Cardinality(Announces) - 1
  BY <1>1, FS_RemoveElement
<1>5. Cardinality(Announces) \in Nat /\ Cardinality(Announces \ {m}) \in Nat
  BY <1>1, <1>4, FS_CardinalityType
<1>6. slots \in Int /\ MaxTasks \in Nat /\ MaxSlots \in Nat /\ MaxTasks <= MaxSlots
  BY <1>1, AnnouncerAssumption DEF KeysOK, TypeOK
<1>7. slots' + Cardinality(Announces \ {m}) >= MaxTasks
  BY <1>1, <1>2, <1>4, <1>5, <1>6 DEF NoSlotIsLost, OneMore
<1> QED
  BY <1>3, <1>4, <1>7 DEF NoSlotIsLost

LEMMA ScrapeDoneSlots ==
  ASSUME SlotsOK, NEW m \in net, NEW err \in BOOLEAN, ScrapeDone(m, err)
  PROVE  IsFiniteSet(Announces)' /\ NoSlotIsLost'
<1>1. KeysOK /\ IsFiniteSet(Announces) /\ NoSlotIsLost
  BY DEF SlotsOK
<1>2. net' = net \ {m} /\ slots' = OneMore /\ m \notin Announces
  BY <1>1, ScrapeDoneTiers
<1>3. Announces' = Announces
  BY <1>2 DEF Announces
<1>4. Cardinality(Announces) \in Nat
  BY <1>1, FS_CardinalityType
<1>5. slots \in Int /\ MaxTasks \in Nat /\ MaxSlots \in Nat /\ MaxTasks <= MaxSlots
  BY <1>1, AnnouncerAssumption DEF KeysOK, TypeOK
<1>6. slots' + Cardinality(Announces) >= MaxTasks
  BY <1>1, <1>2, <1>4, <1>5 DEF NoSlotIsLost, OneMore
<1> QED
  BY <1>1, <1>3, <1>6 DEF NoSlotIsLost

\* All other steps send nothing and answer nothing.
LEMMA QuietSteps ==
  ASSUME KeysOK, Next
  PROVE  \/ Upkeep
         \/ \E m \in Announces, err \in BOOLEAN : AnnounceDone(m, err)
         \/ \E m \in net, err \in BOOLEAN : ScrapeDone(m, err)
         \/ UNCHANGED <<slots, net>>
<1>1. Asks => UNCHANGED <<slots, net>>
  BY AsksPush
<1>2. \A t \in Torrents, L \in Layouts, when \in {"now", "later"} :
        AddTorrent(t, L, when) \/ ResetTorrent(t, L, when) => UNCHANGED <<slots, net>>
  BY DEF AddTorrent, ResetTorrent
<1>3. \A t \in Torrents : RemoveTorrent(t) => UNCHANGED <<slots, net>>
  BY DEF RemoveTorrent
<1>4. \A t \in Torrents : \A i \in DOMAIN tiers[t] :
        AnnounceTime(t, i) \/ ScrapeDue(t, i) => UNCHANGED <<slots, net>>
  BY DEF AnnounceTime, ScrapeDue
<1> QED
  BY <1>1, <1>2, <1>3, <1>4, NextCases

LEMMA StepSlots == SlotsOK /\ [Next]_vars => SlotsOK'
<1> SUFFICES ASSUME SlotsOK, [Next]_vars PROVE SlotsOK'
  OBVIOUS
<1>1. KeysOK'
  BY StepKeys DEF SlotsOK
<1>2. ASSUME UNCHANGED <<slots, net>>
      PROVE  IsFiniteSet(Announces)' /\ NoSlotIsLost'
  BY <1>2 DEF SlotsOK, NoSlotIsLost, Announces
<1>3. CASE UNCHANGED vars
  BY <1>1, <1>2, <1>3 DEF vars, SlotsOK
<1>4. CASE Next
  <2>1. IsFiniteSet(Announces)' /\ NoSlotIsLost'
    BY <1>2, <1>4, QuietSteps, UpkeepSlots, AnnounceDoneSlots, ScrapeDoneSlots DEF SlotsOK
  <2> QED
    BY <1>1, <2>1 DEF SlotsOK
<1> QED
  BY <1>3, <1>4

LEMMA InitSlots == Init => SlotsOK
<1> SUFFICES ASSUME Init PROVE SlotsOK
  OBVIOUS
<1>1. Announces = {} /\ slots = MaxTasks /\ MaxTasks \in Nat
  BY AnnouncerAssumption DEF Init, Announces
<1>2. IsFiniteSet(Announces) /\ Cardinality(Announces) = 0
  BY <1>1, FS_EmptySet
<1> QED
  BY <1>1, <1>2, InitKeys DEF SlotsOK, NoSlotIsLost

\* Every slot that is not available is held by an announce under way: also the
\* answer to a tier that is gone gives its slot back (on_announce_done).
THEOREM SlotsComeBack == Spec => []NoSlotIsLost
<1>1. SlotsOK => NoSlotIsLost
  BY DEF SlotsOK
<1> QED
  BY <1>1, InitSlots, StepSlots, PTL DEF Spec

-----------------------------------------------------------------------------
(* The marks.                                                              *)

\* What BusyIsInFlight says of one tier r of t, when these announces and
\* scrapes are under way.
Waits(t, r, sent, asked) ==
  /\ r.announcing => \E m \in sent : m.tor = t /\ m.key = r.key
  /\ r.scraping => \E m \in asked : t \in m.tors /\ m.url = Current(r)

\* The third invariant.
BusyOK == KeysOK /\ \A t \in Torrents : \A i \in DOMAIN tiers[t] : Waits(t, tiers[t][i], Announces, Scrapes)

LEMMA BusyIsBusy == BusyOK => BusyIsInFlight
BY DEF BusyOK, BusyIsInFlight, Waits, Scrapes

\* While nothing is answered, a tier that has not changed its marks, its key
\* or its tracker still waits.
LEMMA StillWaits ==
  ASSUME NEW t, NEW r, NEW q, NEW sent, NEW asked, NEW more, NEW others,
         Waits(t, r, sent, asked), sent \subseteq more, asked \subseteq others,
         q.key = r.key, q.announcing => r.announcing, q.scraping => r.scraping,
         Current(q) = Current(r)
  PROVE  Waits(t, q, more, others)
BY DEF Waits

LEMMA IdleWaits ==
  ASSUME NEW t, NEW q, ~q.announcing, ~q.scraping, NEW sent, NEW asked
  PROVE  Waits(t, q, sent, asked)
BY DEF Waits

\* Where the tiers go in a step that is no answer.
LEMMA AsksBusy ==
  ASSUME BusyOK, Asks, NEW t \in Torrents, NEW i \in DOMAIN tiers'[t]
  PROVE  Waits(t, tiers'[t][i], Announces', Scrapes')
<1>1. PICK T \in SUBSET Torrents, e \in Events : Pushed(T, e)
  BY AsksPush DEF BusyOK
<1>2. UNCHANGED <<nextKey, slots, stops, net>>
  BY AsksPush DEF BusyOK
<1>3. DOMAIN tiers'[t] = DOMAIN tiers[t]
  BY <1>1, <1>2, PushedTiers DEF BusyOK
<1>4. tiers'[t][i] = tiers[t][i] \/ tiers'[t][i] = Push(tiers[t][i], e, "now")
  BY <1>1, <1>3 DEF Pushed
<1>5. tiers[t][i] \in TierType /\ Waits(t, tiers[t][i], Announces, Scrapes) /\ "now" \in Times
  BY <1>3, TierFacts DEF BusyOK, Times
<1>6. /\ tiers'[t][i].key = tiers[t][i].key /\ tiers'[t][i].urls = tiers[t][i].urls
      /\ tiers'[t][i].cur = tiers[t][i].cur
      /\ tiers'[t][i].announcing = tiers[t][i].announcing
      /\ tiers'[t][i].scraping = tiers[t][i].scraping
  BY <1>4, <1>5, PushType
<1>7. Current(tiers'[t][i]) = Current(tiers[t][i])
  BY <1>6 DEF Current
<1>8. Announces \subseteq Announces' /\ Scrapes \subseteq Scrapes'
  BY <1>2 DEF Announces, Scrapes
<1> QED
  BY <1>5, <1>6, <1>7, <1>8, StillWaits

LEMMA AddTorrentBusy ==
  ASSUME BusyOK, NEW x \in Torrents, NEW L \in Layouts, NEW when \in {"now", "later"},
         AddTorrent(x, L, when), NEW t \in Torrents, NEW i \in DOMAIN tiers'[t]
  PROVE  Waits(t, tiers'[t][i], Announces', Scrapes')
<1>1. tiers' = [tiers EXCEPT ![x] = NewTiers(L, when)] /\ net' = net /\ CanMake(L)
  BY DEF AddTorrent
<1>2. tiers'[t] = IF t = x THEN NewTiers(L, when) ELSE tiers[t]
  BY <1>1 DEF BusyOK, KeysOK, TypeOK
<1>3. CASE t = x
  <2>1. when \in Times /\ nextKey \in 1 .. MaxKey + 1
    BY DEF Times, BusyOK, KeysOK, TypeOK
  <2>2. i \in DOMAIN NewTiers(L, when) /\ tiers'[t][i] = NewTiers(L, when)[i]
    BY <1>2, <1>3
  <2>3. ~tiers'[t][i].announcing /\ ~tiers'[t][i].scraping
    BY <1>1, <2>1, <2>2, AnnouncerAssumption, NewTiersType
  <2> QED
    BY <2>3, IdleWaits
<1>4. CASE t # x
  <2>1. tiers'[t] = tiers[t] /\ Announces' = Announces /\ Scrapes' = Scrapes
    BY <1>1, <1>2, <1>4 DEF Announces, Scrapes
  <2>2. Waits(t, tiers[t][i], Announces, Scrapes)
    BY <2>1 DEF BusyOK
  <2> QED
    BY <2>1, <2>2, StillWaits DEF Current
<1> QED
  BY <1>3, <1>4

LEMMA ResetTorrentBusy ==
  ASSUME BusyOK, NEW x \in Torrents, NEW L \in Layouts, NEW when \in {"now", "later"},
         ResetTorrent(x, L, when), NEW t \in Torrents, NEW i \in DOMAIN tiers'[t]
  PROVE  Waits(t, tiers'[t][i], Announces', Scrapes')
<1>1. /\ KeysOK /\ CanMake(L)
      /\ UNCHANGED <<status, slots, stops, net, excused>>
  BY ResetMakes DEF BusyOK
<1>2. PICK src : SourceOK(x, L, src) /\ tiers' = [tiers EXCEPT ![x] = NewList(x, L, when, src)]
  BY <1>1, ResetMakes
<1>3. tiers'[t] = IF t = x THEN NewList(x, L, when, src) ELSE tiers[t]
  BY <1>1, <1>2 DEF KeysOK, TypeOK
<1>4. Announces \subseteq Announces' /\ Scrapes \subseteq Scrapes'
  BY <1>1 DEF Announces, Scrapes
<1>5. CASE t = x
  <2>1. i \in DOMAIN L /\ tiers'[t][i] = NewList(t, L, when, src)[i]
    BY <1>3, <1>5 DEF NewList
  <2>2. \/ /\ src[i] \in DOMAIN tiers[t]
           /\ tiers'[t][i].key = tiers[t][src[i]].key
           /\ tiers'[t][i].announcing = tiers[t][src[i]].announcing
           /\ tiers'[t][i].scraping = tiers[t][src[i]].scraping
           /\ Current(tiers'[t][i]) = Current(tiers[t][src[i]])
        \/ ~tiers'[t][i].announcing /\ ~tiers'[t][i].scraping
    BY <1>1, <1>2, <1>5, <2>1, NewListTier
  <2>3. CASE ~tiers'[t][i].announcing /\ ~tiers'[t][i].scraping
    BY <2>3, IdleWaits
  <2>4. CASE /\ src[i] \in DOMAIN tiers[t]
             /\ tiers'[t][i].key = tiers[t][src[i]].key
             /\ tiers'[t][i].announcing = tiers[t][src[i]].announcing
             /\ tiers'[t][i].scraping = tiers[t][src[i]].scraping
             /\ Current(tiers'[t][i]) = Current(tiers[t][src[i]])
    <3>1. Waits(t, tiers[t][src[i]], Announces, Scrapes)
      BY <2>4 DEF BusyOK
    <3> QED
      BY <1>4, <2>4, <3>1, StillWaits
  <2> QED
    BY <2>2, <2>3, <2>4
<1>6. CASE t # x
  <2>1. tiers'[t] = tiers[t]
    BY <1>3, <1>6
  <2>2. Waits(t, tiers[t][i], Announces, Scrapes)
    BY <2>1 DEF BusyOK
  <2> QED
    BY <1>4, <2>1, <2>2, StillWaits DEF Current
<1> QED
  BY <1>5, <1>6

LEMMA RemoveTorrentBusy ==
  ASSUME BusyOK, NEW x \in Torrents, RemoveTorrent(x), NEW t \in Torrents, NEW i \in DOMAIN tiers'[t]
  PROVE  Waits(t, tiers'[t][i], Announces', Scrapes')
<1>1. tiers' = [tiers EXCEPT ![x] = <<>>] /\ net' = net
  BY DEF RemoveTorrent
<1>2. tiers'[t] = IF t = x THEN <<>> ELSE tiers[t]
  BY <1>1 DEF BusyOK, KeysOK, TypeOK
<1>3. tiers'[t] = tiers[t]
  BY <1>2
<1>4. Announces \subseteq Announces' /\ Scrapes \subseteq Scrapes'
  BY <1>1 DEF Announces, Scrapes
<1>5. Waits(t, tiers[t][i], Announces, Scrapes)
  BY <1>3 DEF BusyOK
<1> QED
  BY <1>3, <1>4, <1>5, StillWaits DEF Current

LEMMA TimeBusy ==
  ASSUME BusyOK, NEW x \in Torrents, NEW j, AnnounceTime(x, j) \/ ScrapeDue(x, j),
         NEW t \in Torrents, NEW i \in DOMAIN tiers'[t]
  PROVE  Waits(t, tiers'[t][i], Announces', Scrapes')
<1>1. net' = net /\ tiers'[t] \in [DOMAIN tiers[t] -> TierType]
  BY TimeTiers DEF BusyOK
<1>2. i \in DOMAIN tiers[t]
  BY <1>1
<1>3. /\ tiers'[t][i].key = tiers[t][i].key /\ tiers'[t][i].urls = tiers[t][i].urls
      /\ tiers'[t][i].cur = tiers[t][i].cur
      /\ tiers'[t][i].announcing = tiers[t][i].announcing
      /\ tiers'[t][i].scraping = tiers[t][i].scraping
  BY <1>2, TimeTiers DEF BusyOK
<1>4. Current(tiers'[t][i]) = Current(tiers[t][i])
  BY <1>3 DEF Current
<1>5. Announces \subseteq Announces' /\ Scrapes \subseteq Scrapes'
  BY <1>1 DEF Announces, Scrapes
<1>6. Waits(t, tiers[t][i], Announces, Scrapes)
  BY <1>2 DEF BusyOK
<1> QED
  BY <1>3, <1>4, <1>5, <1>6, StillWaits

LEMMA UpkeepBusy ==
  ASSUME BusyOK, Upkeep, NEW t \in Torrents, NEW i \in DOMAIN tiers'[t]
  PROVE  Waits(t, tiers'[t][i], Announces', Scrapes')
<1>1. KeysOK /\ nextKey' = nextKey
  BY UpkeepServes DEF BusyOK
<1>2. CASE UNCHANGED <<tiers, slots, net>>
  <2>1. Waits(t, tiers[t][i], Announces, Scrapes)
    BY <1>2 DEF BusyOK
  <2> QED
    BY <1>2, <2>1, StillWaits DEF Announces, Scrapes, Current
<1>3. ASSUME NEW A \in SUBSET ToAnnounce, NEW W \in SUBSET Askable,
             NEW s \in Ticks, IsFree(s), AnnounceMore(A, W, s)
      PROVE  Waits(t, tiers'[t][i], Announces', Scrapes')
  <2> DEFINE r == tiers[t][i]
             q == tiers'[t][i]
  <2>1. /\ Announces' = Announces \cup Sent(A, s)
        /\ Scrapes \subseteq Scrapes'
        /\ \A w \in W : ScrapeOf(w, s) \in Scrapes'
    BY <1>1, <1>3, UpkeepAnnounces
  <2>2. i \in DOMAIN tiers[t] /\ q = Served(t, i, A, W)
    BY <1>1, <1>3, MoreTiers
  <2>3. /\ q.key = r.key /\ q.urls = r.urls /\ q.cur = r.cur
        /\ <<t, i>> \in A => q.scraping = r.scraping
        /\ <<t, i>> \notin A => /\ q.announcing = r.announcing
                                /\ q.scraping => \/ r.scraping
                                                 \/ <<t, i>> \in ToScrape /\ Current(r) \in W
    BY <1>1, <2>2, ServedTier, ServedMarks
  <2>4. Waits(t, r, Announces, Scrapes) /\ Current(q) = Current(r)
    BY <2>2, <2>3 DEF BusyOK, Current
  <2>5. ASSUME q.announcing
        PROVE  \E m \in Announces' : m.tor = t /\ m.key = q.key
    <3>1. CASE <<t, i>> \in A
      <4>1. AnnounceOf(<<t, i>>, s).tor = t /\ AnnounceOf(<<t, i>>, s).key = r.key
        BY <1>1, <3>1, SentAnnounces
      <4>2. AnnounceOf(<<t, i>>, s) \in Announces'
        BY <2>1, <3>1 DEF Sent
      <4> QED
        BY <2>3, <4>1, <4>2
    <3>2. CASE <<t, i>> \notin A
      <4>1. PICK m \in Announces : m.tor = t /\ m.key = r.key
        BY <2>3, <2>4, <2>5, <3>2 DEF Waits
      <4> QED
        BY <2>1, <2>3, <4>1
    <3> QED
      BY <3>1, <3>2
  <2>6. ASSUME q.scraping
        PROVE  \E m \in Scrapes' : t \in m.tors /\ m.url = Current(q)
    <3>1. CASE r.scraping
      BY <2>1, <2>4, <3>1 DEF Waits
    <3>2. CASE <<t, i>> \in ToScrape /\ Current(r) \in W
      <4>1. Current(r) \in Askable
        BY <3>2
      <4>2. /\ ScrapeOf(Current(r), s).url = Current(r)
            /\ t \in ScrapeOf(Current(r), s).tors
        BY <1>1, <2>2, <3>2, <4>1, SentScrapes
      <4> QED
        BY <2>1, <2>4, <3>2, <4>2
    <3> QED
      BY <2>3, <2>6, <3>1, <3>2
  <2> HIDE DEF q, r
  <2>7. Waits(t, q, Announces', Scrapes')
    BY <2>5, <2>6 DEF Waits
  <2> QED
    BY <2>7 DEF q
<1> QED
  BY <1>1, <1>2, <1>3, UpkeepServes DEF Askable

LEMMA AnnounceDoneBusy ==
  ASSUME BusyOK, NEW m \in Announces, NEW err \in BOOLEAN, AnnounceDone(m, err),
         NEW t \in Torrents, NEW i \in DOMAIN tiers'[t]
  PROVE  Waits(t, tiers'[t][i], Announces', Scrapes')
<1> DEFINE r == tiers[t][i]
           q == tiers'[t][i]
<1>1. /\ m \in Announce /\ net' = net \ {m}
      /\ tiers'[t] \in [DOMAIN tiers[t] -> TierType]
  BY DoneTiers DEF BusyOK
<1>2. i \in DOMAIN tiers[t]
  BY <1>1
<1>3. IF t = m.tor /\ r.key = m.key
      THEN IF err THEN q \in AnnounceFailed(r, m) ELSE q \in Announced(r, m)
      ELSE q = r
  BY <1>2, DoneTiers DEF BusyOK
<1>4. r \in TierType /\ r.cur \in DOMAIN r.urls /\ Waits(t, r, Announces, Scrapes)
  BY <1>2, TierFacts DEF BusyOK
<1>5. Announces' = Announces \ {m} /\ Scrapes' = Scrapes
  BY <1>1 DEF Announces, Scrapes
<1> HIDE DEF q, r
<1>6. CASE t = m.tor /\ r.key = m.key /\ err
  <2>1. ~q.announcing /\ ~q.scraping
    BY <1>1, <1>3, <1>4, <1>6, AnnounceFailedType
  <2> QED
    BY <2>1, IdleWaits DEF q
<1>7. CASE t = m.tor /\ r.key = m.key /\ ~err
  <2>1. ~q.announcing /\ q.urls = r.urls /\ q.cur = r.cur /\ q.scraping = r.scraping
    BY <1>1, <1>3, <1>4, <1>7, AnnouncedType
  <2>2. Waits(t, q, Announces', Scrapes')
    BY <1>4, <1>5, <2>1 DEF Waits, Current
  <2> QED
    BY <2>2 DEF q
<1>8. CASE ~(t = m.tor /\ r.key = m.key)
  <2>1. q = r
    BY <1>3, <1>8
  <2>2. Waits(t, q, Announces', Scrapes')
    BY <1>4, <1>5, <1>8, <2>1 DEF Waits
  <2> QED
    BY <2>2 DEF q
<1> QED
  BY <1>6, <1>7, <1>8

LEMMA ScrapeDoneBusy ==
  ASSUME BusyOK, NEW m \in net, NEW err \in BOOLEAN, ScrapeDone(m, err),
         NEW t \in Torrents, NEW i \in DOMAIN tiers'[t]
  PROVE  Waits(t, tiers'[t][i], Announces', Scrapes')
<1> DEFINE r == tiers[t][i]
           q == tiers'[t][i]
<1>1. /\ m \in Scrape /\ m \notin Announces /\ net' = net \ {m}
      /\ tiers'[t] \in [DOMAIN tiers[t] -> TierType]
  BY ScrapeDoneTiers DEF BusyOK
<1>2. i \in DOMAIN tiers[t]
  BY <1>1
<1>3. IF IsScraped(m, t, i) THEN \E when \in {"now", "later"} : q = Scraped(r, err, when) ELSE q = r
  BY <1>2, ScrapeDoneTiers DEF BusyOK
<1>4. r \in TierType /\ r.cur \in DOMAIN r.urls /\ Waits(t, r, Announces, Scrapes)
  BY <1>2, TierFacts DEF BusyOK
<1>5. Announces' = Announces /\ Scrapes' = Scrapes \ {m}
  BY <1>1 DEF Announces, Scrapes
<1>6. IsScraped(m, t, i) <=> t \in m.tors /\ Current(r) = m.url
  BY DEF IsScraped
<1> HIDE DEF q, r
<1>7. CASE IsScraped(m, t, i)
  <2>1. q.key = r.key /\ ~q.scraping /\ (q.announcing => r.announcing)
    BY <1>3, <1>4, <1>7, ScrapedType
  <2>2. Waits(t, q, Announces', Scrapes')
    BY <1>4, <1>5, <2>1 DEF Waits
  <2> QED
    BY <2>2 DEF q
<1>8. CASE ~IsScraped(m, t, i)
  <2>1. q = r
    BY <1>3, <1>8
  <2>2. Waits(t, q, Announces', Scrapes')
    BY <1>4, <1>5, <1>6, <1>8, <2>1 DEF Waits
  <2> QED
    BY <2>2 DEF q
<1> QED
  BY <1>7, <1>8

LEMMA StepBusy == BusyOK /\ [Next]_vars => BusyOK'
<1> SUFFICES ASSUME BusyOK, [Next]_vars PROVE BusyOK'
  OBVIOUS
<1>1. KeysOK /\ KeysOK'
  BY StepKeys DEF BusyOK
<1>2. CASE UNCHANGED vars
  BY <1>1, <1>2 DEF vars, BusyOK, Waits, Announces, Scrapes, Current
<1>3. CASE Next
  <2>1. \A t \in Torrents : \A i \in DOMAIN tiers'[t] : Waits(t, tiers'[t][i], Announces', Scrapes')
    BY <1>1, <1>3, NextCases, AsksBusy, AddTorrentBusy, ResetTorrentBusy, RemoveTorrentBusy,
       UpkeepBusy, AnnounceDoneBusy, ScrapeDoneBusy, TimeBusy
  <2> QED
    BY <1>1, <2>1 DEF BusyOK
<1> QED
  BY <1>2, <1>3

LEMMA InitBusy == Init => BusyOK
<1> SUFFICES ASSUME Init PROVE BusyOK
  OBVIOUS
<1>1. \A t \in Torrents : DOMAIN tiers[t] = {}
  BY DEF Init
<1> QED
  BY <1>1, InitKeys DEF BusyOK

\* The marks that keep a tier from being served are taken away again: what it
\* waits for is under way, and the answer will find it.
THEOREM MarksAreTakenAway == Spec => []BusyIsInFlight
BY InitBusy, StepBusy, BusyIsBusy, PTL DEF Spec

-----------------------------------------------------------------------------
(* The last words.                                                         *)

\* What LastWordIsRight says of one tier r of t, when these announces are under
\* way, these keys are excused, and t runs or not: it has at most one announce
\* under way, and only while it is marked.
Says(t, r, sent, but, runs) ==
  r.key \notin but =>
    /\ \A m, n \in sent : m.tor = t /\ m.key = r.key /\ n.tor = t /\ n.key = r.key => m = n
    /\ (\E m \in sent : m.tor = t /\ m.key = r.key) => r.announcing
    /\ IF r.events # <<>>
       THEN IF runs THEN r.events[Len(r.events)] # "stopped"
            ELSE r.events[Len(r.events)] = "stopped"
       ELSE IF runs THEN \E m \in sent : m.tor = t /\ m.key = r.key /\ m.event # "stopped"
            ELSE \A m \in sent : m.tor = t /\ m.key = r.key => m.event = "stopped"

Runs(t) == status[t] = "running"

\* The fourth invariant.
WordsOK ==
  /\ KeysOK
  /\ \A t \in Torrents : \A i \in DOMAIN tiers[t] :
       Says(t, tiers[t][i], Announces, excused, Runs(t))

LEMMA WordsAreRight == WordsOK => LastWordIsRight
<1> SUFFICES ASSUME WordsOK, NEW t \in Torrents, NEW i \in DOMAIN tiers[t],
                    tiers[t][i].key \notin excused
             PROVE  IF status[t] = "running"
                    THEN LastWord(t, tiers[t][i]) \in Events \ {"stopped"}
                    ELSE LastWord(t, tiers[t][i]) \in {"stopped", ""}
  BY DEF LastWordIsRight
<1> DEFINE r == tiers[t][i]
           mine == {m \in Announces : m.tor = t /\ m.key = r.key}
<1>1. r \in TierType /\ r.events \in Seq(Events)
  BY TierFacts DEF WordsOK, TierType
<1>2. Says(t, r, Announces, excused, Runs(t)) /\ r.key \notin excused
  BY DEF WordsOK
<1>3. \A m \in Announces : m.event \in Events
  BY DEF WordsOK, KeysOK, TypeOK, Announces, Announce, Scrape
<1>4. LastWord(t, r) = IF r.events # <<>> THEN r.events[Len(r.events)]
                       ELSE IF Words(t, r) = {} THEN "" ELSE CHOOSE e \in Words(t, r) : TRUE
  BY DEF LastWord
<1>5. Words(t, r) = {m.event : m \in mine} \cup {r.events[j] : j \in DOMAIN r.events}
  BY DEF Words
<1> HIDE DEF r
<1>6. CASE r.events # <<>>
  <2>1. r.events[Len(r.events)] \in Events
    BY <1>1, <1>6, LenProperties, ElementOfSeq, EmptySeq
  <2> QED
    BY <1>2, <1>4, <1>6, <2>1 DEF Says, Runs, r
<1>7. CASE r.events = <<>>
  <2>1. Words(t, r) = {m.event : m \in mine}
    BY <1>5, <1>7
  <2>2. CASE mine = {}
    <3>1. LastWord(t, r) = ""
      BY <1>4, <1>7, <2>1, <2>2
    <3>2. ~Runs(t)
      BY <1>2, <1>7, <2>2 DEF Says
    <3> QED
      BY <3>1, <3>2 DEF Runs, r
  <2>3. CASE mine # {}
    <3>1. PICK m \in mine : TRUE
      BY <2>3
    <3>2. Words(t, r) = {m.event}
      BY <1>2, <2>1, <3>1 DEF Says
    <3>3. LastWord(t, r) = m.event
      BY <1>4, <1>7, <3>2
    <3>4. m.event \in Events
      BY <1>3
    <3>5. IF Runs(t) THEN m.event # "stopped" ELSE m.event = "stopped"
      BY <1>2, <1>7, <3>1 DEF Says
    <3> QED
      BY <3>3, <3>4, <3>5 DEF Runs, r
  <2> QED
    BY <2>2, <2>3
<1> QED
  BY <1>6, <1>7

\* A tier that has not changed its key, its mark or its queue says the same.
LEMMA SaysTheSame ==
  ASSUME NEW t, NEW r, NEW q, NEW sent, NEW but, NEW also, NEW runs \in BOOLEAN,
         Says(t, r, sent, but, runs), but \subseteq also,
         q.key = r.key, q.announcing = r.announcing, q.events = r.events
  PROVE  Says(t, q, sent, also, runs)
BY DEF Says

\* A tier that got an event says this one last.
LEMMA SaysTheEvent ==
  ASSUME NEW t, NEW r, NEW q, NEW sent, NEW but, NEW also, NEW runs \in BOOLEAN, NEW now \in BOOLEAN,
         Says(t, r, sent, but, runs), but \subseteq also,
         q.key = r.key, q.announcing = r.announcing,
         q.events # <<>>, IF now THEN q.events[Len(q.events)] # "stopped"
                          ELSE q.events[Len(q.events)] = "stopped"
  PROVE  Says(t, q, sent, also, now)
BY DEF Says

\* The events that are asked for fit what the torrent does from then on.
LEMMA AsksFit ==
  ASSUME KeysOK, Asks
  PROVE  \E T \in SUBSET Torrents, e \in Events :
           /\ Pushed(T, e)
           /\ \A t \in Torrents :
                IF t \in T
                THEN (e = "stopped" <=> ~Runs(t)') \/ \A i \in DOMAIN tiers[t] : tiers[t][i].key \in excused'
                ELSE Runs(t)' = Runs(t)
           /\ excused \subseteq excused'
<1>1. ASSUME NEW x \in Torrents, NEW e \in Events, AddAnnounce(x, e), excused \subseteq excused',
             \A t \in Torrents \ {x} : Runs(t)' = Runs(t),
             (e = "stopped" <=> ~Runs(x)') \/ \A i \in DOMAIN tiers[x] : tiers[x][i].key \in excused'
      PROVE  \E T \in SUBSET Torrents, f \in Events :
               /\ Pushed(T, f)
               /\ \A t \in Torrents :
                    IF t \in T
                    THEN (f = "stopped" <=> ~Runs(t)') \/ \A i \in DOMAIN tiers[t] : tiers[t][i].key \in excused'
                    ELSE Runs(t)' = Runs(t)
               /\ excused \subseteq excused'
  <2>1. Pushed({x}, e)
    BY <1>1, AddAnnouncePushes
  <2> QED
    BY <1>1, <2>1
<1>2. status \in [Torrents -> {"absent", "stopped", "running"}]
  BY DEF KeysOK, TypeOK
<1>3. ASSUME NEW x \in Torrents, StartTorrent(x)
      PROVE  /\ AddAnnounce(x, "started") /\ excused' = excused /\ Runs(x)'
             /\ \A t \in Torrents \ {x} : Runs(t)' = Runs(t)
  BY <1>2, <1>3 DEF StartTorrent, Runs
<1>4. ASSUME NEW x \in Torrents, StopTorrent(x)
      PROVE  /\ AddAnnounce(x, "stopped") /\ excused' = excused /\ ~Runs(x)'
             /\ \A t \in Torrents \ {x} : Runs(t)' = Runs(t)
  BY <1>2, <1>4 DEF StopTorrent, Runs
<1>5. ASSUME NEW x \in Torrents, ManualAnnounce(x)
      PROVE  /\ AddAnnounce(x, "none") /\ excused' = excused /\ Runs(x)'
             /\ \A t \in Torrents : Runs(t)' = Runs(t)
  BY <1>5 DEF ManualAnnounce, Runs
<1>6. ASSUME NEW x \in Torrents, CompleteTorrent(x)
      PROVE  /\ AddAnnounce(x, "completed") /\ excused \subseteq excused'
             /\ Runs(x)' \/ \A i \in DOMAIN tiers[x] : tiers[x][i].key \in excused'
             /\ \A t \in Torrents : Runs(t)' = Runs(t)
  BY <1>6 DEF CompleteTorrent, Runs
<1>7. ASSUME ChangeMyPort
      PROVE  /\ Pushed({t \in Torrents : Runs(t)}, "started") /\ excused' = excused
             /\ \A t \in Torrents : Runs(t)' = Runs(t)
  BY <1>7 DEF ChangeMyPort, Pushed, Runs
<1>8. \A e \in {"started", "completed", "stopped", "none"} : e \in Events
  BY DEF Events
<1>9. CASE \E x \in Torrents : StartTorrent(x)
  BY <1>1, <1>3, <1>8, <1>9
<1>10. CASE \E x \in Torrents : StopTorrent(x)
  BY <1>1, <1>4, <1>8, <1>10
<1>11. CASE \E x \in Torrents : ManualAnnounce(x)
  BY <1>1, <1>5, <1>8, <1>11
<1>12. CASE \E x \in Torrents : CompleteTorrent(x)
  BY <1>1, <1>6, <1>8, <1>12
<1>13. CASE ChangeMyPort
  <2>1. \A t \in Torrents : IF t \in {x \in Torrents : Runs(x)} THEN ("started" = "stopped" <=> ~Runs(t)')
                            ELSE Runs(t)' = Runs(t)
    BY <1>7, <1>13
  <2> QED
    BY <1>7, <1>8, <1>13, <2>1
<1> QED
  BY <1>9, <1>10, <1>11, <1>12, <1>13 DEF Asks

LEMMA AsksWords ==
  ASSUME WordsOK, Asks, NEW t \in Torrents, NEW i \in DOMAIN tiers'[t]
  PROVE  Says(t, tiers'[t][i], Announces', excused', Runs(t)')
<1> DEFINE r == tiers[t][i]
           q == tiers'[t][i]
<1>1. PICK T \in SUBSET Torrents, e \in Events :
        /\ Pushed(T, e)
        /\ IF t \in T
           THEN (e = "stopped" <=> ~Runs(t)') \/ \A j \in DOMAIN tiers[t] : tiers[t][j].key \in excused'
           ELSE Runs(t)' = Runs(t)
        /\ excused \subseteq excused'
  BY AsksFit DEF WordsOK
<1>2. UNCHANGED <<nextKey, slots, stops, net>> /\ Announces' = Announces
  BY AsksPush DEF WordsOK, Announces
<1>3. DOMAIN tiers'[t] = DOMAIN tiers[t]
  BY <1>1, <1>2, PushedTiers DEF WordsOK
<1>4. q = IF t \in T THEN Push(r, e, "now") ELSE r
  BY <1>1, <1>3 DEF Pushed
<1>5. r \in TierType /\ Says(t, r, Announces, excused, Runs(t)) /\ "now" \in Times
  BY <1>3, TierFacts DEF WordsOK, Times
<1>6. Runs(t) \in BOOLEAN /\ Runs(t)' \in BOOLEAN
  BY DEF Runs
<1>7. t \in T => (e = "stopped" <=> ~Runs(t)') \/ r.key \in excused'
  BY <1>1, <1>3
<1> HIDE DEF q, r
<1>8. CASE t \in T
  <2>1. /\ q.key = r.key /\ q.announcing = r.announcing
        /\ q.events # <<>> /\ q.events[Len(q.events)] = e
    BY <1>4, <1>5, <1>8, PushType
  <2>2. CASE r.key \in excused'
    BY <2>1, <2>2 DEF Says, q
  <2>3. CASE e = "stopped" <=> ~Runs(t)'
    <3>1. IF Runs(t)' THEN q.events[Len(q.events)] # "stopped" ELSE q.events[Len(q.events)] = "stopped"
      BY <2>1, <2>3
    <3>2. Says(t, q, Announces, excused', Runs(t)')
      BY <1>1, <1>5, <1>6, <2>1, <3>1, SaysTheEvent
    <3> QED
      BY <1>2, <3>2 DEF q
  <2> QED
    BY <1>7, <1>8, <2>2, <2>3
<1>9. CASE t \notin T
  <2>1. Says(t, q, Announces, excused', Runs(t))
    BY <1>1, <1>4, <1>5, <1>6, <1>9, SaysTheSame
  <2> QED
    BY <1>1, <1>2, <1>9, <2>1 DEF q
<1> QED
  BY <1>8, <1>9

\* A tier with a new key, for which no announce is under way.
LEMMA NewWords ==
  ASSUME NEW t, NEW q, NEW sent, NEW but, NEW runs \in BOOLEAN,
         \A m \in sent : m.key # q.key,
         IF runs THEN q.events # <<>> /\ q.events[Len(q.events)] = "started" ELSE q.events = <<>>
  PROVE  Says(t, q, sent, but, runs)
BY DEF Says

LEMMA AddTorrentWords ==
  ASSUME WordsOK, NEW x \in Torrents, NEW L \in Layouts, NEW when \in {"now", "later"},
         AddTorrent(x, L, when), NEW t \in Torrents, NEW i \in DOMAIN tiers'[t]
  PROVE  Says(t, tiers'[t][i], Announces', excused', Runs(t)')
<1>1. /\ tiers' = [tiers EXCEPT ![x] = NewTiers(L, when)] /\ CanMake(L)
      /\ status' = [status EXCEPT ![x] = "stopped"] /\ UNCHANGED <<net, excused>>
  BY DEF AddTorrent
<1>2. /\ tiers'[t] = IF t = x THEN NewTiers(L, when) ELSE tiers[t]
      /\ status'[t] = IF t = x THEN "stopped" ELSE status[t]
  BY <1>1 DEF WordsOK, KeysOK, TypeOK
<1>3. Announces' = Announces /\ \A m \in Announces : m.key < nextKey /\ m.key \in Nat
  BY <1>1 DEF Announces, WordsOK, KeysOK, TypeOK, Announce, Scrape, Keys
<1>4. CASE t = x
  <2>1. when \in Times /\ nextKey \in 1 .. MaxKey + 1 /\ nextKey \in Nat
    BY AnnouncerAssumption DEF Times, WordsOK, KeysOK, TypeOK
  <2>2. i \in DOMAIN NewTiers(L, when) /\ tiers'[t][i] = NewTiers(L, when)[i]
    BY <1>2, <1>4
  <2>3. tiers'[t][i].key = nextKey + i - 1 /\ tiers'[t][i].events = <<>> /\ i \in Nat /\ i >= 1
    BY <1>1, <2>1, <2>2, AnnouncerAssumption, NewTiersType
  <2>4. \A m \in Announces : m.key # tiers'[t][i].key
    BY <1>3, <2>1, <2>3
  <2>5. Runs(t)' \in BOOLEAN /\ ~Runs(t)'
    BY <1>2, <1>4 DEF Runs
  <2> QED
    BY <1>3, <2>3, <2>4, <2>5, NewWords
<1>5. CASE t # x
  <2>1. tiers'[t] = tiers[t] /\ Runs(t)' = Runs(t)
    BY <1>2, <1>5 DEF Runs
  <2>2. Says(t, tiers[t][i], Announces, excused, Runs(t))
    BY <2>1 DEF WordsOK
  <2> QED
    BY <1>1, <1>3, <2>1, <2>2
<1> QED
  BY <1>4, <1>5

LEMMA ResetTorrentWords ==
  ASSUME WordsOK, NEW x \in Torrents, NEW L \in Layouts, NEW when \in {"now", "later"},
         ResetTorrent(x, L, when), NEW t \in Torrents, NEW i \in DOMAIN tiers'[t]
  PROVE  Says(t, tiers'[t][i], Announces', excused', Runs(t)')
<1>1. /\ KeysOK /\ CanMake(L)
      /\ UNCHANGED <<status, slots, stops, net, excused>>
  BY ResetMakes DEF WordsOK
<1>2. PICK src : SourceOK(x, L, src) /\ tiers' = [tiers EXCEPT ![x] = NewList(x, L, when, src)]
  BY <1>1, ResetMakes
<1>3. tiers'[t] = IF t = x THEN NewList(x, L, when, src) ELSE tiers[t]
  BY <1>1, <1>2 DEF KeysOK, TypeOK
<1>4. /\ Announces' = Announces /\ Runs(t)' = Runs(t) /\ Runs(t) \in BOOLEAN
      /\ \A m \in Announces : m.key < nextKey /\ m.key \in Nat
  BY <1>1 DEF Announces, Runs, KeysOK, TypeOK, Announce, Scrape, Keys
<1>5. CASE t = x
  <2>1. i \in DOMAIN L /\ tiers'[t][i] = NewList(t, L, when, src)[i]
    BY <1>3, <1>5 DEF NewList
  <2>2. \/ /\ src[i] \in DOMAIN tiers[t]
           /\ tiers'[t][i].key = tiers[t][src[i]].key
           /\ tiers'[t][i].announcing = tiers[t][src[i]].announcing
           /\ tiers'[t][i].events = tiers[t][src[i]].events
        \/ /\ tiers'[t][i].key = nextKey + i - 1
           /\ IF status[t] = "running"
              THEN tiers'[t][i].events # <<>> /\ tiers'[t][i].events[Len(tiers'[t][i].events)] = "started"
              ELSE tiers'[t][i].events = <<>>
    BY <1>1, <1>2, <1>5, <2>1, NewListTier
  <2>3. CASE /\ src[i] \in DOMAIN tiers[t]
             /\ tiers'[t][i].key = tiers[t][src[i]].key
             /\ tiers'[t][i].announcing = tiers[t][src[i]].announcing
             /\ tiers'[t][i].events = tiers[t][src[i]].events
    <3>1. Says(t, tiers[t][src[i]], Announces, excused, Runs(t))
      BY <2>3 DEF WordsOK
    <3>2. Says(t, tiers'[t][i], Announces, excused, Runs(t))
      BY <1>4, <2>3, <3>1, SaysTheSame
    <3> QED
      BY <1>1, <1>4, <3>2
  <2>4. CASE /\ tiers'[t][i].key = nextKey + i - 1
             /\ IF status[t] = "running"
                THEN tiers'[t][i].events # <<>> /\ tiers'[t][i].events[Len(tiers'[t][i].events)] = "started"
                ELSE tiers'[t][i].events = <<>>
    <3>1. nextKey \in Nat /\ i \in Nat /\ i >= 1
      <4>1. L \in Seq(Seq(Urls))
        BY AnnouncerAssumption DEF AnnouncerAssumption
      <4> QED
        BY <1>1, <2>1, <4>1, LenProperties DEF KeysOK, TypeOK
    <3>2. \A m \in Announces : m.key # tiers'[t][i].key
      BY <1>4, <2>4, <3>1
    <3>3. Says(t, tiers'[t][i], Announces, excused, Runs(t))
      BY <1>4, <2>4, <3>2, NewWords DEF Runs
    <3> QED
      BY <1>1, <1>4, <3>3
  <2> QED
    BY <2>2, <2>3, <2>4
<1>6. CASE t # x
  <2>1. tiers'[t] = tiers[t]
    BY <1>3, <1>6
  <2>2. Says(t, tiers[t][i], Announces, excused, Runs(t))
    BY <2>1 DEF WordsOK
  <2> QED
    BY <1>1, <1>4, <2>1, <2>2
<1> QED
  BY <1>5, <1>6

LEMMA RemoveTorrentWords ==
  ASSUME WordsOK, NEW x \in Torrents, RemoveTorrent(x), NEW t \in Torrents, NEW i \in DOMAIN tiers'[t]
  PROVE  Says(t, tiers'[t][i], Announces', excused', Runs(t)')
<1>1. /\ tiers' = [tiers EXCEPT ![x] = <<>>] /\ UNCHANGED <<net, excused>>
      /\ status' = [status EXCEPT ![x] = "absent"]
  BY DEF RemoveTorrent
<1>2. /\ tiers'[t] = IF t = x THEN <<>> ELSE tiers[t]
      /\ status'[t] = IF t = x THEN "absent" ELSE status[t]
  BY <1>1 DEF WordsOK, KeysOK, TypeOK
<1>3. t # x
  BY <1>2
<1>4. tiers'[t] = tiers[t] /\ Runs(t)' = Runs(t) /\ Announces' = Announces /\ excused' = excused
  BY <1>1, <1>2, <1>3 DEF Runs, Announces
<1>5. Says(t, tiers[t][i], Announces, excused, Runs(t))
  BY <1>4 DEF WordsOK
<1> QED
  BY <1>4, <1>5

LEMMA TimeWords ==
  ASSUME WordsOK, NEW x \in Torrents, NEW j, AnnounceTime(x, j) \/ ScrapeDue(x, j),
         NEW t \in Torrents, NEW i \in DOMAIN tiers'[t]
  PROVE  Says(t, tiers'[t][i], Announces', excused', Runs(t)')
<1>1. /\ UNCHANGED <<status, net, excused>> /\ tiers'[t] \in [DOMAIN tiers[t] -> TierType]
  BY TimeTiers DEF WordsOK
<1>2. i \in DOMAIN tiers[t]
  BY <1>1
<1>3. /\ tiers'[t][i].key = tiers[t][i].key /\ tiers'[t][i].events = tiers[t][i].events
      /\ tiers'[t][i].announcing = tiers[t][i].announcing
  BY <1>2, TimeTiers DEF WordsOK
<1>4. Announces' = Announces /\ Runs(t)' = Runs(t) /\ Runs(t) \in BOOLEAN
  BY <1>1 DEF Announces, Runs
<1>5. Says(t, tiers[t][i], Announces, excused, Runs(t))
  BY <1>2 DEF WordsOK
<1>6. Says(t, tiers'[t][i], Announces, excused, Runs(t))
  BY <1>3, <1>4, <1>5, SaysTheSame
<1> QED
  BY <1>1, <1>4, <1>6

\* The first event of a queue is sent: the last is in the rest, or was sent.
LEMMA TailEnds ==
  ASSUME NEW S, NEW q \in Seq(S), q # <<>>
  PROVE  /\ Tail(q) # <<>> => Tail(q)[Len(Tail(q))] = q[Len(q)]
         /\ Tail(q) = <<>> => Head(q) = q[Len(q)]
<1> DEFINE p == Tail(q)
<1>1. Len(q) \in Nat /\ Len(q) >= 1
  BY EmptySeq, LenProperties
<1>2. /\ p \in Seq(S) /\ Len(p) = Len(q) - 1 /\ Head(q) = q[1]
      /\ \A k \in 1 .. Len(p) : p[k] = q[k + 1]
  BY HeadTailProperties
<1> HIDE DEF p
<1>3. p = <<>> <=> Len(p) = 0
  BY <1>2, EmptySeq
<1>4. p # <<>> => p[Len(p)] = q[Len(q)]
  BY <1>1, <1>2, <1>3
<1>5. p = <<>> => Head(q) = q[Len(q)]
  BY <1>1, <1>2, <1>3
<1> QED
  BY <1>4, <1>5 DEF p

LEMMA UpkeepWords ==
  ASSUME WordsOK, Upkeep, NEW t \in Torrents, NEW i \in DOMAIN tiers'[t]
  PROVE  Says(t, tiers'[t][i], Announces', excused', Runs(t)')
<1>1. KeysOK /\ nextKey' = nextKey /\ excused' = excused /\ Runs(t)' = Runs(t) /\ Runs(t) \in BOOLEAN
  BY UpkeepServes DEF WordsOK, Runs
<1>2. CASE UNCHANGED <<tiers, slots, net>>
  <2>1. Says(t, tiers[t][i], Announces, excused, Runs(t))
    BY <1>2 DEF WordsOK
  <2>2. Announces' = Announces /\ tiers' = tiers
    BY <1>2 DEF Announces
  <2> QED
    BY <1>1, <2>1, <2>2
<1>3. ASSUME NEW A \in SUBSET ToAnnounce, NEW W \in SUBSET Askable,
             NEW s \in Ticks, IsFree(s), AnnounceMore(A, W, s)
      PROVE  Says(t, tiers'[t][i], Announces', excused', Runs(t)')
  <2> DEFINE r == tiers[t][i]
             q == tiers'[t][i]
             a == AnnounceOf(<<t, i>>, s)
  <2>1. Announces' = Announces \cup Sent(A, s)
    BY <1>1, <1>3, UpkeepAnnounces
  <2>2. i \in DOMAIN tiers[t] /\ q = Served(t, i, A, W)
    BY <1>1, <1>3, MoreTiers
  <2>3. r \in TierType /\ Says(t, r, Announces, excused, Runs(t))
    BY <2>2, TierFacts DEF WordsOK
  <2>4. q.key = r.key
    BY <1>1, <2>2, ServedTier
  <2>5. <<t, i>> \in A => /\ r.events # <<>> /\ ~r.announcing /\ q.announcing
                          /\ q.events = Tail(r.events)
    BY <1>1, <2>2, ServedMarks
  <2>6. <<t, i>> \notin A => q.announcing = r.announcing /\ q.events = r.events
    BY <1>1, <2>2, ServedMarks
  <2>7. ASSUME NEW p \in A, AnnounceOf(p, s).tor = t, AnnounceOf(p, s).key = r.key
        PROVE  p = <<t, i>>
    <3>1. /\ p = <<p[1], p[2]>> /\ p[2] \in DOMAIN tiers[p[1]] /\ p[1] = t
          /\ tiers[p[1]][p[2]].key = r.key
      BY <1>1, <2>7, SentAnnounces
    <3>2. p[2] = i
      BY <1>1, <2>2, <3>1 DEF KeysOK, ListOK
    <3> QED
      BY <3>1, <3>2
  <2>8. <<t, i>> \in A => a.tor = t /\ a.key = r.key /\ a.event = Head(r.events)
    BY <1>1, SentAnnounces
  <2> HIDE DEF q, r, a
  <2>9. CASE <<t, i>> \in A
    <3>1. SUFFICES ASSUME r.key \notin excused
                   PROVE  Says(t, q, Announces', excused, Runs(t))
      BY <1>1, <2>4 DEF Says, q
    <3>2. \A m \in Announces : ~(m.tor = t /\ m.key = r.key)
      BY <2>3, <2>5, <2>9, <3>1 DEF Says
    <3>3. a \in Announces' /\ \A m \in Announces' : m.tor = t /\ m.key = r.key => m = a
      BY <2>1, <2>7, <2>9, <3>2 DEF Sent, a
    <3>4. r.events \in Seq(Events)
      BY <2>3 DEF TierType
    <3>5. IF Runs(t) THEN r.events[Len(r.events)] # "stopped" ELSE r.events[Len(r.events)] = "stopped"
      BY <2>3, <2>5, <2>9, <3>1 DEF Says
    <3>6. CASE q.events # <<>>
      <4>1. q.events[Len(q.events)] = r.events[Len(r.events)]
        BY <2>5, <2>9, <3>4, <3>6, TailEnds
      <4> QED
        BY <2>4, <2>5, <2>9, <3>3, <3>5, <3>6, <4>1 DEF Says
    <3>7. CASE q.events = <<>>
      <4>1. a.event = r.events[Len(r.events)]
        BY <2>5, <2>8, <2>9, <3>4, <3>7, TailEnds
      <4> QED
        BY <2>4, <2>5, <2>8, <2>9, <3>3, <3>5, <3>7, <4>1 DEF Says
    <3> QED
      BY <3>6, <3>7
  <2>10. CASE <<t, i>> \notin A
    <3>1. \A m \in Announces' : m.tor = t /\ m.key = r.key => m \in Announces
      BY <2>1, <2>7, <2>10 DEF Sent
    <3>2. Announces \subseteq Announces'
      BY <2>1
    <3>3. Says(t, q, Announces', excused, Runs(t))
      BY <2>3, <2>4, <2>6, <2>10, <3>1, <3>2 DEF Says
    <3> QED
      BY <1>1, <3>3 DEF q
  <2> QED
    BY <2>9, <2>10
<1> QED
  BY <1>1, <1>2, <1>3, UpkeepServes DEF Askable

LEMMA AnnounceDoneWords ==
  ASSUME WordsOK, NEW m \in Announces, NEW err \in BOOLEAN, AnnounceDone(m, err),
         NEW t \in Torrents, NEW i \in DOMAIN tiers'[t]
  PROVE  Says(t, tiers'[t][i], Announces', excused', Runs(t)')
<1> DEFINE r == tiers[t][i]
           q == tiers'[t][i]
<1>1. /\ m \in Announce /\ net' = net \ {m} /\ status' = status /\ excused \subseteq excused'
      /\ tiers'[t] \in [DOMAIN tiers[t] -> TierType]
  BY DoneTiers DEF WordsOK
<1>2. i \in DOMAIN tiers[t]
  BY <1>1
<1>3. IF t = m.tor /\ r.key = m.key
      THEN IF err THEN q \in AnnounceFailed(r, m) /\ m.key \in excused' ELSE q \in Announced(r, m)
      ELSE q = r
  BY <1>2, DoneTiers DEF WordsOK
<1>4. /\ r \in TierType /\ r.cur \in DOMAIN r.urls
      /\ Says(t, r, Announces, excused, Runs(t))
  BY <1>2, TierFacts DEF WordsOK
<1>5. Announces' = Announces \ {m} /\ Runs(t)' = Runs(t) /\ Runs(t) \in BOOLEAN
  BY <1>1 DEF Announces, Runs
<1> HIDE DEF q, r
<1>6. CASE t = m.tor /\ r.key = m.key /\ err
  <2>1. q.key = r.key /\ r.key \in excused'
    BY <1>1, <1>3, <1>4, <1>6, AnnounceFailedType
  <2> QED
    BY <2>1 DEF Says, q
<1>7. CASE t = m.tor /\ r.key = m.key /\ ~err
  <2>1. /\ q.key = r.key /\ ~q.announcing
        /\ m.event = "stopped" \/ r.events # <<>> => q.events = r.events
        /\ m.event # "stopped" /\ r.events = <<>> =>
             q.events # <<>> /\ q.events[Len(q.events)] = "none"
    BY <1>1, <1>3, <1>4, <1>7, AnnouncedType
  <2>2. SUFFICES ASSUME r.key \notin excused
                 PROVE  Says(t, q, Announces', excused', Runs(t)')
    BY <1>1, <2>1 DEF Says, q
  <2>3. \A n \in Announces' : ~(n.tor = t /\ n.key = r.key)
    BY <1>4, <1>5, <1>7, <2>2 DEF Says
  <2>4. IF r.events # <<>>
        THEN IF Runs(t) THEN r.events[Len(r.events)] # "stopped"
             ELSE r.events[Len(r.events)] = "stopped"
        ELSE IF Runs(t) THEN m.event # "stopped" ELSE m.event = "stopped"
    BY <1>4, <1>7, <2>2 DEF Says
  <2> QED
    BY <1>5, <2>1, <2>3, <2>4 DEF Says
<1>8. CASE ~(t = m.tor /\ r.key = m.key)
  <2>1. q = r
    BY <1>3, <1>8
  <2>2. Says(t, q, Announces', excused', Runs(t)')
    BY <1>1, <1>4, <1>5, <1>8, <2>1 DEF Says
  <2> QED
    BY <2>2 DEF q
<1> QED
  BY <1>6, <1>7, <1>8

LEMMA ScrapeDoneWords ==
  ASSUME WordsOK, NEW m \in net, NEW err \in BOOLEAN, ScrapeDone(m, err),
         NEW t \in Torrents, NEW i \in DOMAIN tiers'[t]
  PROVE  Says(t, tiers'[t][i], Announces', excused', Runs(t)')
<1> DEFINE r == tiers[t][i]
           q == tiers'[t][i]
<1>1. /\ m \notin Announces /\ net' = net \ {m} /\ status' = status /\ excused \subseteq excused'
      /\ tiers'[t] \in [DOMAIN tiers[t] -> TierType]
  BY ScrapeDoneTiers DEF WordsOK
<1>2. i \in DOMAIN tiers[t]
  BY <1>1
<1>3. /\ IF IsScraped(m, t, i) THEN \E when \in {"now", "later"} : q = Scraped(r, err, when) ELSE q = r
      /\ err /\ IsScraped(m, t, i) => r.key \in excused'
  BY <1>2, ScrapeDoneTiers DEF WordsOK
<1>4. /\ r \in TierType /\ r.cur \in DOMAIN r.urls
      /\ Says(t, r, Announces, excused, Runs(t))
  BY <1>2, TierFacts DEF WordsOK
<1>5. Announces' = Announces /\ Runs(t)' = Runs(t) /\ Runs(t) \in BOOLEAN
  BY <1>1 DEF Announces, Runs
<1> HIDE DEF q, r
<1>6. /\ q.key = r.key /\ q.events = r.events
      /\ ~(err /\ IsScraped(m, t, i)) => q.announcing = r.announcing
  BY <1>3, <1>4, ScrapedType
<1>7. CASE err /\ IsScraped(m, t, i)
  BY <1>3, <1>6, <1>7 DEF Says, q
<1>8. CASE ~(err /\ IsScraped(m, t, i))
  <2>1. Says(t, q, Announces, excused', Runs(t))
    BY <1>1, <1>4, <1>5, <1>6, <1>8, SaysTheSame
  <2> QED
    BY <1>5, <2>1 DEF q
<1> QED
  BY <1>7, <1>8

LEMMA StepWords == WordsOK /\ [Next]_vars => WordsOK'
<1> SUFFICES ASSUME WordsOK, [Next]_vars PROVE WordsOK'
  OBVIOUS
<1>1. KeysOK /\ KeysOK'
  BY StepKeys DEF WordsOK
<1>2. CASE UNCHANGED vars
  BY <1>1, <1>2 DEF vars, WordsOK, Announces, Runs
<1>3. CASE Next
  <2>1. \A t \in Torrents : \A i \in DOMAIN tiers'[t] :
          Says(t, tiers'[t][i], Announces', excused', Runs(t)')
    BY <1>1, <1>3, NextCases, AsksWords, AddTorrentWords, ResetTorrentWords, RemoveTorrentWords,
       UpkeepWords, AnnounceDoneWords, ScrapeDoneWords, TimeWords
  <2> QED
    BY <1>1, <2>1 DEF WordsOK
<1> QED
  BY <1>2, <1>3

LEMMA InitWords == Init => WordsOK
<1> SUFFICES ASSUME Init PROVE WordsOK
  OBVIOUS
<1>1. \A t \in Torrents : DOMAIN tiers[t] = {}
  BY DEF Init
<1> QED
  BY <1>1, InitKeys DEF WordsOK

\* The tracker's last word on a torrent is right while nothing fails: "stopped"
\* for one that was stopped, and something else for one that runs.
THEOREM LastWordsAreRight == Spec => []LastWordIsRight
BY InitWords, StepWords, WordsAreRight, PTL DEF Spec

-----------------------------------------------------------------------------
(* What RunningIsAnnounced rests on.                                       *)

\* What waits in the queue of a tier has a time to be announced at.
IsTimed(r) == r.events # <<>> => r.due # "never"

\* The fifth invariant.
TimedOK ==
  /\ KeysOK
  /\ \A t \in Torrents : \A i \in DOMAIN tiers[t] : IsTimed(tiers[t][i])

\* As long as nothing fails there, a tier of a torrent that runs has an
\* announce under way, or one in its queue that is due or will be.
RunningHasWork ==
  \A t \in Torrents : \A i \in DOMAIN tiers[t] :
    LET r == tiers[t][i]
    IN status[t] = "running" /\ r.key \notin excused =>
         \/ \E m \in Announces : m.tor = t /\ m.key = r.key
         \/ r.events # <<>> /\ r.due # "never"

LEMMA AsksTimed ==
  ASSUME TimedOK, Asks, NEW t \in Torrents, NEW i \in DOMAIN tiers'[t]
  PROVE  IsTimed(tiers'[t][i])
<1> DEFINE r == tiers[t][i]
           q == tiers'[t][i]
<1>1. PICK T \in SUBSET Torrents, e \in Events : Pushed(T, e)
  BY AsksPush DEF TimedOK
<1>2. nextKey' = nextKey
  BY AsksPush DEF TimedOK
<1>3. DOMAIN tiers'[t] = DOMAIN tiers[t]
  BY <1>1, <1>2, PushedTiers DEF TimedOK
<1>4. q = IF t \in T THEN Push(r, e, "now") ELSE r
  BY <1>1, <1>3 DEF Pushed
<1>5. r \in TierType /\ IsTimed(r) /\ "now" \in Times
  BY <1>3, TierFacts DEF TimedOK, Times
<1> HIDE DEF q, r
<1>6. IsTimed(q)
  BY <1>4, <1>5, PushType DEF IsTimed
<1> QED
  BY <1>6 DEF q

LEMMA AddTorrentTimed ==
  ASSUME TimedOK, NEW x \in Torrents, NEW L \in Layouts, NEW when \in {"now", "later"},
         AddTorrent(x, L, when), NEW t \in Torrents, NEW i \in DOMAIN tiers'[t]
  PROVE  IsTimed(tiers'[t][i])
<1>1. /\ tiers' = [tiers EXCEPT ![x] = NewTiers(L, when)] /\ CanMake(L)
      /\ when \in Times /\ nextKey \in 1 .. MaxKey + 1
  BY DEF AddTorrent, TimedOK, KeysOK, TypeOK, Times
<1>2. tiers'[t] = IF t = x THEN NewTiers(L, when) ELSE tiers[t]
  BY <1>1 DEF TimedOK, KeysOK, TypeOK
<1>3. \A j \in DOMAIN NewTiers(L, when) : NewTiers(L, when)[j].events = <<>>
  BY <1>1, AnnouncerAssumption, NewTiersType
<1> QED
  BY <1>2, <1>3 DEF TimedOK, IsTimed

LEMMA ResetTorrentTimed ==
  ASSUME TimedOK, NEW x \in Torrents, NEW L \in Layouts, NEW when \in {"now", "later"},
         ResetTorrent(x, L, when), NEW t \in Torrents, NEW i \in DOMAIN tiers'[t]
  PROVE  IsTimed(tiers'[t][i])
<1>1. KeysOK /\ CanMake(L)
  BY ResetMakes DEF TimedOK
<1>2. PICK src : SourceOK(x, L, src) /\ tiers' = [tiers EXCEPT ![x] = NewList(x, L, when, src)]
  BY <1>1, ResetMakes
<1>3. tiers'[t] = IF t = x THEN NewList(x, L, when, src) ELSE tiers[t]
  BY <1>1, <1>2 DEF KeysOK, TypeOK
<1>4. CASE t = x
  <2>1. i \in DOMAIN L /\ tiers'[t][i] = NewList(t, L, when, src)[i]
    BY <1>3, <1>4 DEF NewList
  <2>2. \/ /\ src[i] \in DOMAIN tiers[t]
           /\ tiers'[t][i].events = tiers[t][src[i]].events
           /\ tiers'[t][i].due = tiers[t][src[i]].due
        \/ tiers'[t][i].due = "now"
        \/ tiers'[t][i].events = <<>>
    BY <1>1, <1>2, <1>4, <2>1, NewListTier
  <2> QED
    BY <2>2 DEF TimedOK, IsTimed
<1>5. CASE t # x
  BY <1>3, <1>5 DEF TimedOK
<1> QED
  BY <1>4, <1>5

LEMMA RemoveTorrentTimed ==
  ASSUME TimedOK, NEW x \in Torrents, RemoveTorrent(x), NEW t \in Torrents, NEW i \in DOMAIN tiers'[t]
  PROVE  IsTimed(tiers'[t][i])
<1>1. tiers' = [tiers EXCEPT ![x] = <<>>]
  BY DEF RemoveTorrent
<1>2. tiers'[t] = IF t = x THEN <<>> ELSE tiers[t]
  BY <1>1 DEF TimedOK, KeysOK, TypeOK
<1> QED
  BY <1>2 DEF TimedOK

LEMMA UpkeepTimed ==
  ASSUME TimedOK, Upkeep, NEW t \in Torrents, NEW i \in DOMAIN tiers'[t]
  PROVE  IsTimed(tiers'[t][i])
<1>1. nextKey' = nextKey /\ KeysOK
  BY UpkeepServes DEF TimedOK
<1>2. CASE UNCHANGED tiers
  BY <1>2 DEF TimedOK
<1>3. ASSUME NEW A \in SUBSET ToAnnounce, NEW W, NEW s, AnnounceMore(A, W, s)
      PROVE  IsTimed(tiers'[t][i])
  <2>1. i \in DOMAIN tiers[t] /\ tiers'[t][i] = Served(t, i, A, W)
    BY <1>1, <1>3, MoreTiers
  <2>2. IsTimed(tiers[t][i])
    BY <2>1 DEF TimedOK
  <2>3. Served(t, i, A, W).due = tiers[t][i].due
    BY <1>1, <2>1, ServedTier
  <2>4. Served(t, i, A, W).events # <<>> => tiers[t][i].events # <<>>
    BY <1>1, <2>1, ServedMarks
  <2> QED
    BY <2>1, <2>2, <2>3, <2>4 DEF IsTimed
<1> QED
  BY <1>1, <1>2, <1>3, UpkeepServes

LEMMA AnnounceDoneTimed ==
  ASSUME TimedOK, NEW m \in Announces, NEW err \in BOOLEAN, AnnounceDone(m, err),
         NEW t \in Torrents, NEW i \in DOMAIN tiers'[t]
  PROVE  IsTimed(tiers'[t][i])
<1>1. m \in Announce /\ tiers'[t] \in [DOMAIN tiers[t] -> TierType] /\ KeysOK
  BY DoneTiers DEF TimedOK
<1>2. i \in DOMAIN tiers[t]
  BY <1>1
<1>3. \/ tiers'[t][i] \in AnnounceFailed(tiers[t][i], m)
      \/ tiers'[t][i] \in Announced(tiers[t][i], m)
      \/ tiers'[t][i] = tiers[t][i]
  BY <1>1, <1>2, DoneTiers
<1>4. /\ tiers[t][i] \in TierType /\ tiers[t][i].cur \in DOMAIN tiers[t][i].urls
      /\ IsTimed(tiers[t][i])
  BY <1>1, <1>2, TierFacts DEF TimedOK
<1>5. CASE tiers'[t][i] \in AnnounceFailed(tiers[t][i], m)
  BY <1>1, <1>4, <1>5, AnnounceFailedType DEF IsTimed
<1>6. CASE tiers'[t][i] \in Announced(tiers[t][i], m)
  BY <1>1, <1>4, <1>6, AnnouncedType DEF IsTimed
<1> QED
  BY <1>3, <1>4, <1>5, <1>6

LEMMA ScrapeDoneTimed ==
  ASSUME TimedOK, NEW m \in net, NEW err \in BOOLEAN, ScrapeDone(m, err),
         NEW t \in Torrents, NEW i \in DOMAIN tiers'[t]
  PROVE  IsTimed(tiers'[t][i])
<1>1. tiers'[t] \in [DOMAIN tiers[t] -> TierType] /\ KeysOK
  BY ScrapeDoneTiers DEF TimedOK
<1>2. i \in DOMAIN tiers[t]
  BY <1>1
<1>3. \/ \E when \in {"now", "later"} : tiers'[t][i] = Scraped(tiers[t][i], err, when)
      \/ tiers'[t][i] = tiers[t][i]
  BY <1>1, <1>2, ScrapeDoneTiers
<1>4. /\ tiers[t][i] \in TierType /\ tiers[t][i].cur \in DOMAIN tiers[t][i].urls
      /\ IsTimed(tiers[t][i])
  BY <1>1, <1>2, TierFacts DEF TimedOK
<1> QED
  BY <1>3, <1>4, ScrapedType DEF IsTimed

LEMMA TimeTimed ==
  ASSUME TimedOK, NEW x \in Torrents, NEW j, AnnounceTime(x, j) \/ ScrapeDue(x, j),
         NEW t \in Torrents, NEW i \in DOMAIN tiers'[t]
  PROVE  IsTimed(tiers'[t][i])
<1>1. tiers'[t] \in [DOMAIN tiers[t] -> TierType] /\ KeysOK
  BY TimeTiers DEF TimedOK
<1>2. i \in DOMAIN tiers[t]
  BY <1>1
<1>3. tiers'[t][i].events = tiers[t][i].events /\ tiers'[t][i].due \in {tiers[t][i].due, "now"}
  BY <1>1, <1>2, TimeTiers
<1> QED
  BY <1>2, <1>3 DEF TimedOK, IsTimed

LEMMA StepTimed == TimedOK /\ [Next]_vars => TimedOK'
<1> SUFFICES ASSUME TimedOK, [Next]_vars PROVE TimedOK'
  OBVIOUS
<1>1. KeysOK /\ KeysOK'
  BY StepKeys DEF TimedOK
<1>2. CASE UNCHANGED vars
  BY <1>1, <1>2 DEF vars, TimedOK
<1>3. CASE Next
  <2>1. \A t \in Torrents : \A i \in DOMAIN tiers'[t] : IsTimed(tiers'[t][i])
    BY <1>1, <1>3, NextCases, AsksTimed, AddTorrentTimed, ResetTorrentTimed, RemoveTorrentTimed,
       UpkeepTimed, AnnounceDoneTimed, ScrapeDoneTimed, TimeTimed
  <2> QED
    BY <1>1, <2>1 DEF TimedOK
<1> QED
  BY <1>2, <1>3

LEMMA WorkIsTimed == WordsOK /\ TimedOK => RunningHasWork
<1> SUFFICES ASSUME WordsOK, TimedOK, NEW t \in Torrents, NEW i \in DOMAIN tiers[t],
                    status[t] = "running", tiers[t][i].key \notin excused
             PROVE  \/ \E m \in Announces : m.tor = t /\ m.key = tiers[t][i].key
                    \/ tiers[t][i].events # <<>> /\ tiers[t][i].due # "never"
  BY DEF RunningHasWork
<1>1. Says(t, tiers[t][i], Announces, excused, Runs(t)) /\ IsTimed(tiers[t][i]) /\ Runs(t)
  BY DEF WordsOK, TimedOK, Runs
<1> QED
  BY <1>1 DEF Says, IsTimed

\* The periodic announce that follows each answer is not forgotten, whatever
\* torrents and trackers do meanwhile: what a running torrent will announce is
\* under way, or has a time (on_announce_done, tier_announce_event_push).
THEOREM RunningHasWorkHolds == Spec => []RunningHasWork
<1>1. Init => TimedOK
  <2> SUFFICES ASSUME Init PROVE TimedOK
    OBVIOUS
  <2>1. \A t \in Torrents : DOMAIN tiers[t] = {}
    BY DEF Init
  <2> QED
    BY <2>1, InitKeys DEF TimedOK
<1> QED
  BY <1>1, InitWords, StepWords, StepTimed, WorkIsTimed, PTL DEF Spec
=============================================================================
