------------------------- MODULE KioskRotationProofs -------------------------
(* Proofs about the URL rotation, for any number of slots and any numbers of *)
(* commands, failing requests and exits of the browser.                      *)
EXTENDS KioskRotation, FiniteSetTheorems, TLAPS

URLs == Urls \cup {None}

-----------------------------------------------------------------------------
(* Sequences.                                                              *)

LEMMA Bounded ==
    ASSUME NEW S, NEW n \in Nat, NEW s
    PROVE  s \in BoundedSeq(S, n) <=> s \in Seq(S) /\ Len(s) <= n
BY DEF BoundedSeq, SeqOf

LEMMA Empty ==
    ASSUME NEW S, NEW n \in Nat
    PROVE  <<>> \in Seq(S) /\ <<>> \in BoundedSeq(S, n)
<1>1. <<>> \in Seq(S)
  OBVIOUS
<1>2. Len(<<>>) <= n
  OBVIOUS
<1>3. QED
  BY <1>1, <1>2, Bounded

\* Python's seq[i], with an index taken modulo the length or checked to be in range.
LEMMA Elements ==
    ASSUME NEW S, NEW s \in Seq(S), s # <<>>, NEW i \in Int
    PROVE  /\ i % Len(s) \in 0..(Len(s) - 1) /\ (i % Len(s)) + 1 \in DOMAIN s
           /\ At(s, i) \in S /\ At(s, i) \in ToSet(s)
<1>1. Len(s) \in Nat \ {0} /\ DOMAIN s = 1..Len(s)
  OBVIOUS
<1>2. \A n \in Nat \ {0} : i % n \in 0..(n - 1)
  OBVIOUS
<1>3. i % Len(s) \in 0..(Len(s) - 1)
  BY <1>1, <1>2
<1>4. (i % Len(s)) + 1 \in 1..Len(s)
  BY <1>1, <1>3
<1>5. QED
  BY <1>1, <1>3, <1>4 DEF At, ToSet

-----------------------------------------------------------------------------
(* The slots that have a URL.                                              *)

\* Places are given out without gaps: each slot with a URL has one of its own, and
\* every place up to their number is taken.
LEMMA Places ==
    ASSUME slots \in [Slots -> URLs]
    PROVE  LET active == {i \in Slots : slots[i] # None}
           IN  /\ Cardinality(active) \in 0..NSlots
               /\ \A i \in active : Place(i) \in 1..Cardinality(active)
               /\ \A k \in 1..Cardinality(active) : \E i \in active : Place(i) = k
<1> DEFINE active == {i \in Slots : slots[i] # None}
           upto(i) == {j \in 1..i : slots[j] # None}
<1>1. NSlots \in Nat \ {0}
  BY RotationAssumption
<1>2. IsFiniteSet(Slots) /\ Cardinality(Slots) = NSlots
  BY <1>1, FS_Interval DEF Slots
<1>3. IsFiniteSet(active) /\ Cardinality(active) \in Nat /\ Cardinality(active) <= NSlots
  BY <1>2, FS_Subset, FS_CardinalityType
<1>4. ASSUME NEW i \in active
      PROVE  /\ upto(i) \subseteq active /\ i \in upto(i) /\ IsFiniteSet(upto(i))
             /\ Place(i) = Cardinality(upto(i)) /\ Place(i) \in 1..Cardinality(active)
  <2>1. i \in Nat /\ 1 <= i /\ i <= NSlots /\ slots[i] # None
    BY <1>1 DEF Slots
  <2>2. upto(i) \subseteq active /\ i \in upto(i)
    BY <1>1, <2>1 DEF Slots
  <2>3. IsFiniteSet(upto(i)) /\ Cardinality(upto(i)) <= Cardinality(active)
    BY <1>3, <2>2, FS_Subset
  <2>4. Cardinality(upto(i)) \in Nat /\ Cardinality(upto(i)) # 0
    BY <2>2, <2>3, FS_CardinalityType, FS_EmptySet
  <2>5. QED
    BY <1>3, <2>2, <2>3, <2>4 DEF Place
<1>5. ASSUME NEW i \in active, NEW j \in active, Place(i) = Place(j)
      PROVE  ~(i < j)
  <2> SUFFICES ASSUME i < j PROVE FALSE
    OBVIOUS
  <2>1. i \in Int /\ j \in Int
    BY <1>1 DEF Slots
  <2>2. upto(i) \in SUBSET upto(j) /\ j \notin upto(i)
    BY <2>1
  <2>3. IsFiniteSet(upto(j)) /\ Cardinality(upto(j)) = Cardinality(upto(i)) /\ j \in upto(j)
    BY <1>4, <1>5
  <2>4. upto(j) = upto(i)
    BY <2>2, <2>3, FS_Subset
  <2>5. QED
    BY <2>2, <2>3, <2>4
<1> DEFINE n == Cardinality(active)
           place == [i \in active |-> Place(i)]
<1>6. place \in Injection(active, 1..n)
  <2>1. place \in [active -> 1..n]
    BY <1>4
  <2>2. ASSUME NEW i \in active, NEW j \in active, place[i] = place[j] PROVE i = j
    <3>1. i \in Int /\ j \in Int /\ ~(i < j) /\ ~(j < i)
      BY <1>1, <1>5, <2>2 DEF Slots
    <3>2. QED
      BY <3>1
  <2>3. QED
    BY <2>1, <2>2 DEF Injection, IsInjective
<1>7. IsFiniteSet(1..n) /\ Cardinality(1..n) = n
  BY <1>3, FS_Interval
<1>8. place \in Surjection(active, 1..n)
  BY <1>6, <1>7, FS_Injection
<1>9. \A k \in 1..n : \E i \in active : Place(i) = k
  BY <1>8 DEF Surjection
<1>10. Cardinality(active) \in 0..NSlots
  BY <1>1, <1>3
<1>11. \A i \in active : Place(i) \in 1..Cardinality(active)
  BY <1>4
<1>12. QED
  BY <1>9, <1>10, <1>11

LEMMA ActiveSlots ==
    ASSUME slots \in [Slots -> URLs]
    PROVE  active_slots \in Seq(Slots) /\ Len(active_slots) <= NSlots
<1> DEFINE active == {i \in Slots : slots[i] # None}
           n      == Cardinality(active)
<1>1. n \in 0..NSlots /\ NSlots \in Nat
  BY Places, RotationAssumption
<1>2. \A k \in 1..n : \E i \in active : Place(i) = k
  BY Places
<1>3. \A k \in 1..n : (CHOOSE i \in active : Place(i) = k) \in Slots
  BY <1>2
<1>4. active_slots \in [1..n -> Slots]
  BY <1>3 DEF active_slots
<1> HIDE DEF n
<1>5. QED
  BY <1>1, <1>4

-----------------------------------------------------------------------------
(* Types.                                                                  *)

\* The loop is at one of its steps.
Steps == {"flag", "make", "remove", "top", "check", "slots", "urls", "sync", "create", "list",
          "close", "mod", "index", "activate", "current", "show", "compare", "select", "reload",
          "seconds", "dwell", "advance", "pause", "dead"}

StateOK == /\ slots \in [Slots -> URLs] /\ rotation \in BOOLEAN /\ screen_on \in BOOLEAN
           /\ current_slot \in Int /\ flag \in BOOLEAN
           /\ disk \in [slots : [Slots -> URLs], rotation : BOOLEAN]
LocalsOK == /\ act \in BoundedSeq(Slots, NSlots) /\ urls \in BoundedSeq(URLs, NSlots)
            /\ read \in Int /\ tid \in Tabs /\ prev_id \in Tabs
            /\ new_ids \in Seq(Ids) /\ closing \subseteq Ids
TabsOK == tab_ids \in Seq(Ids) /\ tab_urls \in Seq(URLs) /\ Len(tab_ids) = Len(tab_urls)
BrowserOK == /\ DOMAIN pages \subseteq Ids /\ pages \in [DOMAIN pages -> URLs \cup {Blank}]
             /\ IF DOMAIN pages = {} THEN shown = None ELSE shown \in DOMAIN pages
CountsOK == /\ commands \in Nat /\ fails \in Nat /\ exits \in Nat
            /\ Within(commands, fails, exits)
PublishedOK == published \in [url : URLs, slot : 0..NSlots]

LEMMA Typed ==
    TypeOK <=> /\ StateOK /\ LocalsOK /\ TabsOK /\ BrowserOK /\ CountsOK /\ PublishedOK
               /\ pc \in Steps /\ wake \in BOOLEAN /\ net \in {"idle", "flag", "wake"}
<1>1. TypeOK => BrowserOK
  <2>1. Urls \cup {None, Blank} = URLs \cup {Blank}
    BY DEF URLs
  <2>2. QED
    BY <2>1 DEF TypeOK, BrowserOK
<1>2. BrowserOK => /\ DOMAIN pages \subseteq Ids
                   /\ pages \in [DOMAIN pages -> Urls \cup {None, Blank}]
                   /\ IF DOMAIN pages = {} THEN shown = None ELSE shown \in DOMAIN pages
                   /\ shown \in Tabs
  <2>1. Urls \cup {None, Blank} = URLs \cup {Blank}
    BY DEF URLs
  <2>2. QED
    BY <2>1 DEF BrowserOK, Tabs
<1>3. TypeOK <=> /\ StateOK /\ LocalsOK /\ TabsOK /\ CountsOK /\ PublishedOK
                 /\ pc \in Steps /\ wake \in BOOLEAN /\ net \in {"idle", "flag", "wake"}
                 /\ DOMAIN pages \subseteq Ids
                 /\ pages \in [DOMAIN pages -> Urls \cup {None, Blank}]
                 /\ IF DOMAIN pages = {} THEN shown = None ELSE shown \in DOMAIN pages
                 /\ shown \in Tabs
  BY DEF TypeOK, StateOK, LocalsOK, TabsOK, CountsOK, PublishedOK, Steps, URLs
<1>4. QED
  BY <1>1, <1>2, <1>3

\* What the browser is after a tab has been opened, or closed.
LEMMA Opened ==
    ASSUME BrowserOK, NEW id \in Ids, NEW url \in URLs \cup {Blank}, Open(id, url)
    PROVE  /\ BrowserOK' /\ DOMAIN pages' = DOMAIN pages \cup {id} /\ shown' = id
           /\ \A i \in DOMAIN pages' : pages'[i] = IF i = id THEN url ELSE pages[i]
<1>1. /\ DOMAIN pages' = DOMAIN pages \cup {id} /\ shown' = id
      /\ pages' = [i \in DOMAIN pages \cup {id} |-> IF i = id THEN url ELSE pages[i]]
  BY DEF Open
<1>2. pages' \in [DOMAIN pages \cup {id} -> URLs \cup {Blank}]
  BY <1>1 DEF BrowserOK
<1>3. QED
  BY <1>1, <1>2 DEF BrowserOK

LEMMA ClosedOne ==
    ASSUME BrowserOK, NEW id \in DOMAIN pages, Closed(id)
    PROVE  /\ BrowserOK' /\ DOMAIN pages' = DOMAIN pages \ {id}
           /\ \A i \in DOMAIN pages' : pages'[i] = pages[i]
<1>1. /\ DOMAIN pages' = DOMAIN pages \ {id}
      /\ pages' = [i \in DOMAIN pages \ {id} |-> pages[i]]
  BY DEF Closed, Restrict
<1>2. pages' \in [DOMAIN pages \ {id} -> URLs \cup {Blank}]
  BY <1>1 DEF BrowserOK
<1>3. IF DOMAIN pages' = {} THEN shown' = None ELSE shown' \in DOMAIN pages'
  <2>1. shown \in DOMAIN pages
    BY DEF BrowserOK
  <2>2. CASE shown # id
    BY <1>1, <2>1, <2>2 DEF Closed
  <2>3. CASE shown = id /\ DOMAIN pages = {id}
    BY <1>1, <2>3 DEF Closed
  <2>4. CASE shown = id /\ DOMAIN pages # {id}
    BY <1>1, <2>4 DEF Closed
  <2>5. QED
    BY <2>2, <2>3, <2>4
<1>4. QED
  BY <1>1, <1>2, <1>3 DEF BrowserOK

\* What a command does to the loop: nothing.
LEMMA MessageType ==
    ASSUME TypeOK, Message
    PROVE  /\ StateOK' /\ CountsOK' /\ net' \in {"idle", "flag", "wake"}
           /\ UNCHANGED <<wake, pc, locals, tabs, browser, published, exits>>
<1> USE DEF Command, Wakes, Saves, SaveFails
<1> DEFINE Goal == StateOK' /\ CountsOK' /\ net' \in {"idle", "flag", "wake"}
<1>0. StateOK /\ CountsOK /\ net \in {"idle", "flag", "wake"}
  BY Typed
<1>1. UNCHANGED <<wake, pc, locals, tabs, browser, published, exits>>
  BY DEF Message
<1>2. ASSUME NEW i \in Slots, NEW u \in Urls \cup {None}, EditUrl(i, u) PROVE Goal
  BY <1>0, <1>1, <1>2 DEF EditUrl, StateOK, CountsOK, Within, URLs
<1>3. ASSUME NEW on \in BOOLEAN, SetRotation(on) \/ SetScreen(on) PROVE Goal
  BY <1>0, <1>1, <1>3 DEF SetRotation, SetScreen, StateOK, CountsOK, Within
<1>4. ASSUME NEW d \in {1, -1}, Step(d) PROVE Goal
  BY <1>0, <1>1, <1>4 DEF Step, StateOK, CountsOK, Within
<1>5. ASSUME NEW i \in Slots, ShowUrl(i) PROVE Goal
  <2>1. slots[i] # None => Place(i) \in Int
    BY <1>0, Places DEF StateOK
  <2>2. QED
    BY <1>0, <1>1, <1>5, <2>1 DEF ShowUrl, StateOK, CountsOK, Within
<1>6. QED
  BY <1>1, <1>2, <1>3, <1>4, <1>5 DEF Message

\* Which action changes what.
LEMMA Who ==
    ASSUME [Next]_vars
    PROVE  /\ \/ UNCHANGED state
              \/ StartFlag \/ StoreSlot \/ Advance \/ Restart \/ Message \/ NetFlag
           /\ \/ UNCHANGED <<act, urls>>
              \/ Active \/ Snapshot \/ ActiveIndices \/ PublishSlot \/ Restart
           /\ \/ UNCHANGED <<read, tid, prev_id>>
              \/ ReadSlot \/ StoreSlot \/ CompareSlot \/ PublishSlot \/ Reload \/ Restart
           /\ \/ UNCHANGED <<new_ids, closing>>
              \/ SyncCreate \/ SyncList \/ SyncClose \/ SyncDone \/ SyncFails \/ Restart
           /\ UNCHANGED tabs \/ SyncDone \/ Restart
           /\ \/ UNCHANGED browser
              \/ BrowserStarts \/ BrowserExits \/ SyncCreate \/ SyncClose \/ Activate
           /\ UNCHANGED published \/ PublishUrl \/ PublishSlot
           /\ UNCHANGED pc \/ Main \/ Restart
           /\ UNCHANGED <<wake, net>> \/ Clear \/ Restart \/ Wake \/ Message \/ NetFlag
<1>1. CASE Main
  <2>1. /\ UNCHANGED state \/ StartFlag \/ StoreSlot \/ Advance
        /\ UNCHANGED <<act, urls>> \/ Active \/ Snapshot \/ ActiveIndices \/ PublishSlot
        /\ \/ UNCHANGED <<read, tid, prev_id>>
           \/ ReadSlot \/ StoreSlot \/ CompareSlot \/ PublishSlot \/ Reload
    BY <1>1 DEF Main, vars, state, mqtt, locals, tabs, browser, ReadRotation, StartFlag,
       Clear, Check, Active, Snapshot, SyncCompare, SyncCreate, SyncList, SyncClose,
       SyncDone, SyncFails, ReadSlot, StoreSlot, Activate, PublishUrl, ActiveIndices,
       CompareSlot, PublishSlot, Reload, Dwell, Interrupted, TimesOut, Advance, Resume
  <2>2. /\ \/ UNCHANGED <<new_ids, closing>>
           \/ SyncCreate \/ SyncList \/ SyncClose \/ SyncDone \/ SyncFails
        /\ UNCHANGED tabs \/ SyncDone
        /\ UNCHANGED browser \/ SyncCreate \/ SyncClose \/ Activate
    BY <1>1 DEF Main, vars, state, mqtt, locals, tabs, browser, ReadRotation, StartFlag,
       Clear, Check, Active, Snapshot, SyncCompare, SyncCreate, SyncList, SyncClose,
       SyncDone, SyncFails, ReadSlot, StoreSlot, Activate, PublishUrl, ActiveIndices,
       CompareSlot, PublishSlot, Reload, Dwell, Interrupted, TimesOut, Advance, Resume
  <2>3. UNCHANGED published \/ PublishUrl \/ PublishSlot
    BY <1>1 DEF Main, vars, state, mqtt, locals, tabs, browser, ReadRotation, StartFlag,
       Clear, Check, Active, Snapshot, SyncCompare, SyncCreate, SyncList, SyncClose,
       SyncDone, SyncFails, ReadSlot, StoreSlot, Activate, PublishUrl, ActiveIndices,
       CompareSlot, PublishSlot, Reload, Dwell, Interrupted, TimesOut, Advance, Resume
  <2>4. UNCHANGED <<wake, net>> \/ Clear
    BY <1>1 DEF Main, vars, state, mqtt, locals, tabs, browser, ReadRotation, StartFlag,
       Clear, Check, Active, Snapshot, SyncCompare, SyncCreate, SyncList, SyncClose,
       SyncDone, SyncFails, ReadSlot, StoreSlot, Activate, PublishUrl, ActiveIndices,
       CompareSlot, PublishSlot, Reload, Dwell, Interrupted, TimesOut, Advance, Resume
  <2>5. QED
    BY <1>1, <2>1, <2>2, <2>3, <2>4
<1>2. CASE ~Main
  BY <1>2 DEF Next, vars, state, mqtt, locals, tabs, browser, Message, BrowserStarts, BrowserExits,
       Restart, Wake, NetFlag
<1>3. QED
  BY <1>1, <1>2

\* What is counted.
LEMMA Counted ==
    ASSUME [Next]_vars
    PROVE  \/ UNCHANGED <<commands, fails, exits>> \/ Message \/ BrowserExits
           \/ fails' = fails + 1 /\ Within(commands, fails', exits) /\ UNCHANGED <<commands, exits>>
<1>1. CASE Main
  BY <1>1 DEF Main, vars, state, mqtt, locals, tabs, browser, ReadRotation, StartFlag,
       Clear, Check, Active, Snapshot, SyncCompare, SyncCreate, SyncList, SyncClose,
       SyncDone, SyncFails, ReadSlot, StoreSlot, Activate, PublishUrl, ActiveIndices,
       CompareSlot, PublishSlot, Reload, Dwell, Interrupted, TimesOut, Advance, Resume,
       Answered, Raises, SetAutostart, WriteFails
<1>2. CASE ~Main
  BY <1>2 DEF Next, vars, mqtt, BrowserStarts, Restart, Wake, NetFlag, SetAutostart, WriteFails
<1>3. QED
  BY <1>1, <1>2

LEMMA StateType == TypeOK /\ Rebuilds /\ [Next]_vars => StateOK'
<1> SUFFICES ASSUME TypeOK, Rebuilds, [Next]_vars PROVE StateOK'
  OBVIOUS
<1>0. StateOK /\ LocalsOK /\ TabsOK
  BY Typed
<1>1. CASE UNCHANGED state
  BY <1>0, <1>1 DEF StateOK, state
<1>2. CASE StoreSlot
  <2>1. tab_ids # <<>>
    BY <1>2 DEF StoreSlot, Rebuilds, Showing
  <2>2. read % Len(tab_ids) \in Int
    BY <1>0, <2>1, Elements DEF TabsOK, LocalsOK
  <2>3. QED
    BY <1>0, <1>2, <2>2 DEF StoreSlot, StateOK
<1>3. CASE Advance \/ Restart
  BY <1>0, <1>3 DEF Advance, Restart, StateOK
<1>4. CASE StartFlag \/ NetFlag
  BY <1>0, <1>4 DEF StartFlag, NetFlag, SetAutostart, StateOK
<1>5. QED
  BY <1>1, <1>2, <1>3, <1>4, Who, MessageType

LEMMA LocalsType == TypeOK /\ Rebuilds /\ [Next]_vars => LocalsOK'
<1> SUFFICES ASSUME TypeOK, Rebuilds, [Next]_vars PROVE LocalsOK'
  OBVIOUS
<1>0. StateOK /\ LocalsOK /\ TabsOK /\ BrowserOK /\ NSlots \in Nat /\ None \in Tabs
  BY Typed, RotationAssumption DEF Tabs
<1>1. act' \in BoundedSeq(Slots, NSlots) /\ urls' \in BoundedSeq(URLs, NSlots)
  <2>1. act \in BoundedSeq(Slots, NSlots) /\ urls \in BoundedSeq(URLs, NSlots)
    BY <1>0 DEF LocalsOK
  <2>2. CASE Active \/ ActiveIndices
    BY <1>0, <2>1, <2>2, ActiveSlots, Bounded DEF Active, ActiveIndices, StateOK
  <2>3. CASE Snapshot
    <3>1. act \in Seq(Slots) /\ Len(act) <= NSlots
      BY <1>0, <2>1, Bounded
    <3>2. urls' \in Seq(URLs) /\ Len(urls') = Len(act)
      BY <1>0, <2>3, <3>1 DEF Snapshot, StateOK
    <3>3. act' = <<>>
      BY <2>3 DEF Snapshot
    <3>4. act' \in BoundedSeq(Slots, NSlots)
      BY <1>0, <3>3, Empty
    <3>5. urls' \in BoundedSeq(URLs, NSlots)
      BY <1>0, <3>1, <3>2, Bounded
    <3>6. QED
      BY <3>4, <3>5
  <2>4. CASE PublishSlot \/ Restart
    BY <1>0, <2>1, <2>4, Empty DEF PublishSlot, Restart
  <2>5. QED
    BY <2>1, <2>2, <2>3, <2>4, Who
<1>2. read' \in Int /\ tid' \in Tabs /\ prev_id' \in Tabs
  <2>1. read \in Int /\ tid \in Tabs /\ prev_id \in Tabs /\ current_slot \in Int
    BY <1>0 DEF LocalsOK, StateOK
  <2>2. CASE StoreSlot
    <3>1. tab_ids # <<>> /\ current_slot' \in Int /\ tab_ids \in Seq(Ids)
      BY <1>0, <2>2, StateType DEF StoreSlot, Rebuilds, Showing, StateOK, TabsOK
    <3>2. At(tab_ids, current_slot') \in Ids
      BY <3>1, Elements
    <3>3. QED
      BY <2>1, <2>2, <3>2 DEF StoreSlot, Tabs
  <2>3. CASE ReadSlot \/ CompareSlot \/ PublishSlot \/ Reload \/ Restart
    BY <1>0, <2>1, <2>3 DEF ReadSlot, CompareSlot, PublishSlot, Reload, Restart
  <2>4. QED
    BY <2>1, <2>2, <2>3, Who
<1>3. new_ids' \in Seq(Ids) /\ closing' \subseteq Ids
  <2>1. new_ids \in Seq(Ids) /\ closing \subseteq Ids /\ DOMAIN pages \subseteq Ids
    BY <1>0 DEF LocalsOK, BrowserOK
  <2>2. CASE SyncCreate
    BY <2>1, <2>2 DEF SyncCreate
  <2>3. CASE SyncList \/ SyncClose
    BY <2>1, <2>3 DEF SyncList, SyncClose
  <2>4. CASE SyncDone \/ SyncFails \/ Restart
    <3>1. new_ids' = <<>> /\ closing' \in {{}, closing}
      BY <2>4 DEF SyncDone, SyncFails, Restart
    <3>2. QED
      BY <2>1, <3>1
  <2>5. QED
    BY <2>1, <2>2, <2>3, <2>4, Who
<1>4. QED
  BY <1>1, <1>2, <1>3 DEF LocalsOK

LEMMA TabsType == TypeOK /\ Rebuilds /\ [Next]_vars => TabsOK'
<1> SUFFICES ASSUME TypeOK, Rebuilds, [Next]_vars PROVE TabsOK'
  OBVIOUS
<1>0. LocalsOK /\ TabsOK /\ NSlots \in Nat
  BY Typed, RotationAssumption
<1>1. CASE UNCHANGED tabs
  BY <1>0, <1>1 DEF tabs, TabsOK
<1>2. CASE SyncDone
  <2>1. Len(new_ids) = Len(urls) /\ new_ids \in Seq(Ids) /\ urls \in Seq(URLs)
    BY <1>0, <1>2, Bounded DEF SyncDone, Rebuilds, LocalsOK
  <2>2. QED
    BY <1>2, <2>1 DEF SyncDone, TabsOK
<1>3. CASE Restart
  BY <1>3 DEF Restart, TabsOK
<1>4. QED
  BY <1>1, <1>2, <1>3, Who

LEMMA BrowserType == TypeOK /\ Rebuilds /\ [Next]_vars => BrowserOK'
<1> SUFFICES ASSUME TypeOK, Rebuilds, [Next]_vars PROVE BrowserOK'
  OBVIOUS
<1>0. LocalsOK /\ BrowserOK /\ NSlots \in Nat
  BY Typed, RotationAssumption
<1>1. CASE UNCHANGED browser
  BY <1>0, <1>1 DEF browser, BrowserOK
<1>2. CASE BrowserStarts
  BY <1>0, <1>2, Opened DEF BrowserStarts
<1>3. CASE BrowserExits
  BY <1>3 DEF BrowserExits, BrowserOK
<1>4. CASE SyncCreate
  <2>1. PICK id \in Ids : new_ids' = Append(new_ids, id)
    BY <1>4 DEF SyncCreate
  <2>2. new_ids \in Seq(Ids) /\ urls \in Seq(URLs) /\ Len(new_ids) < Len(urls)
    BY <1>0, <1>4, Bounded DEF SyncCreate, LocalsOK
  <2>3. Len(new_ids') = Len(new_ids) + 1 /\ Last(new_ids') = id
    BY <2>1, <2>2 DEF Last
  <2>4. urls[Len(new_ids')] \in URLs
    BY <2>2, <2>3
  <2>5. Open(id, urls[Len(new_ids')])
    BY <1>4, <2>3 DEF SyncCreate
  <2>6. QED
    BY <1>0, <2>4, <2>5, Opened
<1>5. CASE SyncClose
  <2>1. PICK id \in closing : IF id \in DOMAIN pages THEN Closed(id) ELSE UNCHANGED browser
    BY <1>5 DEF SyncClose
  <2>2. QED
    BY <1>0, <1>1, <2>1, ClosedOne
<1>6. CASE Activate
  BY <1>0, <1>6 DEF Activate, BrowserOK
<1>7. QED
  BY <1>1, <1>2, <1>3, <1>4, <1>5, <1>6, Who

LEMMA PublishedType == TypeOK /\ Rebuilds /\ [Next]_vars => PublishedOK'
<1> SUFFICES ASSUME TypeOK, Rebuilds, [Next]_vars PROVE PublishedOK'
  OBVIOUS
<1>0. StateOK /\ LocalsOK /\ PublishedOK /\ NSlots \in Nat
  BY Typed, RotationAssumption
<1>1. ASSUME NEW S, NEW q \in Seq(S), InRange(q, current_slot) PROVE At(q, current_slot) \in S
  <2>1. current_slot \in Int /\ q # <<>>
    BY <1>0, <1>1 DEF StateOK, InRange
  <2>2. QED
    BY <2>1, Elements
<1>2. urls \in Seq(URLs) /\ act \in Seq(Slots) /\ Slots \subseteq 0..NSlots
  BY <1>0, Bounded DEF LocalsOK, Slots
<1>3. CASE PublishUrl
  BY <1>0, <1>1, <1>2, <1>3 DEF PublishUrl, PublishedOK
<1>4. CASE PublishSlot
  BY <1>0, <1>1, <1>2, <1>4 DEF PublishSlot, PublishedOK
<1>5. QED
  BY <1>0, <1>3, <1>4, Who DEF PublishedOK

LEMMA RestType ==
    TypeOK /\ [Next]_vars =>
        /\ CountsOK' /\ pc' \in Steps /\ wake' \in BOOLEAN /\ net' \in {"idle", "flag", "wake"}
<1> SUFFICES ASSUME TypeOK, [Next]_vars
             PROVE  /\ CountsOK' /\ pc' \in Steps /\ wake' \in BOOLEAN
                    /\ net' \in {"idle", "flag", "wake"}
  OBVIOUS
<1>0. CountsOK /\ pc \in Steps /\ wake \in BOOLEAN /\ net \in {"idle", "flag", "wake"}
  BY Typed
<1>1. CountsOK'
  <2>1. CASE BrowserExits
    BY <1>0, <2>1 DEF BrowserExits, CountsOK, mqtt
  <2>2. QED
    BY <1>0, <2>1, Counted, MessageType DEF CountsOK, Within
<1>2. pc' \in Steps
  <2>1. CASE Main
    BY <1>0, <2>1 DEF Main, ReadRotation, StartFlag, Clear, Check, Active, Snapshot, SyncCompare,
      SyncCreate, SyncList, SyncClose, SyncDone, SyncFails, ReadSlot, StoreSlot, Activate,
      PublishUrl, ActiveIndices, CompareSlot, PublishSlot, Reload, Dwell, Interrupted, TimesOut,
      Advance, Resume, Goes, Dies, Steps
  <2>2. CASE Restart
    BY <2>2 DEF Restart, Goes, Steps
  <2>3. QED
    BY <1>0, <2>1, <2>2, Who
<1>3. wake' \in BOOLEAN /\ net' \in {"idle", "flag", "wake"}
  BY <1>0, Who, MessageType DEF Clear, Restart, Wake, NetFlag, mqtt
<1>4. QED
  BY <1>1, <1>2, <1>3

LEMMA TypeInv == TypeOK /\ Rebuilds /\ [Next]_vars => TypeOK'
<1> SUFFICES ASSUME TypeOK, Rebuilds, [Next]_vars PROVE TypeOK'
  OBVIOUS
<1>1. /\ StateOK' /\ LocalsOK' /\ TabsOK' /\ BrowserOK' /\ CountsOK' /\ PublishedOK'
      /\ pc' \in Steps /\ wake' \in BOOLEAN /\ net' \in {"idle", "flag", "wake"}
  BY StateType, LocalsType, TabsType, BrowserType, PublishedType, RestType
<1>2. Urls \cup {None, Blank} = URLs \cup {Blank} /\ shown' \in Tabs
  BY <1>1 DEF URLs, BrowserOK, Tabs
<1>3. QED
  BY <1>1, <1>2 DEF TypeOK, StateOK, LocalsOK, TabsOK, BrowserOK, CountsOK, PublishedOK,
                    Steps, URLs

-----------------------------------------------------------------------------
(* The rebuild of the tabs.                                                *)

\* The steps that touch neither the lists of tabs nor the browser's pages.
Aside == ReadRotation \/ StartFlag \/ Clear \/ Check \/ ReadSlot \/ StoreSlot \/ Activate
         \/ PublishUrl \/ ActiveIndices \/ CompareSlot \/ PublishSlot \/ Reload \/ Dwell
         \/ Interrupted \/ TimesOut \/ Advance \/ Resume \/ Message \/ NetFlag \/ Wake
         \/ UNCHANGED vars

LEMMA Asides ==
    ASSUME Aside
    PROVE  /\ UNCHANGED <<urls, new_ids, closing, tab_urls, tab_ids, pages, exits>>
           /\ \/ UNCHANGED <<pc, act>>
              \/ ~Syncing /\ pc' \notin {"urls", "sync", "create", "list", "close"}
                 /\ (Showing' => Showing)
BY DEF Aside, ReadRotation, StartFlag, Clear, Check, ReadSlot, StoreSlot, Activate, PublishUrl,
       ActiveIndices, CompareSlot, PublishSlot, Reload, Dwell, Interrupted, TimesOut, Advance,
       Resume, Message, NetFlag, Wake, vars, state, mqtt, locals, tabs, browser, Goes, Dies,
       Syncing, Showing

LEMMA RebuildsStep == TypeOK /\ Rebuilds /\ [Next]_vars => Rebuilds'
<1> SUFFICES ASSUME TypeOK, Rebuilds, [Next]_vars PROVE Rebuilds'
  OBVIOUS
<1>0. StateOK /\ LocalsOK /\ TabsOK /\ BrowserOK /\ CountsOK /\ NSlots \in Nat
  BY Typed, RotationAssumption
<1>01. /\ new_ids \in Seq(Ids) /\ tab_ids \in Seq(Ids) /\ urls \in Seq(URLs)
       /\ act \in Seq(Slots)
  BY <1>0, Bounded DEF LocalsOK, TabsOK
<1>1. CASE Aside
  BY <1>1, Asides DEF Rebuilds, Syncing, Showing, Running
<1>2. CASE Active
  BY <1>2 DEF Active, Rebuilds, Syncing, Showing, Running, Goes, tabs, browser
<1>3. CASE Snapshot
  <2>1. urls' # <<>>
    <3>1. act # <<>> /\ urls' = [k \in DOMAIN act |-> slots[act[k]]]
      BY <1>3 DEF Snapshot, Rebuilds
    <3>2. Len(urls') = Len(act) /\ Len(act) # 0
      BY <1>01, <3>1
    <3>3. QED
      BY <3>2
  <2>2. QED
    BY <1>3, <2>1 DEF Snapshot, Rebuilds, Syncing, Showing, Running, Goes, tabs, browser
<1>4. CASE SyncCompare
  <2>1. /\ pc = "sync" /\ Running /\ urls # <<>> /\ new_ids = <<>>
        /\ pc' = IF UpToDate THEN "mod" ELSE "create"
        /\ UNCHANGED <<act, urls, new_ids, closing, tab_urls, tab_ids, pages, exits>>
    BY <1>4 DEF SyncCompare, Answered, Rebuilds, Syncing, Goes, locals, tabs, browser
  <2>2. Len(new_ids) < Len(urls)
    BY <1>01, <2>1
  <2>3. UpToDate => tab_ids # <<>>
    BY DEF UpToDate
  <2>4. QED
    BY <2>1, <2>2, <2>3 DEF Rebuilds, Syncing, Showing, Running
<1>5. CASE SyncCreate
  <2>1. PICK id \in Ids : Fresh(id) /\ new_ids' = Append(new_ids, id)
    BY <1>5 DEF SyncCreate
  <2>2. /\ pc = "create" /\ Len(new_ids) < Len(urls) /\ Running
        /\ pc' = IF Len(new_ids') = Len(urls) THEN "list" ELSE "create"
        /\ UNCHANGED <<act, urls, closing, tab_urls, tab_ids, exits>>
    BY <1>5 DEF SyncCreate, Answered, Goes, tabs
  <2>3. /\ Len(new_ids') = Len(new_ids) + 1 /\ Len(new_ids) \in Nat /\ Len(urls) \in Nat
        /\ DOMAIN new_ids' = DOMAIN new_ids \cup {Len(new_ids')}
        /\ \A k \in DOMAIN new_ids : new_ids'[k] = new_ids[k] /\ k # Len(new_ids')
        /\ new_ids'[Len(new_ids')] = id /\ Last(new_ids') = id
    BY <1>01, <2>1 DEF Last
  <2>4. id \notin ToSet(new_ids) /\ id \notin closing
    BY <2>1 DEF Fresh
  <2>5. \A j, k \in DOMAIN new_ids' : j # k => new_ids'[j] # new_ids'[k]
    BY <2>3, <2>4 DEF Rebuilds, ToSet
  <2>6. ToSet(new_ids') = ToSet(new_ids) \cup {id}
    BY <2>3 DEF ToSet
  <2>7. DOMAIN pages' = DOMAIN pages \cup {id}
    BY <1>5, <2>3 DEF SyncCreate, Open
  <2>8. urls # <<>>
    BY <2>2 DEF Rebuilds, Syncing
  <2>9. QED
    BY <2>2, <2>3, <2>4, <2>5, <2>6, <2>7, <2>8 DEF Rebuilds, Syncing, Showing, Running
<1>6. CASE SyncList
  BY <1>6 DEF SyncList, Rebuilds, Syncing, Showing, Running, Answered, Goes, tabs, browser
<1>7. CASE SyncClose
  <2>1. PICK id \in closing : /\ closing' = closing \ {id}
                             /\ IF id \in DOMAIN pages THEN Closed(id) ELSE UNCHANGED browser
    BY <1>7 DEF SyncClose
  <2>2. /\ pc = "close" /\ UNCHANGED <<pc, act, urls, new_ids, tab_urls, tab_ids, exits>>
    BY <1>7 DEF SyncClose, tabs
  <2>3. DOMAIN pages' = DOMAIN pages \ {id}
    BY <1>0, <2>1, ClosedOne DEF browser
  <2>4. id \notin ToSet(new_ids)
    BY <2>1 DEF Rebuilds
  <2>5. ToSet(new_ids) # {}
    <3>1. Len(new_ids) = Len(urls) /\ urls # <<>>
      BY <2>2 DEF Rebuilds, Syncing
    <3>2. 1 \in DOMAIN new_ids
      BY <1>01, <3>1
    <3>3. QED
      BY <3>2 DEF ToSet
  <2>6. QED
    BY <2>1, <2>2, <2>3, <2>4, <2>5 DEF Rebuilds, Syncing, Showing, Running
<1>8. CASE SyncDone
  <2>1. /\ pc = "close" /\ closing = {} /\ tab_ids' = new_ids /\ new_ids' = <<>>
        /\ pc' = "mod" /\ UNCHANGED <<act, urls, closing, pages, exits>>
    BY <1>8 DEF SyncDone, Goes, browser
  <2>2. Len(new_ids) = Len(urls) /\ urls # <<>> /\ (exits = 0 => Running)
    BY <2>1 DEF Rebuilds, Syncing
  <2>3. new_ids # <<>> /\ DOMAIN <<>> = {} /\ ToSet(<<>>) = {}
    BY <1>01, <2>2 DEF ToSet
  <2>4. QED
    BY <2>1, <2>2, <2>3 DEF Rebuilds, Syncing, Showing, Running
<1>9. CASE SyncFails
  <2>1. /\ pc' = IF tab_ids = <<>> THEN "pause" ELSE "mod"
        /\ new_ids' = <<>> /\ closing' = {}
        /\ UNCHANGED <<act, urls, tab_urls, tab_ids, pages, exits>>
    BY <1>9 DEF SyncFails, Goes, tabs, browser
  <2>2. DOMAIN <<>> = {} /\ ToSet(<<>>) = {}
    BY DEF ToSet
  <2>3. QED
    BY <2>1, <2>2 DEF Rebuilds, Syncing, Showing, Running
<1>10. CASE Restart
  <2>1. /\ pc' = "flag" /\ new_ids' = <<>> /\ closing' = {} /\ tab_ids' = <<>>
        /\ UNCHANGED <<pages, exits>>
    BY <1>10 DEF Restart, Goes, browser
  <2>2. DOMAIN <<>> = {} /\ ToSet(<<>>) = {}
    BY DEF ToSet
  <2>3. QED
    BY <2>1, <2>2 DEF Rebuilds, Syncing, Showing, Running
<1>11. CASE BrowserStarts
  <2>1. /\ ~Running /\ \E id \in Ids : DOMAIN pages' = {id}
        /\ UNCHANGED <<pc, act, urls, new_ids, closing, tab_urls, tab_ids, exits>>
    BY <1>11 DEF BrowserStarts, Open, Running, locals, tabs
  <2>2. QED
    BY <2>1 DEF Rebuilds, Syncing, Showing, Running
<1>12. CASE BrowserExits
  <2>1. /\ exits' # 0 /\ UNCHANGED <<pc, act, urls, new_ids, closing, tab_urls, tab_ids>>
    BY <1>0, <1>12 DEF BrowserExits, CountsOK, locals, tabs
  <2>2. QED
    BY <2>1 DEF Rebuilds, Syncing, Showing
<1>13. QED
  BY <1>1, <1>2, <1>3, <1>4, <1>5, <1>6, <1>7, <1>8, <1>9, <1>10, <1>11, <1>12
     DEF Next, Main, Aside

-----------------------------------------------------------------------------
(* The tabs while nothing fails.                                           *)

\* What has not happened at the end has not happened before.
LEMMA Faultless ==
    ASSUME TypeOK, [Next]_vars, fails' = 0, exits' = 0
    PROVE  fails = 0 /\ exits = 0
<1>1. fails \in Nat /\ exits \in Nat
  BY Typed DEF CountsOK
<1>2. CASE Message
  BY <1>1, <1>2 DEF Message, EditUrl, SetRotation, SetScreen, Step, ShowUrl, Wakes, SaveFails
<1>3. CASE BrowserExits
  BY <1>1, <1>3 DEF BrowserExits
<1>4. QED
  BY <1>1, <1>2, <1>3, Counted

LEMMA TabsStep == TypeOK /\ Rebuilds /\ TabsAsListed /\ [Next]_vars => TabsAsListed'
<1> SUFFICES ASSUME TypeOK, Rebuilds, TabsAsListed, [Next]_vars, fails' = 0, exits' = 0
             PROVE  TabsAsListed'
  BY DEF TabsAsListed
<1>0. LocalsOK /\ TabsOK /\ BrowserOK /\ NSlots \in Nat /\ fails = 0 /\ exits = 0
  BY Typed, Faultless, RotationAssumption
<1>01. /\ new_ids \in Seq(Ids) /\ tab_ids \in Seq(Ids) /\ urls \in Seq(URLs)
       /\ tab_urls \in Seq(URLs)
  BY <1>0, Bounded DEF LocalsOK, TabsOK
<1>02. /\ \A k \in DOMAIN new_ids : pages[new_ids[k]] = urls[k]
       /\ pc = "close" => DOMAIN pages = closing \cup ToSet(new_ids)
       /\ ~Syncing /\ tab_ids # <<>> =>
             /\ DOMAIN pages = ToSet(tab_ids)
             /\ \A j, k \in DOMAIN tab_ids : j # k => tab_ids[j] # tab_ids[k]
             /\ \A k \in DOMAIN tab_ids : pages[tab_ids[k]] = tab_urls[k]
       /\ Showing => tab_urls = urls
  BY <1>0 DEF TabsAsListed
<1>1. CASE Aside
  <2>1. /\ UNCHANGED <<urls, new_ids, closing, tab_urls, tab_ids, pages, exits>>
        /\ pc' = "close" => pc = "close"
        /\ ~Syncing' => ~Syncing
        /\ Showing' => Showing
    BY <1>1, Asides DEF Syncing, Showing
  <2>2. QED
    BY <1>02, <2>1 DEF TabsAsListed
<1>2. CASE Active \/ Snapshot
  <2>1. /\ UNCHANGED <<new_ids, closing, tab_urls, tab_ids, pages, exits>>
        /\ ~Syncing /\ ~Syncing' /\ ~Showing' /\ pc' # "close" /\ new_ids = <<>>
    BY <1>2 DEF Active, Snapshot, Goes, Syncing, Showing, Rebuilds, tabs, browser
  <2>2. DOMAIN new_ids' = {}
    BY <2>1
  <2>3. QED
    BY <1>02, <2>1, <2>2 DEF TabsAsListed
<1>3. CASE SyncCompare
  <2>1. /\ pc = "sync" /\ pc' = IF UpToDate THEN "mod" ELSE "create"
        /\ UNCHANGED <<urls, new_ids, closing, tab_urls, tab_ids, pages, exits>>
    BY <1>3 DEF SyncCompare, Goes, locals, tabs, browser
  <2>2. UpToDate => tab_urls = urls
    BY DEF UpToDate
  <2>3. QED
    BY <1>02, <2>1, <2>2 DEF TabsAsListed, Syncing, Showing
<1>4. CASE SyncCreate
  <2>1. PICK id \in Ids : Fresh(id) /\ new_ids' = Append(new_ids, id)
    BY <1>4 DEF SyncCreate
  <2>2. /\ Len(new_ids') = Len(new_ids) + 1 /\ Len(new_ids) \in Nat
        /\ DOMAIN new_ids' = DOMAIN new_ids \cup {Len(new_ids')}
        /\ \A k \in DOMAIN new_ids : new_ids'[k] = new_ids[k] /\ new_ids[k] \in ToSet(new_ids)
        /\ new_ids'[Len(new_ids')] = id /\ Last(new_ids') = id
    BY <1>01, <2>1 DEF Last, ToSet
  <2>3. /\ Open(id, urls[Len(new_ids')]) /\ pc' \in {"list", "create"}
        /\ UNCHANGED urls /\ id \notin ToSet(new_ids)
    BY <1>4, <2>1, <2>2 DEF SyncCreate, Fresh, Goes
  <2>4. ToSet(new_ids) \subseteq DOMAIN pages
    BY <1>0 DEF Rebuilds
  <2>5. /\ \A i \in DOMAIN pages : i # id => pages'[i] = pages[i]
        /\ pages'[id] = urls[Len(new_ids')]
    BY <2>3 DEF Open
  <2>6. \A k \in DOMAIN new_ids' : pages'[new_ids'[k]] = urls'[k]
    BY <1>02, <2>2, <2>3, <2>4, <2>5
  <2>7. QED
    BY <2>3, <2>6 DEF TabsAsListed, Syncing, Showing
<1>5. CASE SyncList
  <2>1. /\ pc' = "close" /\ closing' = DOMAIN pages \ ToSet(new_ids)
        /\ UNCHANGED <<urls, new_ids, tab_urls, tab_ids, pages>>
    BY <1>5 DEF SyncList, Goes, tabs, browser
  <2>2. ToSet(new_ids) \subseteq DOMAIN pages
    BY <1>0 DEF Rebuilds
  <2>3. DOMAIN pages' = closing' \cup ToSet(new_ids')
    BY <2>1, <2>2
  <2>4. QED
    BY <1>02, <2>1, <2>3 DEF TabsAsListed, Syncing, Showing
<1>6. CASE SyncClose
  <2>1. PICK id \in closing : /\ closing' = closing \ {id}
                             /\ IF id \in DOMAIN pages THEN Closed(id) ELSE UNCHANGED browser
    BY <1>6 DEF SyncClose
  <2>2. /\ pc = "close" /\ pc' = "close" /\ UNCHANGED <<urls, new_ids, tab_urls, tab_ids>>
    BY <1>6 DEF SyncClose, tabs
  <2>3. DOMAIN pages = closing \cup ToSet(new_ids) /\ id \notin ToSet(new_ids)
    BY <1>02, <2>1, <2>2 DEF Rebuilds
  <2>4. /\ DOMAIN pages' = closing' \cup ToSet(new_ids)
        /\ \A i \in DOMAIN pages' : pages'[i] = pages[i]
    BY <1>0, <2>1, <2>3, ClosedOne
  <2>5. \A k \in DOMAIN new_ids : pages'[new_ids[k]] = urls[k]
    BY <1>02, <2>4 DEF ToSet
  <2>6. QED
    BY <2>2, <2>4, <2>5 DEF TabsAsListed, Syncing, Showing
<1>7. CASE SyncDone
  <2>1. /\ pc = "close" /\ closing = {} /\ tab_ids' = new_ids /\ tab_urls' = urls
        /\ new_ids' = <<>> /\ pc' = "mod" /\ UNCHANGED <<urls, pages>>
    BY <1>7 DEF SyncDone, Goes, browser
  <2>2. DOMAIN <<>> = {}
    OBVIOUS
  <2>3. /\ DOMAIN pages = ToSet(new_ids)
        /\ \A j, k \in DOMAIN new_ids : j # k => new_ids[j] # new_ids[k]
    BY <1>02, <2>1 DEF Rebuilds
  <2>4. QED
    BY <1>02, <2>1, <2>2, <2>3 DEF TabsAsListed, Syncing, Showing
<1>8. CASE SyncFails
  <2>1. /\ ~Running /\ pc' = IF tab_ids = <<>> THEN "pause" ELSE "mod"
        /\ new_ids' = <<>> /\ closing' = {} /\ UNCHANGED tab_ids
    BY <1>0, <1>8 DEF SyncFails, Raises, Goes, tabs
  <2>2. tab_ids = <<>>
    BY <1>0, <2>1 DEF Rebuilds
  <2>3. DOMAIN new_ids' = {}
    BY <2>1
  <2>4. QED
    BY <2>1, <2>2, <2>3 DEF TabsAsListed, Syncing, Showing
<1>9. CASE Restart
  <2>1. pc' = "flag" /\ new_ids' = <<>> /\ tab_ids' = <<>>
    BY <1>9 DEF Restart, Goes
  <2>2. DOMAIN new_ids' = {}
    BY <2>1
  <2>3. QED
    BY <2>1, <2>2 DEF TabsAsListed, Syncing, Showing
<1>10. CASE BrowserStarts
  <2>1. ~Running /\ UNCHANGED <<pc, urls, new_ids, closing, tab_urls, tab_ids>>
    BY <1>10 DEF BrowserStarts, locals, tabs
  <2>2. /\ ~Syncing /\ tab_ids = <<>> /\ new_ids = <<>> /\ pc # "close" /\ ~Showing
    BY <1>0, <2>1 DEF Rebuilds, Syncing
  <2>3. DOMAIN new_ids' = {}
    BY <2>1, <2>2
  <2>4. QED
    BY <2>1, <2>2, <2>3 DEF TabsAsListed, Syncing, Showing
<1>11. CASE BrowserExits
  BY <1>0, <1>11 DEF BrowserExits
<1>12. QED
  BY <1>1, <1>2, <1>3, <1>4, <1>5, <1>6, <1>7, <1>8, <1>9, <1>10, <1>11
     DEF Next, Main, Aside

-----------------------------------------------------------------------------
(* What the loop goes by while no command wakes it.                        *)

\* If no write has failed and the loop is not about to be woken after a step, it was not
\* before, and the slots and switches it has read have not changed.
LEMMA Quiet ==
    ASSUME TypeOK, [Next]_vars, ~wake', net' = "idle", fails' = 0,
           pc' \notin {"top", "check", "flag"}
    PROVE  /\ ~wake /\ net = "idle"
           /\ slots' = slots /\ rotation' = rotation /\ (screen_on => screen_on')
           /\ Message => current_slot' = current_slot
<1>1. CASE Message
  <2>1. /\ UNCHANGED wake /\ ~(net' \in {"flag", "wake"}) /\ ~(fails' = fails + 1)
        /\ \/ \E i \in Slots, u \in Urls \cup {None} : EditUrl(i, u)
           \/ \E on \in BOOLEAN : SetRotation(on) \/ SetScreen(on)
           \/ \E d \in {1, -1} : Step(d)
           \/ \E i \in Slots : ShowUrl(i)
    BY <1>1, Typed DEF Message, CountsOK
  <2>2. /\ \A i \in Slots, u \in Urls \cup {None} : ~EditUrl(i, u)
        /\ \A on \in BOOLEAN : ~SetRotation(on)
        /\ \A d \in {1, -1} : ~Step(d)
        /\ \A on \in BOOLEAN : SetScreen(on) => on = TRUE
    BY <2>1 DEF EditUrl, SetRotation, Step, SetScreen, Wakes, SaveFails
  <2>3. ASSUME NEW on \in BOOLEAN, SetScreen(on)
        PROVE  /\ net = "idle" /\ slots' = slots /\ rotation' = rotation /\ screen_on'
               /\ current_slot' = current_slot
    BY <2>2, <2>3 DEF SetScreen, Command
  <2>4. ASSUME NEW i \in Slots, ShowUrl(i)
        PROVE  net = "idle" /\ UNCHANGED <<slots, rotation, screen_on, current_slot>>
    BY <2>1, <2>4 DEF ShowUrl, Command, Wakes
  <2>5. QED
    BY <2>1, <2>2, <2>3, <2>4
<1>2. CASE ~Message
  <2>1. ~Clear /\ ~Restart /\ ~Wake /\ ~NetFlag /\ ~StartFlag
    BY DEF Clear, Restart, Wake, NetFlag, StartFlag, Goes
  <2>2. UNCHANGED <<wake, net>> /\ (UNCHANGED state \/ StoreSlot \/ Advance)
    BY <1>2, <2>1, Who
  <2>3. QED
    BY <1>2, <2>2 DEF state, StoreSlot, Advance
<1>3. QED
  BY <1>1, <1>2

\* The slots alone say which of them have a URL.
LEMMA SameSlots ==
    ASSUME slots' = slots
    PROVE  active_slots' = active_slots /\ Wanted' = Wanted
BY DEF active_slots, Wanted, Place

LEMMA UndisturbedStep ==
    TypeOK /\ Rebuilds /\ TabsAsListed /\ Undisturbed /\ [Next]_vars => Undisturbed'
<1> SUFFICES ASSUME TypeOK, Rebuilds, TabsAsListed, Undisturbed, [Next]_vars,
                    ~wake', net' = "idle", fails' = 0,
                    pc' \notin {"flag", "make", "remove", "top", "check", "pause", "dead"}
             PROVE  Undisturbed'
  BY DEF Undisturbed, Syncing, Showing, Selected
<1>0. /\ ~wake /\ net = "idle" /\ slots' = slots /\ rotation' = rotation
      /\ (screen_on => screen_on') /\ (Message => current_slot' = current_slot)
      /\ active_slots' = active_slots /\ Wanted' = Wanted
      /\ fails = 0 /\ (exits' = 0 => exits = 0)
      /\ UNCHANGED current_slot \/ StoreSlot \/ Advance
  <2>1. fails = 0 /\ (exits' = 0 => exits = 0)
    BY Typed, Counted DEF CountsOK, BrowserExits, Message, EditUrl, SetRotation, SetScreen,
       Step, ShowUrl, Wakes, SaveFails
  <2>2. UNCHANGED current_slot \/ StoreSlot \/ Advance
    BY Who, Quiet DEF state, StartFlag, NetFlag, Restart, Goes
  <2>3. QED
    BY <2>1, <2>2, Quiet, SameSlots
<1>01. StateOK /\ LocalsOK /\ TabsOK /\ BrowserOK /\ PublishedOK /\ NSlots \in Nat
  BY Typed, RotationAssumption
<1>02. /\ pc \in {"slots", "urls", "sync"} \/ Syncing \/ Showing => rotation /\ screen_on
       /\ pc \in {"urls", "compare", "select"} => act = active_slots
       /\ pc = "sync" \/ Syncing \/ (Showing /\ pc # "advance") => urls = Wanted
       /\ pc \in Selected =>
            current_slot \in 0..(Len(tab_ids) - 1) /\ tid = At(tab_ids, current_slot)
       /\ pc = "select" => read = current_slot
       /\ exits = 0 =>
            /\ pc \in Selected \ {"activate"} => shown = tid
            /\ pc \in Selected \ {"activate", "current"} =>
                 published.url = At(urls, current_slot)
            /\ pc \in {"reload", "seconds", "dwell"} =>
                 published.slot = At(active_slots, current_slot)
  BY <1>0 DEF Undisturbed, Selected
<1> DEFINE
     Switches == pc' \in {"slots", "urls", "sync"} \/ Syncing' \/ Showing'
                   => rotation' /\ screen_on'
     Active1  == pc' \in {"urls", "compare", "select"} => act' = active_slots'
     Urls1    == pc' = "sync" \/ Syncing' \/ (Showing' /\ pc' # "advance") => urls' = Wanted'
     Chosen   == pc' \in Selected =>
                   /\ current_slot' \in 0..(Len(tab_ids') - 1)
                   /\ tid' = At(tab_ids', current_slot')
     Read1    == pc' = "select" => read' = current_slot'
     Visible  == /\ pc' \in Selected \ {"activate"} => shown' = tid'
                 /\ pc' \in Selected \ {"activate", "current"} =>
                      published'.url = At(urls', current_slot')
                 /\ pc' \in {"reload", "seconds", "dwell"} =>
                      published'.slot = At(active_slots', current_slot')
<1>03. ASSUME Switches, Active1, Urls1, Chosen, Read1, exits' = 0 => Visible
       PROVE  Undisturbed'
  BY <1>03 DEF Undisturbed, Selected
<1>1. Switches
  <2>1. CASE pc = "check"
    BY <1>0, <2>1, Who DEF Main, ReadRotation, StartFlag, Clear, Check, Active, Snapshot,
      SyncCompare, SyncCreate, SyncList, SyncClose, SyncDone, SyncFails, ReadSlot, StoreSlot,
      Activate, PublishUrl, ActiveIndices, CompareSlot, PublishSlot, Reload, Dwell, Interrupted,
      TimesOut, Advance, Resume, Restart, Goes, Syncing, Showing, state
  <2>2. CASE pc # "check"
    <3>1. pc \in {"slots", "urls", "sync"} \/ Syncing \/ Showing
      BY <2>2, Who DEF Main, ReadRotation, StartFlag, Clear, Check, Active, Snapshot, SyncCompare,
        SyncCreate, SyncList, SyncClose, SyncDone, SyncFails, ReadSlot, StoreSlot, Activate,
        PublishUrl, ActiveIndices, CompareSlot, PublishSlot, Reload, Dwell, Interrupted, TimesOut,
        Advance, Resume, Restart, Goes, Dies, Syncing, Showing, TypeOK
    <3>2. QED
      BY <1>0, <1>02, <3>1
  <2>3. QED
    BY <2>1, <2>2
<1>2. Active1
  <2> SUFFICES ASSUME pc' \in {"urls", "compare", "select"} PROVE act' = active_slots'
    OBVIOUS
  <2>1. \/ Active \/ ActiveIndices
        \/ pc \in {"urls", "compare", "select"} /\ UNCHANGED act
    BY Who DEF Main, ReadRotation, StartFlag, Clear, Check, Active, Snapshot, SyncCompare,
      SyncCreate, SyncList, SyncClose, SyncDone, SyncFails, ReadSlot, StoreSlot, Activate,
      PublishUrl, ActiveIndices, CompareSlot, PublishSlot, Reload, Dwell, Interrupted, TimesOut,
      Advance, Resume, Restart, Goes, Dies
  <2>2. QED
    BY <1>0, <1>02, <2>1 DEF Active, ActiveIndices
<1>3. Urls1
  <2> SUFFICES ASSUME pc' = "sync" \/ Syncing' \/ (Showing' /\ pc' # "advance")
               PROVE  urls' = Wanted'
    OBVIOUS
  <2>1. \/ Snapshot
        \/ /\ pc = "sync" \/ Syncing \/ (Showing /\ pc # "advance")
           /\ UNCHANGED urls
    BY Who DEF Main, ReadRotation, StartFlag, Clear, Check, Active, Snapshot, SyncCompare,
      SyncCreate, SyncList, SyncClose, SyncDone, SyncFails, ReadSlot, StoreSlot, Activate,
      PublishUrl, ActiveIndices, CompareSlot, PublishSlot, Reload, Dwell, Interrupted, TimesOut,
      Advance, Resume, Restart, Goes, Dies, Syncing, Showing
  <2>2. CASE Snapshot
    BY <1>0, <1>02, <2>2 DEF Snapshot, Wanted
  <2>3. QED
    BY <1>0, <1>02, <2>1, <2>2
<1>4. Chosen
  <2> SUFFICES ASSUME pc' \in Selected
               PROVE  /\ current_slot' \in 0..(Len(tab_ids') - 1)
                      /\ tid' = At(tab_ids', current_slot')
    OBVIOUS
  <2>1. \/ StoreSlot
        \/ pc \in Selected /\ UNCHANGED <<current_slot, tid, tab_ids>>
    BY <1>0, Who DEF Main, ReadRotation, StartFlag, Clear, Check, Active, Snapshot, SyncCompare,
      SyncCreate, SyncList, SyncClose, SyncDone, SyncFails, ReadSlot, StoreSlot, Activate,
      PublishUrl, ActiveIndices, CompareSlot, PublishSlot, Reload, Dwell, Interrupted, TimesOut,
      Advance, Resume, Restart, Goes, Dies, Selected, state, tabs
  <2>2. CASE StoreSlot
    <3>1. /\ tab_ids # <<>> /\ tab_ids \in Seq(Ids) /\ read \in Int
      BY <1>01, <2>2 DEF StoreSlot, Rebuilds, Showing, TabsOK, LocalsOK
    <3>2. read % Len(tab_ids) \in 0..(Len(tab_ids) - 1)
      BY <3>1, Elements
    <3>3. QED
      BY <2>2, <3>2 DEF StoreSlot, tabs
  <2>3. QED
    BY <1>02, <2>1, <2>2 DEF At
<1>5. Read1
  <2> SUFFICES ASSUME pc' = "select" PROVE read' = current_slot'
    OBVIOUS
  <2>1. \/ CompareSlot
        \/ pc = "select" /\ UNCHANGED <<read, current_slot>>
    BY <1>0, Who DEF Main, ReadRotation, StartFlag, Clear, Check, Active, Snapshot, SyncCompare,
         SyncCreate, SyncList, SyncClose, SyncDone, SyncFails, ReadSlot, StoreSlot, Activate,
         PublishUrl, ActiveIndices, CompareSlot, PublishSlot, Reload, Dwell, Interrupted,
         TimesOut, Advance, Resume, Restart, Goes, Dies, state
  <2>2. QED
    BY <1>02, <2>1 DEF CompareSlot, state
<1>6. ASSUME exits' = 0 PROVE Visible
  <2>0. fails = 0 /\ exits = 0
    BY <1>0, <1>6
  <2>1. ASSUME pc' \in Selected \ {"activate"} PROVE shown' = tid'
    <3>1. \/ Activate
          \/ /\ pc \in Selected \ {"activate"} /\ UNCHANGED tid
             /\ UNCHANGED shown \/ BrowserStarts \/ BrowserExits
      BY <2>1, Who DEF Selected, Main, ReadRotation, StartFlag, Clear, Check, Active, Snapshot,
        SyncCompare, SyncCreate, SyncList, SyncClose, SyncDone, SyncFails, ReadSlot, StoreSlot,
        Activate, PublishUrl, ActiveIndices, CompareSlot, PublishSlot, Reload, Dwell, Interrupted,
        TimesOut, Advance, Resume, Restart, Goes, Dies, browser, Selected
    <3>2. CASE Activate
      <4>1. /\ pc = "activate" /\ Showing /\ UNCHANGED <<tid, fails>>
            /\ \/ Running /\ shown' = IF tid \in DOMAIN pages THEN tid ELSE shown
               \/ ~Running
        <5>1. pc = "activate" /\ UNCHANGED tid /\ (Answered \/ Raises)
              /\ \/ Answered /\ shown' = IF tid \in DOMAIN pages THEN tid ELSE shown
                 \/ Raises
          BY <3>2 DEF Activate, locals
        <5>2. Raises => ~Running
          BY <1>6, <2>0 DEF Raises
        <5>3. QED
          BY <1>6, <2>0, <5>1, <5>2 DEF Answered, Showing
      <4>2. tab_ids # <<>> /\ Running /\ ~Syncing
        BY <2>0, <4>1 DEF Rebuilds, Syncing
      <4>3. tid = At(tab_ids, current_slot) /\ current_slot \in Int /\ tab_ids \in Seq(Ids)
        BY <1>01, <1>02, <4>1 DEF Selected, StateOK, TabsOK
      <4>4. tid \in DOMAIN pages
        BY <2>0, <4>2, <4>3, Elements DEF TabsAsListed
      <4>5. QED
        BY <4>1, <4>2, <4>4
    <3>3. CASE BrowserStarts
      <4>1. ~Running /\ UNCHANGED pc
        BY <3>3 DEF BrowserStarts
      <4>2. QED
        BY <2>0, <2>1, <4>1 DEF Rebuilds, Showing, Selected
    <3>4. CASE BrowserExits
      BY <1>6, <2>0, <3>4 DEF BrowserExits
    <3>5. QED
      BY <1>02, <2>0, <3>1, <3>2, <3>3, <3>4 DEF Selected
  <2>2. ASSUME pc' \in Selected \ {"activate", "current"}
        PROVE  published'.url = At(urls', current_slot')
    <3>1. \/ PublishUrl
          \/ /\ pc \in Selected \ {"activate", "current"}
             /\ UNCHANGED <<urls, current_slot>>
             /\ UNCHANGED published \/ PublishSlot
      BY <1>0, <2>2, Who DEF Selected, Main, ReadRotation, StartFlag, Clear, Check, Active,
        Snapshot, SyncCompare, SyncCreate, SyncList, SyncClose, SyncDone, SyncFails, ReadSlot,
        StoreSlot, Activate, PublishUrl, ActiveIndices, CompareSlot, PublishSlot, Reload, Dwell,
        Interrupted, TimesOut, Advance, Resume, Restart, Goes, Dies, state
    <3>2. published \in [url : URLs, slot : 0..NSlots]
      BY <1>01 DEF PublishedOK
    <3>3. CASE PublishUrl
      <4>1. /\ published' = [published EXCEPT !.url = At(urls, current_slot)]
            /\ UNCHANGED <<urls, current_slot>>
        BY <2>2, <3>3 DEF PublishUrl, Dies, locals, state
      <4>2. QED
        BY <3>2, <4>1 DEF At
    <3>4. CASE PublishSlot
      <4>1. published'.url = published.url
        BY <3>2, <3>4 DEF PublishSlot
      <4>2. pc = "select" /\ UNCHANGED <<urls, current_slot>>
        BY <3>4 DEF PublishSlot, state
      <4>3. QED
        BY <1>02, <2>0, <4>1, <4>2 DEF At, Selected
    <3>5. QED
      BY <1>02, <2>0, <3>1, <3>3, <3>4 DEF At
  <2>3. ASSUME pc' \in {"reload", "seconds", "dwell"}
        PROVE  published'.slot = At(active_slots', current_slot')
    <3>1. \/ PublishSlot
          \/ /\ pc \in {"reload", "seconds", "dwell"} /\ UNCHANGED <<current_slot, published>>
      BY <1>0, <2>3, Who DEF Main, ReadRotation, StartFlag, Clear, Check, Active, Snapshot,
        SyncCompare, SyncCreate, SyncList, SyncClose, SyncDone, SyncFails, ReadSlot, StoreSlot,
        Activate, PublishUrl, ActiveIndices, CompareSlot, PublishSlot, Reload, Dwell, Interrupted,
        TimesOut, Advance, Resume, Restart, Goes, Dies, state
    <3>2. CASE PublishSlot
      <4>1. /\ pc = "select" /\ UNCHANGED current_slot
            /\ act = active_slots /\ read = current_slot
        BY <1>02, <3>2 DEF PublishSlot, state
      <4>2. urls = Wanted /\ urls = tab_urls /\ current_slot < Len(tab_ids)
        BY <1>01, <1>02, <2>0, <4>1 DEF Showing, Selected, TabsAsListed, TabsOK
      <4>3. Len(Wanted) = Len(active_slots)
        <5>1. active_slots \in Seq(Slots)
          BY <1>01, ActiveSlots DEF StateOK
        <5>2. QED
          BY <5>1 DEF Wanted
      <4>4. current_slot < Len(active_slots)
        BY <1>01, <4>2, <4>3 DEF TabsOK
      <4>5. published' = [published EXCEPT !.slot = At(active_slots, current_slot)]
        <5>1. ~(current_slot >= Len(active_slots))
          <6>1. current_slot \in Int /\ Len(active_slots) \in Int
            BY <1>01, ActiveSlots DEF StateOK
          <6>2. QED
            BY <4>4, <6>1
        <5>2. QED
          BY <2>3, <3>2, <4>1, <5>1 DEF PublishSlot, Dies
      <4>6. published'.slot = At(active_slots, current_slot)
        BY <1>01, <4>5 DEF PublishedOK
      <4>7. QED
        BY <1>0, <4>1, <4>6 DEF At
    <3>3. QED
      BY <1>0, <1>02, <2>0, <3>1, <3>2 DEF At
  <2>4. QED
    BY <2>1, <2>2, <2>3
<1>7. QED
  BY <1>03, <1>1, <1>2, <1>3, <1>4, <1>5, <1>6

-----------------------------------------------------------------------------
(* The theorems.                                                           *)

LEMMA IInvInit == Init => IInv
<1> SUFFICES ASSUME Init PROVE IInv
  OBVIOUS
<1>1. TypeOK
  <2>1. /\ NSlots \in Nat /\ None \in Tabs
        /\ \A S : <<>> \in Seq(S) /\ <<>> \in BoundedSeq(S, NSlots)
    BY RotationAssumption, Empty DEF Tabs
  <2>2. DOMAIN <<>> = {} /\ Len(<<>>) = 0
    OBVIOUS
  <2>3. pages \in [DOMAIN pages -> URLs \cup {Blank}] /\ DOMAIN pages = {}
    BY <2>2 DEF Init
  <2>4. Within(0, 0, 0)
    <3>1. PICK b \in Bounds : b \in Nat \X Nat \X Nat
      BY RotationAssumption
    <3>2. b[1] \in Nat /\ b[2] \in Nat /\ b[3] \in Nat
      BY <3>1
    <3>3. 0 <= b[1] /\ 0 <= b[2] /\ 0 <= b[3]
      BY <3>2
    <3>4. QED
      BY <3>3 DEF Within
  <2>5. StateOK /\ PublishedOK /\ CountsOK
    <3>1. slots \in [Slots -> URLs] /\ rotation \in BOOLEAN
      BY DEF Init, URLs
    <3>2. disk \in [slots : [Slots -> URLs], rotation : BOOLEAN]
      BY <3>1 DEF Init
    <3>3. PublishedOK /\ CountsOK
      BY <2>1, <2>4 DEF Init, PublishedOK, CountsOK, URLs
    <3>4. screen_on \in BOOLEAN /\ flag \in BOOLEAN /\ current_slot \in Int
      <4>1. screen_on \in BOOLEAN /\ flag = FALSE /\ current_slot = 0
        BY ZenonT(20) DEF Init
      <4>2. 0 \in Int
        OBVIOUS
      <4>3. QED
        BY <4>1, <4>2, Zenon
    <3>5. QED
      BY <3>1, <3>2, <3>3, <3>4 DEF StateOK
  <2>6. LocalsOK /\ TabsOK /\ BrowserOK
    BY <2>1, <2>2, <2>3 DEF Init, LocalsOK, TabsOK, BrowserOK
  <2>7. QED
    BY <2>5, <2>6, Typed DEF Init, Steps
<1>2. DOMAIN <<>> = {} /\ ToSet(<<>>) = {}
  BY DEF ToSet
<1>3. Rebuilds /\ TabsAsListed /\ Undisturbed
  BY <1>2 DEF Init, Rebuilds, TabsAsListed, Undisturbed, Selected, Syncing, Showing
<1>4. QED
  BY <1>1, <1>3 DEF IInv

\* The inductive invariant: how far a rebuild of the tabs is; what the tabs are while
\* nothing fails; and that what the loop has read is what there is, as long as no
\* command wakes it.
THEOREM Inductive == Spec => []IInv
<1>1. IInv /\ [Next]_vars => IInv'
  BY TypeInv, RebuildsStep, TabsStep, UndisturbedStep DEF IInv
<1>2. QED
  BY <1>1, IInvInit, PTL DEF Spec

\* Whatever commands arrive while the loop is at any of its steps: once it waits, the
\* tabs, the shown page and what is published are those of the slots of now, as long as no
\* request or write has failed and the browser has not been closed.
THEOREM NoChangeMissed == Spec => []ShowsSelection
<1>1. IInv => ShowsSelection
  <2> SUFFICES ASSUME IInv, Settled PROVE
        /\ rotation /\ screen_on
        /\ tab_urls = Wanted
        /\ InRange(tab_ids, current_slot)
        /\ shown = At(tab_ids, current_slot)
        /\ pages[shown] = At(tab_urls, current_slot)
        /\ published = [url |-> pages[shown], slot |-> At(active_slots, current_slot)]
    BY DEF ShowsSelection
  <2>0. /\ TypeOK /\ Rebuilds /\ TabsAsListed /\ Undisturbed
        /\ StateOK /\ TabsOK /\ PublishedOK
        /\ pc = "dwell" /\ ~wake /\ net = "idle" /\ fails = 0 /\ exits = 0
        /\ Showing /\ ~Syncing
    BY Typed DEF IInv, Settled, Showing, Syncing
  <2>1. /\ rotation /\ screen_on /\ urls = Wanted
        /\ current_slot \in 0..(Len(tab_ids) - 1) /\ tid = At(tab_ids, current_slot)
        /\ shown = tid /\ published.url = At(urls, current_slot)
        /\ published.slot = At(active_slots, current_slot)
    BY <2>0 DEF Undisturbed, Selected
  <2>2. /\ tab_ids # <<>> /\ tab_urls = urls
        /\ \A k \in DOMAIN tab_ids : pages[tab_ids[k]] = tab_urls[k]
    BY <2>0 DEF Rebuilds, TabsAsListed
  <2>3. InRange(tab_ids, current_slot)
    BY <2>0, <2>1 DEF InRange, TabsOK
  <2>4. pages[shown] = At(tab_urls, current_slot)
    <3>1. tab_ids \in Seq(Ids) /\ current_slot \in Int /\ Len(tab_ids) = Len(tab_urls)
      BY <2>0 DEF TabsOK, StateOK
    <3>2. (current_slot % Len(tab_ids)) + 1 \in DOMAIN tab_ids
      BY <2>2, <3>1, Elements
    <3>3. QED
      BY <2>1, <2>2, <3>1, <3>2 DEF At
  <2>5. published = [url |-> published.url, slot |-> published.slot]
    BY <2>0 DEF PublishedOK
  <2>6. QED
    BY <2>1, <2>2, <2>3, <2>4, <2>5
<1>2. QED
  BY <1>1, Inductive, PTL

\* No stray tabs while nothing fails: one tab per URL and no other.
THEOREM TabPerUrl == Spec => []OneTabPerUrl
<1>1. IInv => OneTabPerUrl
  BY DEF IInv, OneTabPerUrl, Settled, Rebuilds, TabsAsListed, Showing, Syncing
<1>2. QED
  BY <1>1, Inductive, PTL

\* Only the user ends the browser: a rebuild, whichever of its requests fails, has created
\* its tabs before it closes any.  Nothing is claimed once the user has closed it.
THEOREM BrowserKept == Spec => NeverClosesBrowser
<1>1. IInv /\ [Next]_vars => [Running /\ ~Running' => exits' > 0]_vars
  <2> SUFFICES ASSUME IInv, [Next]_vars, Running, ~Running' PROVE exits' > 0
    OBVIOUS
  <2>0. TypeOK /\ Rebuilds /\ Rebuilds' /\ CountsOK /\ CountsOK'
    BY RebuildsStep, RestType, Typed DEF IInv
  <2>1. BrowserExits \/ SyncClose
    BY Who DEF BrowserStarts, SyncCreate, Open, Activate, Running, browser
  <2>2. CASE BrowserExits
    BY <2>0, <2>2 DEF BrowserExits, CountsOK
  <2>3. CASE SyncClose
    <3>1. Syncing'
      BY <2>3 DEF SyncClose, Syncing
    <3>2. exits' # 0
      BY <2>0, <3>1 DEF Rebuilds
    <3>3. QED
      BY <2>0, <3>2 DEF CountsOK
  <2>4. QED
    BY <2>1, <2>2, <2>3
<1>2. QED
  BY <1>1, Inductive, PTL DEF Spec, NeverClosesBrowser
=============================================================================
