-------------------------- MODULE PhotoFrameProofs --------------------------
(* Proofs about the page of the photo frame, for any folder, any number of   *)
(* pictures being preloaded at a time and any number of failures.            *)
EXTENDS PhotoFrame, FiniteSetTheorems, TLAPS

\* What adding an element to a bag and taking one out leave.
LEMMA BagAdd ==
    ASSUME NEW w, IsABag(w), NEW p
    PROVE  /\ IsABag(w (+) SetToBag({p}))
           /\ BagToSet(w (+) SetToBag({p})) = BagToSet(w) \cup {p}
BY DEF IsABag, BagToSet, SetToBag, (+)

LEMMA BagTake ==
    ASSUME NEW w, IsABag(w), NEW p
    PROVE  /\ IsABag(w (-) SetToBag({p}))
           /\ BagToSet(w (-) SetToBag({p})) \subseteq BagToSet(w)
BY DEF IsABag, BagToSet, SetToBag, (-)

\* A shuffled playlist has every picture once.
LEMMA Shuffled ==
    ASSUME NEW S \in SUBSET Images, NEW q \in SetToSeqs(S)
    PROVE  /\ Len(q) = Cardinality(S) /\ Len(q) \in Nat
           /\ \A i \in 1..Len(q) : q[i] \in S
           /\ q = <<>> <=> Len(q) = 0
<1>1. Cardinality(S) \in Nat
  <2>1. S \in SUBSET Entries /\ IsFiniteSet(Entries)
    BY FrameAssumption
  <2>2. QED
    BY <2>1, FS_Subset, FS_CardinalityType
<1>2. q \in [1..Cardinality(S) -> S]
  BY DEF SetToSeqs
<1>3. q \in Seq(S)
  BY <1>1, <1>2
<1>4. QED
  BY <1>1, <1>2, <1>3

\* A list, a playlist that shuffles its pictures and a place in it.
PlayOK(p, q, k) ==
    /\ p \subseteq Images /\ q \in {<<>>} \cup SetToSeqs(p)
    /\ k \in Nat /\ (q # <<>> => k <= Len(q))
PreOK(w) == IsABag(w) /\ BagToSet(w) \subseteq Preload

\* Going on in the playlist keeps it one of the list, and preloads one of its pictures
\* for a slide.
LEMMA GoesOn ==
    ASSUME NEW p, NEW q, NEW k, NEW w, PlayOK(p, q, k), PreOK(w), front \in {0, 1},
           ShowNext(p, q, k, w)
    PROVE  PlayOK(p, playlist', index') /\ PreOK(pre')
<1>1. CASE q = <<>>
  BY <1>1 DEF ShowNext, PlayOK, PreOK
<1>2. CASE q # <<>>
  <2>1. /\ q \in SetToSeqs(p) /\ p \in SUBSET Images /\ k \in Nat /\ k <= Len(q)
        /\ Len(q) = Cardinality(p) /\ Len(q) \in Nat /\ Len(q) # 0
    BY <1>2, Shuffled DEF PlayOK
  <2>2. PICK l \in (IF k < Len(q) THEN {q} ELSE SetToSeqs(p)) :
          LET i == IF k < Len(q) THEN k + 1 ELSE 1
          IN  /\ playlist' = l /\ index' = i
              /\ pre' = w (+) SetToBag({[image |-> l[i], slide |-> 1 - front, came |-> FALSE]})
    BY <1>2 DEF ShowNext
  <2>3. /\ l \in SetToSeqs(p) /\ Len(l) = Len(q)
        /\ \A i \in 1..Len(l) : l[i] \in Images
    BY <2>1, <2>2, Shuffled
  <2>4. index' \in 1..Len(l)
    BY <2>1, <2>2, <2>3
  <2>5. PlayOK(p, playlist', index')
    BY <2>1, <2>2, <2>3, <2>4 DEF PlayOK
  <2> DEFINE x == [image |-> l[index'], slide |-> 1 - front, came |-> FALSE]
  <2>6. x \in Preload /\ pre' = w (+) SetToBag({x})
    BY <2>2, <2>3, <2>4 DEF Preload
  <2>7. /\ IsABag(w (+) SetToBag({x}))
        /\ BagToSet(w (+) SetToBag({x})) = BagToSet(w) \cup {x}
    BY BagAdd DEF PreOK
  <2>8. PreOK(w (+) SetToBag({x}))
    BY <2>6, <2>7 DEF PreOK
  <2>9. PreOK(pre')
    BY <2>6, <2>8
  <2>10. QED
    BY <2>5, <2>9
<1>3. QED
  BY <1>1, <1>2

LEMMA Anew ==
    ASSUME NEW p \in SUBSET Images, PreOK(pre), front \in {0, 1}, PlayAnew(p)
    PROVE  PlayOK(p, playlist', index') /\ PreOK(pre') /\ timer' /\ UNCHANGED message
<1>1. PICK q \in SetToSeqs(p) : ShowNext(p, q, 0, pre)
  BY DEF PlayAnew
<1>2. PlayOK(p, q, 0)
  BY Shuffled DEF PlayOK
<1>3. QED
  BY <1>1, <1>2, GoesOn DEF PlayAnew

\* The part of the type invariant that is about the playing.
LEMMA Playing ==
    TypeOK <=> /\ folder \subseteq Entries
               /\ store \in Data /\ scan \in {None} \cup [pictures : SUBSET Images]
               /\ loads \subseteq Data
               /\ PlayOK(images, playlist, index) /\ timer = (images # {})
               /\ front \in {0, 1} /\ visible \subseteq {0, 1}
               /\ slides \in [{0, 1} -> Images \cup {None}] /\ PreOK(pre)
               /\ message \in {"loading", "hidden", "empty", "error", "offline"}
               /\ edits \in 0..MaxEdits /\ faults \in 0..MaxFaults
BY DEF TypeOK, PlayOK, PreOK, Preload

LEMMA Counted ==
    ASSUME TypeOK
    PROVE  /\ Fault => faults' \in 0..MaxFaults
           /\ edits > 0 /\ edits' = edits - 1 => edits' \in 0..MaxEdits
BY FrameAssumption DEF TypeOK, Fault

LEMMA TypeInv == TypeOK /\ [Next]_vars => TypeOK'
<1> SUFFICES ASSUME TypeOK, [Next]_vars PROVE TypeOK'
  OBVIOUS
<1> DEFINE Frame == <<folder, store, scan, loads>>
           Page  == <<images, playlist, index, timer, front, slides, visible, pre, message>>
<1>0. PlayOK(images, playlist, index) /\ PreOK(pre) /\ front \in {0, 1} /\ images \subseteq Images
  BY DEF TypeOK, PlayOK, PreOK, Preload
<1>1. ASSUME UNCHANGED Page,
             folder' \subseteq Entries, store' \in Data,
             scan' \in {None} \cup [pictures : SUBSET Images], loads' \subseteq Data,
             edits' \in 0..MaxEdits, faults' \in 0..MaxFaults
      PROVE  TypeOK'
  BY <1>1 DEF TypeOK
<1>2. CASE UNCHANGED vars
  BY <1>2 DEF vars, server, list, stage, TypeOK
<1>3. ASSUME NEW e \in Entries, Edit(e) PROVE TypeOK'
  BY <1>1, <1>3, Counted DEF Edit, server, list, stage, TypeOK
<1>4. CASE List \/ Replace
  <2>1. Pictures(folder) \in SUBSET Images
    BY DEF Pictures
  <2>2. store' \in Data /\ scan' \in {None} \cup [pictures : SUBSET Images]
    <3>1. store \in Data /\ scan \in {None} \cup [pictures : SUBSET Images]
      BY DEF TypeOK
    <3>2. CASE List
      BY <2>1, <3>1, <3>2 DEF List
    <3>3. CASE Replace
      <4>1. scan.pictures \in SUBSET Images
        BY <3>1, <3>3 DEF Replace
      <4>2. QED
        BY <3>3, <4>1 DEF Replace, Data
    <3>4. QED
      BY <1>4, <3>2, <3>3
  <2>3. QED
    BY <1>1, <1>4, <2>2 DEF List, Replace, list, stage, TypeOK
<1>5. CASE ScanFails \/ Restart
  <2>1. store' \in Data
    <3>1. store \in Data
      BY DEF TypeOK
    <3>2. CASE ScanFails
      BY <3>1, <3>2 DEF ScanFails, Data
    <3>3. CASE Restart
      BY <3>3 DEF Restart, NewStore, Data
    <3>4. QED
      BY <1>5, <3>2, <3>3
  <2>2. QED
    BY <1>1, <1>5, <2>1, Counted DEF ScanFails, Restart, list, stage, TypeOK
<1>6. CASE Load
  BY <1>1, <1>6 DEF Load, server, list, stage, TypeOK
<1>7. ASSUME NEW data \in loads, Loaded(data) PROVE TypeOK'
  <2>1. /\ data.pictures \in SUBSET Images /\ data.failed \in BOOLEAN
        /\ loads' \subseteq Data
    BY <1>7 DEF TypeOK, Data, Loaded
  <2>2. /\ images' = data.pictures
        /\ UNCHANGED <<folder, store, scan, front, slides, visible, edits, faults>>
    BY <1>7 DEF Loaded, server, stage
  <2>3. CASE data.pictures = {}
    <3>1. /\ timer' = FALSE /\ playlist' = <<>>
          /\ message' \in {"error", "empty"} /\ UNCHANGED <<index, pre>>
      BY <1>7, <2>3 DEF Loaded
    <3>2. PlayOK(images', playlist', index') /\ PreOK(pre')
      BY <1>0, <2>1, <2>2, <3>1 DEF PlayOK
    <3>3. QED
      BY <2>1, <2>2, <2>3, <3>1, <3>2 DEF TypeOK, PlayOK, PreOK, Preload
  <2>4. CASE data.pictures \notin {{}, images}
    <3>1. PlayAnew(data.pictures)
      BY <1>7, <2>4 DEF Loaded
    <3>2. PlayOK(images', playlist', index') /\ PreOK(pre') /\ timer' = TRUE
          /\ UNCHANGED message
      BY <1>0, <2>1, <2>2, <3>1, Anew DEF PlayAnew
    <3>3. QED
      BY <2>1, <2>2, <2>4, <3>2 DEF TypeOK, PlayOK, PreOK, Preload
  <2>5. CASE data.pictures = images /\ images # {}
    <3>1. UNCHANGED <<playlist, index, timer, pre, message>>
      BY <1>7, <2>5 DEF Loaded
    <3>2. QED
      BY <2>1, <2>2, <2>5, <3>1 DEF TypeOK
  <2>6. QED
    BY <2>3, <2>4, <2>5
<1>8. ASSUME NEW data \in loads, LoadFails(data) PROVE TypeOK'
  <2>1. /\ loads' \subseteq Data /\ faults' \in 0..MaxFaults /\ message' = "offline"
        /\ UNCHANGED <<folder, store, scan, images, playlist, index, timer, front, slides,
                      visible, pre, edits>>
    BY <1>8, Counted DEF LoadFails, server, list, stage, TypeOK
  <2>2. QED
    BY <2>1 DEF TypeOK
<1>9. CASE Tick
  <2>1. PlayOK(images, playlist', index') /\ PreOK(pre')
    BY <1>0, <1>9, GoesOn DEF Tick
  <2>2. UNCHANGED <<folder, store, scan, loads, images, timer, front, slides, visible,
                    message, edits, faults>>
    BY <1>9 DEF Tick, server, stage
  <2>3. QED
    BY <2>1, <2>2 DEF TypeOK, PlayOK, PreOK, Preload
<1>10. ASSUME NEW p \in BagToSet(pre), OnLoad(p) PROVE TypeOK'
  <2>1. p.slide \in {0, 1} /\ p.image \in Images /\ PreOK(pre')
    BY <1>0, <1>10, BagTake DEF OnLoad, Without, PreOK, Preload
  <2>2. /\ slides' \in [{0, 1} -> Images \cup {None}] /\ visible' \subseteq {0, 1}
        /\ front' \in {0, 1} /\ message' = "hidden"
    BY <1>0, <1>10, <2>1 DEF OnLoad, Reveal, TypeOK
  <2>3. UNCHANGED <<folder, store, scan, loads, images, playlist, index, timer, edits, faults>>
    BY <1>10 DEF OnLoad, server, list
  <2>4. QED
    BY <2>1, <2>2, <2>3 DEF TypeOK, PreOK, Preload
<1>11. ASSUME NEW p \in BagToSet(pre), OnError(p) PROVE TypeOK'
  <2>1. PreOK(Without(p))
    BY <1>0, BagTake DEF Without, PreOK
  <2>2. PlayOK(images, playlist', index') /\ PreOK(pre')
    <3>1. CASE Cardinality(images) > 1
      BY <1>0, <1>11, <2>1, <3>1, GoesOn DEF OnError
    <3>2. CASE ~(Cardinality(images) > 1)
      BY <1>0, <1>11, <2>1, <3>2 DEF OnError
    <3>3. QED
      BY <3>1, <3>2
  <2>3. faults' \in 0..MaxFaults
    BY <1>11, Counted DEF OnError, NoFault, TypeOK
  <2>4. UNCHANGED <<folder, store, scan, loads, images, timer, front, slides, visible,
                    message, edits>>
    BY <1>11 DEF OnError, server, stage
  <2>5. QED
    BY <2>2, <2>3, <2>4 DEF TypeOK, PlayOK, PreOK, Preload
<1>12. ASSUME NEW p \in BagToSet(pre), Arrive(p) PROVE TypeOK'
  <2> DEFINE x == [p EXCEPT !.came = TRUE]
  <2>1. x \in Preload /\ PreOK(Without(p))
    <3>1. p \in Preload
      BY <1>0 DEF PreOK
    <3>2. x \in Preload
      BY <3>1 DEF Preload
    <3>3. PreOK(Without(p))
      BY <1>0, BagTake DEF Without, PreOK
    <3> QED
      BY <3>2, <3>3
  <2>2. IsABag(Without(p) (+) SetToBag({x}))
        /\ BagToSet(Without(p) (+) SetToBag({x})) = BagToSet(Without(p)) \cup {x}
    <3>1. IsABag(Without(p))
      BY <2>1 DEF PreOK
    <3> QED
      BY <3>1, BagAdd
  <2>3. pre' = Without(p) (+) SetToBag({x})
    BY <1>12 DEF Arrive
  <2>4. PreOK(pre')
    BY <2>1, <2>2, <2>3 DEF PreOK
  <2>5. UNCHANGED <<folder, store, scan, loads, images, playlist, index, timer, front, slides,
                    visible, message, edits, faults>>
    BY <1>12 DEF Arrive, server, list, stage
  <2>6. QED
    BY <2>4, <2>5 DEF TypeOK, PreOK
<1>13. QED
  BY <1>2, <1>3, <1>4, <1>5, <1>6, <1>7, <1>8, <1>9, <1>10, <1>11, <1>12 DEF Next, Preloaded

LEMMA TypeInit == Init => TypeOK
<1> SUFFICES ASSUME Init PROVE TypeOK
  OBVIOUS
<1>1. IsABag(pre) /\ BagToSet(pre) = {}
  BY DEF Init, EmptyBag, SetToBag, IsABag, BagToSet
<1>2. QED
  BY <1>1, FrameAssumption DEF Init, TypeOK, NewStore, Data

-----------------------------------------------------------------------------
(* One picture on the screen.                                              *)

\* OnePicture without counting: nothing was ever shown, or one slide is visible
\* and has a picture.
Shows ==
    \/ visible = {} /\ \A s \in {0, 1} : slides[s] = None
    \/ \E s \in {0, 1} : visible = {s} /\ slides[s] # None

LEMMA Counts == Shows => OnePicture
<1> SUFFICES ASSUME Shows PROVE OnePicture
  OBVIOUS
<1>1. CASE visible = {} /\ \A s \in {0, 1} : slides[s] = None
  BY <1>1, FS_EmptySet DEF OnePicture
<1>2. ASSUME NEW s \in {0, 1}, visible = {s}, slides[s] # None PROVE OnePicture
  <2>1. Cardinality(visible) = 1
    BY <1>2, FS_Singleton
  <2>2. QED
    BY <1>2, <2>1 DEF OnePicture
<1>3. QED
  BY <1>1, <1>2 DEF Shows

\* Only a preloaded picture changes the stage.
LEMMA ShowsStep == TypeOK /\ Shows /\ [Next]_vars => Shows'
<1> SUFFICES ASSUME TypeOK, Shows, [Next]_vars PROVE Shows'
  OBVIOUS
<1>1. CASE UNCHANGED stage
  BY <1>1 DEF Shows, stage
<1>2. ASSUME NEW p \in BagToSet(pre), OnLoad(p) PROVE Shows'
  <2>1. p.slide \in {0, 1} /\ p.image \in Images /\ None \notin Images
    BY FrameAssumption DEF TypeOK, Preload
  <2>2. slides' = [slides EXCEPT ![p.slide] = p.image] /\ visible' = {p.slide}
    BY <1>2 DEF OnLoad, Reveal
  <2>3. slides'[p.slide] # None
    BY <2>1, <2>2 DEF TypeOK
  <2>4. QED
    BY <2>1, <2>2, <2>3 DEF Shows
<1>3. (\E p \in BagToSet(pre) : OnLoad(p)) \/ UNCHANGED stage
  BY DEF Next, vars, Edit, List, Replace, ScanFails, Restart, Load, Loaded, LoadFails, Tick,
         Preloaded, OnError, Arrive
<1>4. QED
  BY <1>1, <1>2, <1>3

\* The lists of server and page and all preloads consist of pictures, never of other files
\* of the folder; the playlist is empty or a permutation of the page's own list, which is
\* played exactly while it is not empty; every preload is for one of the slides.
THEOREM TypeCorrect == Spec => []TypeOK
<1>1. QED
  BY TypeInit, TypeInv, PTL DEF Spec

\* One picture on the screen from the first one on, in whatever order and however many
\* at a time pictures are preloaded.
THEOREM OneAtATime == Spec => []OnePicture
<1>1. Init => TypeOK /\ Shows
  BY TypeInit DEF Init, Shows
<1>2. TypeOK /\ Shows /\ [Next]_vars => (TypeOK /\ Shows)'
  BY TypeInv, ShowsStep
<1>3. QED
  BY <1>1, <1>2, Counts, PTL DEF Spec
=============================================================================
