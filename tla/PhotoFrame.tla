------------------------------ MODULE PhotoFrame ------------------------------
(***************************************************************************)
(* The photo frame (apps/photoframe): a server that lists a WebDAV folder   *)
(* now and then, and the page of web/index.html that fetches the list, plays *)
(* it in random order and cross-fades between two slides.                   *)
(*                                                                         *)
(* The page's script is one thread: its callbacks (a fetched list, a tick of *)
(* the interval, a preloaded or broken picture) are one action each, and the *)
(* requests between them are answered in any order.  The ID of a picture is  *)
(* the picture; the server's order is a function of the set of pictures, so   *)
(* a list is a set.  The cache of the browser is not modelled.               *)
(***************************************************************************)
EXTENDS Integers, FiniteSets, Bags, SequencesExt

CONSTANTS
    Entries,      \* what the folder may hold
    Images,       \* the entries that are pictures
    None,
    MaxLoads,     \* requests for the list under way at a time
    MaxPreloads,  \* pictures under way when the interval ticks
    MaxEdits,     \* changes of the folder
    MaxFaults     \* failures and restarts

ASSUME FrameAssumption ==
    /\ IsFiniteSet(Entries) /\ Images \subseteq Entries /\ None \notin Entries
    /\ {MaxLoads, MaxPreloads, MaxEdits, MaxFaults} \subseteq Nat

VARIABLES
    folder,    \* the WebDAV folder
    store,     \* the server's list of pictures, and whether the last scan failed
    scan,      \* the answer to its PROPFIND, or None
    loads,     \* the answers to the page's requests for the list
    images, playlist, index, timer,
    front, slides, visible,   \* the slides, 0 and 1
    pre,       \* the pictures being preloaded, each for a slide, and whether they have come
    message,
    edits, faults

server == <<store, scan>>
list   == <<images, playlist, index, timer>>
stage  == <<front, slides, visible>>
vars   == <<folder, server, loads, list, stage, pre, message, edits, faults>>

\* What the server answers to a request for the list.
Data == [pictures : SUBSET Images, failed : BOOLEAN]

Preload == [image : Images, slide : {0, 1}, came : BOOLEAN]

TypeOK ==
    /\ folder \subseteq Entries
    /\ store \in Data /\ scan \in {None} \cup [pictures : SUBSET Images]
    /\ loads \subseteq Data
    /\ images \subseteq Images
    /\ playlist = <<>> \/ playlist \in SetToSeqs(images)
    /\ index \in Nat /\ (playlist # <<>> => index <= Len(playlist))
    /\ timer = (images # {})
    /\ front \in {0, 1} /\ visible \subseteq {0, 1}
    /\ slides \in [{0, 1} -> Images \cup {None}]
    /\ IsABag(pre) /\ BagToSet(pre) \subseteq Preload
    /\ message \in {"loading", "hidden", "empty", "error", "offline"}
    /\ edits \in 0..MaxEdits /\ faults \in 0..MaxFaults

NewStore == [pictures |-> {}, failed |-> FALSE]

Init ==
    /\ folder \in SUBSET Entries
    /\ store = NewStore /\ scan = None /\ loads = {}
    /\ images = {} /\ playlist = <<>> /\ index = 0 /\ timer = FALSE
    /\ front = 0 /\ slides = [s \in {0, 1} |-> None] /\ visible = {}
    /\ pre = EmptyBag /\ message = "loading"
    /\ edits = MaxEdits /\ faults = MaxFaults

Fault   == faults > 0 /\ faults' = faults - 1
NoFault == UNCHANGED faults

\* Somebody adds or removes an entry.
Edit(e) ==
    /\ edits > 0 /\ edits' = edits - 1
    /\ folder' = (IF e \in folder THEN folder \ {e} ELSE folder \cup {e})
    /\ UNCHANGED <<server, loads, list, stage, pre, message, faults>>

-----------------------------------------------------------------------------
(* The server.                                                             *)

\* imageHref: neither the folder itself, nor a sub-collection, nor another file.
Pictures(entries) == entries \cap Images

\* refresh asks for the folder ...
List ==
    /\ scan = None /\ scan' = [pictures |-> Pictures(folder)]
    /\ UNCHANGED <<folder, store, loads, list, stage, pre, message, edits, faults>>

\* Mutant: what is no longer in the folder stays in the list.
Merge ==
    /\ scan # None /\ scan' = None
    /\ store' = [pictures |-> store.pictures \cup scan.pictures, failed |-> FALSE]
    /\ UNCHANGED <<folder, loads, list, stage, pre, message, edits, faults>>

\* ... and replaces the list by the answer.
Replace ==
    /\ scan # None /\ scan' = None
    /\ store' = [pictures |-> scan.pictures, failed |-> FALSE]
    /\ UNCHANGED <<folder, loads, list, stage, pre, message, edits, faults>>

\* A scan that fails leaves the list as it is.
ScanFails ==
    /\ Fault /\ scan' = None /\ store' = [store EXCEPT !.failed = TRUE]
    /\ UNCHANGED <<folder, loads, list, stage, pre, message, edits>>

\* The server starts anew, with an empty list.
Restart ==
    /\ Fault /\ store' = NewStore /\ scan' = None
    /\ UNCHANGED <<folder, loads, list, stage, pre, message, edits>>

\* handleImages answers with the list of the moment.
Load ==
    /\ Cardinality(loads \cup {store}) <= MaxLoads /\ loads' = loads \cup {store}
    /\ UNCHANGED <<folder, server, list, stage, pre, message, edits, faults>>

\* handleImage: the ID is in the list and WebDAV has the file.
Served(image) == image \in store.pictures \cap folder

-----------------------------------------------------------------------------
(* The page.                                                               *)

\* next, with the pictures p, the playlist q, played up to k, while w is being
\* preloaded: after a pass the playlist is shuffled anew.
ShowNext(p, q, k, w) ==
    IF q = <<>> THEN playlist' = q /\ index' = k /\ pre' = w
    ELSE \E l \in (IF k < Len(q) THEN {q} ELSE SetToSeqs(p)) :
           LET i == IF k < Len(q) THEN k + 1 ELSE 1
           IN /\ playlist' = l /\ index' = i
              /\ pre' = w (+) SetToBag({[image |-> l[i], slide |-> 1 - front, came |-> FALSE]})

\* Mutant: the old playlist goes on when the list has changed.
KeepsPlaying(p) ==
    /\ ShowNext(p, playlist, index, pre) /\ timer' = TRUE /\ UNCHANGED message

\* Another list of pictures: shuffle, index = 0, next and restartTimer.
PlayAnew(p) ==
    /\ \E q \in SetToSeqs(p) : ShowNext(p, q, 0, pre)
    /\ timer' = TRUE /\ UNCHANGED message

\* The list has come.
Loaded(data) ==
    /\ loads' = loads \ {data} /\ images' = data.pictures
    /\ CASE data.pictures = {} ->
              /\ timer' = FALSE /\ playlist' = <<>>
              /\ message' = IF data.failed THEN "error" ELSE "empty"
              /\ UNCHANGED <<index, pre>>
         [] data.pictures \notin {{}, images} -> PlayAnew(data.pictures)
         [] OTHER -> UNCHANGED <<playlist, index, timer, pre, message>>
    /\ UNCHANGED <<folder, server, stage, edits, faults>>

\* It has not.
LoadFails(data) ==
    /\ Fault /\ loads' = loads \ {data} /\ message' = "offline"
    /\ UNCHANGED <<folder, server, list, stage, pre, edits>>

\* The interval.
Tick ==
    /\ timer /\ BagCardinality(pre) < MaxPreloads /\ ShowNext(images, playlist, index, pre)
    /\ UNCHANGED <<folder, server, loads, images, timer, stage, message, edits, faults>>

\* Mutant: the other slide stays.
RevealOnly(s, image) ==
    /\ slides' = [slides EXCEPT ![s] = image] /\ visible' = visible \cup {s}
    /\ front' = 1 - front

\* The slide s gets the picture and becomes visible, the other one invisible.
Reveal(s, image) ==
    /\ slides' = [slides EXCEPT ![s] = image] /\ visible' = {s}
    /\ front' = 1 - front

Without(p) == pre (-) SetToBag({p})

\* The server answers the request for a picture with the file; the page hears of it later, when
\* the picture may be gone.
Arrive(p) ==
    /\ ~p.came /\ Served(p.image)
    /\ pre' = Without(p) (+) SetToBag({[p EXCEPT !.came = TRUE]})
    /\ UNCHANGED <<folder, server, loads, list, stage, message, edits, faults>>

\* A picture has been preloaded.
OnLoad(p) ==
    /\ p.came /\ Reveal(p.slide, p.image)
    /\ message' = "hidden" /\ pre' = Without(p)
    /\ UNCHANGED <<folder, server, loads, list, edits, faults>>

\* A picture that cannot be served, or not be shown, is skipped; the page hears of a refusal
\* at once.
OnError(p) ==
    /\ IF p.came \/ Served(p.image) THEN Fault ELSE NoFault
    /\ IF Cardinality(images) > 1
       THEN ShowNext(images, playlist, index, Without(p))
       ELSE pre' = Without(p) /\ UNCHANGED <<playlist, index>>
    /\ UNCHANGED <<folder, server, loads, images, timer, stage, message, edits>>

-----------------------------------------------------------------------------
Preloaded(image) ==
    \E p \in BagToSet(pre) : p.image = image /\ (Arrive(p) \/ OnLoad(p) \/ OnError(p))

Next ==
    \/ \E e \in Entries : Edit(e)
    \/ List \/ Replace \/ ScanFails \/ Restart
    \/ Load \/ \E data \in loads : Loaded(data) \/ LoadFails(data)
    \/ Tick \/ \E image \in Images : Preloaded(image)

Spec == Init /\ [][Next]_vars

\* Tickers and timers go on, and every request is answered or times out.
FairSpec ==
    /\ Spec /\ WF_vars(List) /\ WF_vars(Replace)
    /\ WF_vars(Load) /\ WF_vars(\E data \in loads : Loaded(data))
    /\ WF_vars(Tick) /\ \A image \in Images : WF_vars(Preloaded(image))

-----------------------------------------------------------------------------
(* Properties                                                              *)

\* Whatever order pictures are preloaded in, and however many at a time, there
\* is one picture on the screen from the first one on: the slides never cover
\* one another and the screen never goes blank.
OnePicture ==
    /\ Cardinality(visible) =
         IF \A s \in {0, 1} : slides[s] = None THEN 0 ELSE 1
    /\ \A s \in visible : slides[s] # None

\* After the last change of the folder the page plays what the folder holds, even
\* if requests for the list overtake one another, scans fail or the server starts
\* anew; and it ends up with a message exactly if there is nothing to show.
Settles == <>[](/\ images = folder \cap Images
                /\ (images = {}) <=> (message # "hidden"))

\* Every picture that stays in the folder is shown again and again.
EveryPictureShown ==
    \A image \in Images :
        <>[](image \in folder)
          => []<>(\E s \in visible : slides[s] = image)

\* What the comment on next says: it fades from one slide to the other.  A
\* picture comes to the slide that is not visible.
CrossFades ==
    [][\A s \in visible : slides'[s] = slides[s]]_vars
=============================================================================
