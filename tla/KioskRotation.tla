---------------------------- MODULE KioskRotation ----------------------------
(***************************************************************************)
(* The URL rotation of the kiosk agent (ansible/roles/kiosk/files/agent.py) *)
(*                                                                         *)
(* The main thread keeps one Chromium tab per URL slot and goes round them; *)
(* the MQTT thread changes slots, switches and the current slot at any      *)
(* moment, with a lock the main thread does not take, and wakes it.  The    *)
(* two interleave wherever Python may switch threads, which since CPython   *)
(* 3.10 is at calls and at jumps back.  A comprehension over the slots is   *)
(* taken as one step all the same: a command changes one slot, and what the *)
(* comprehension sees of it, it could have seen as a whole.  Chromium       *)
(* (external) is driven by requests that may fail, and may be closed by the *)
(* user; a loop outside starts it again while a flag file is there.  An     *)
(* exception the main thread does not catch ends the agent, and systemd     *)
(* starts it again.                                                         *)
(***************************************************************************)
EXTENDS Integers, FiniteSets, SequencesExt

CONSTANTS
    NSlots,       \* CFG["slots"]
    Urls,         \* the URLs the commands carry
    None,         \* an empty URL; no tab
    Blank,        \* about:blank
    Ids,          \* the targetIds of Chromium tabs
    Bounds        \* how many MQTT commands arrive, DevTools requests or writes of a file
                  \* fail, and times the user closes the browser: the combinations

Slots == 1..NSlots

ASSUME RotationAssumption ==
    /\ NSlots \in Nat \ {0}
    /\ Ids \subseteq Nat /\ None \notin Ids
    /\ None \notin Urls /\ Blank \notin Urls
    /\ Bounds \subseteq Nat \X Nat \X Nat /\ Bounds # {}

VARIABLES
    slots,         \* STATE["slots"]: the URL of each slot
    rotation,      \* STATE["rotation"]
    screen_on,
    current_slot,  \* index into the active slots, shared without a lock
    disk,          \* the state file: the slots and the rotation that were saved last
    flag,          \* AUTOSTART_FLAG is there
    wake,          \* the event that interrupts a wait
    net,           \* the MQTT thread: between messages, about to set or remove the flag
                   \* file, or about to wake.set()
    pc,            \* where the main thread is
    act,           \* its result of active_slots(), then its active_idx
    urls,          \* its snapshot of their URLs
    read,          \* its copy of current_slot while it normalises or compares it
    tid,           \* the tab it is showing
    prev_id,       \* the tab it showed before
    new_ids,       \* the tabs sync_tabs has created so far
    closing,       \* and the pages it found that it still has to close
    tab_urls, tab_ids,
    pages,         \* Chromium: the URL of every open tab; empty if not running
    shown,         \* Chromium: the visible tab
    published,     \* the retained current_url and show_url at the broker
    commands, fails, exits  \* how many of them there have been

state   == <<slots, rotation, screen_on, current_slot, disk, flag>>
mqtt    == <<net, commands>>
locals  == <<act, urls, read, tid, prev_id, new_ids, closing>>
tabs    == <<tab_urls, tab_ids>>
browser == <<pages, shown>>
vars == <<state, wake, mqtt, pc, locals, tabs, browser, published, fails, exits>>

Tabs == Ids \cup {None}
Within(c, f, e) == \E b \in Bounds : c <= b[1] /\ f <= b[2] /\ e <= b[3]

TypeOK ==
    /\ slots \in [Slots -> Urls \cup {None}]
    /\ rotation \in BOOLEAN /\ screen_on \in BOOLEAN /\ wake \in BOOLEAN
    /\ current_slot \in Int /\ read \in Int
    /\ disk \in [slots : [Slots -> Urls \cup {None}], rotation : BOOLEAN]
    /\ flag \in BOOLEAN
    /\ net \in {"idle", "flag", "wake"}
    /\ pc \in {"flag", "make", "remove", "top", "check", "slots", "urls", "sync", "create",
               "list", "close", "mod", "index", "activate", "current", "show", "compare",
               "select", "reload", "seconds", "dwell", "advance", "pause", "dead"}
    /\ act \in BoundedSeq(Slots, NSlots) /\ urls \in BoundedSeq(Urls \cup {None}, NSlots)
    /\ {tid, prev_id, shown} \subseteq Tabs
    /\ new_ids \in Seq(Ids) /\ tab_ids \in Seq(Ids) /\ closing \subseteq Ids
    /\ tab_urls \in Seq(Urls \cup {None}) /\ Len(tab_ids) = Len(tab_urls)
    /\ DOMAIN pages \subseteq Ids /\ pages \in [DOMAIN pages -> Urls \cup {None, Blank}]
    /\ IF DOMAIN pages = {} THEN shown = None ELSE shown \in DOMAIN pages
    /\ published \in [url : Urls \cup {None}, slot : 0..NSlots]
    /\ {commands, fails, exits} \subseteq Nat /\ Within(commands, fails, exits)

\* After booting, when the directory of the flag file is empty.
Init ==
    /\ slots \in [Slots -> Urls \cup {None}]
    /\ rotation \in BOOLEAN /\ screen_on \in BOOLEAN
    /\ disk = [slots |-> slots, rotation |-> rotation] /\ flag = FALSE
    /\ current_slot = 0 /\ wake = FALSE /\ net = "idle" /\ pc = "flag"
    /\ act = <<>> /\ urls = <<>> /\ read = 0 /\ tid = None /\ prev_id = None
    /\ new_ids = <<>> /\ closing = {} /\ tab_urls = <<>> /\ tab_ids = <<>>
    /\ pages = <<>> /\ shown = None
    /\ published = [url |-> None, slot |-> 0]
    /\ commands = 0 /\ fails = 0 /\ exits = 0

\* The place of slot i among those that have a URL.
Place(i) == Cardinality({j \in 1..i : slots[j] # None})

\* The slots that have a URL, in order.
active_slots ==
    LET active == {i \in Slots : slots[i] # None}
    IN  [k \in 1..Cardinality(active) |-> CHOOSE i \in active : Place(i) = k]

\* Python's seq[i]: negative indices count from the end.
InRange(seq, i) == i >= -Len(seq) /\ i < Len(seq)
At(seq, i)      == seq[(i % Len(seq)) + 1]

Goes(to) == pc' = to
\* An exception nobody catches ends the main thread, and with it the agent.
Dies == pc' = "dead"

-----------------------------------------------------------------------------
(* Chromium, external: tabs are opened in the foreground, closing the       *)
(* visible tab shows another, and closing the last one ends the browser.    *)

Running == DOMAIN pages # {}

\* A targetId that nothing refers to.
Fresh(id) ==
    LET used == DOMAIN pages \cup ToSet(tab_ids) \cup ToSet(new_ids)
                \cup closing \cup {tid, prev_id}
    IN  id \in Ids \ used /\ \A i \in Ids \ used : id <= i

Open(id, url) ==
    /\ pages' = [i \in DOMAIN pages \cup {id} |-> IF i = id THEN url ELSE pages[i]]
    /\ shown' = id

Closed(id) ==
    /\ pages' = Restrict(pages, DOMAIN pages \ {id})
    /\ IF shown # id THEN UNCHANGED shown
       ELSE IF DOMAIN pages = {id} THEN shown' = None
       ELSE shown' \in DOMAIN pages \ {id}

\* The autostart loop starts Chromium while the flag file is there.
BrowserStarts ==
    /\ ~Running /\ flag
    /\ \E id \in Ids : Fresh(id) /\ Open(id, Blank)
    /\ UNCHANGED <<state, wake, mqtt, pc, locals, tabs, published, fails, exits>>

BrowserExits ==
    /\ Running /\ Within(commands, fails, exits + 1) /\ exits' = exits + 1
    /\ pages' = <<>> /\ shown' = None
    /\ UNCHANGED <<state, wake, mqtt, pc, locals, tabs, published, fails>>

\* A request that is answered, and one that raises an exception.
Answered == Running /\ fails' = fails
Raises   == IF Running THEN Within(commands, fails + 1, exits) /\ fails' = fails + 1
                       ELSE fails' = fails

\* A write of a file that raises an OSError.
WriteFails == Within(commands, fails + 1, exits) /\ fails' = fails + 1

\* set_browser_autostart: an OSError is logged, and the file stays as it was.
SetAutostart(on) == \/ flag' = on /\ fails' = fails
                    \/ flag' = flag /\ WriteFails

-----------------------------------------------------------------------------
(* The main thread: main, rotation_loop and sync_tabs.                      *)

\* main evaluates STATE["rotation"] for set_browser_autostart ...
ReadRotation ==
    /\ pc = "flag" /\ Goes(IF rotation THEN "make" ELSE "remove")
    /\ UNCHANGED <<state, wake, mqtt, locals, tabs, browser, published, fails, exits>>

\* ... which sets or removes the file while the MQTT thread runs already.
StartFlag ==
    /\ pc \in {"make", "remove"} /\ SetAutostart(pc = "make") /\ Goes("top")
    /\ UNCHANGED <<slots, rotation, screen_on, current_slot, disk, wake, mqtt, locals, tabs,
                   browser, published, exits>>

\* wake.clear()
Clear ==
    /\ pc = "top" /\ wake' = FALSE /\ Goes("check")
    /\ UNCHANGED <<state, mqtt, locals, tabs, browser, published, fails, exits>>

\* `if not (STATE["rotation"] and screen_on)`
Check ==
    /\ pc = "check"
    /\ Goes(IF rotation /\ screen_on THEN "slots" ELSE "pause")
    /\ UNCHANGED <<state, wake, mqtt, locals, tabs, browser, published, fails, exits>>

\* `slots = active_slots()`, `if not slots`
Active ==
    /\ pc = "slots" /\ act' = active_slots
    /\ Goes(IF act' = <<>> THEN "pause" ELSE "urls")
    /\ UNCHANGED <<state, wake, mqtt, urls, read, tid, prev_id, new_ids,
                   closing, tabs, browser, published, fails, exits>>

\* `urls = [s["url"] for s in slots]`: the slots are references into STATE, so
\* an edit since active_slots() is seen, an emptied URL too.
Snapshot ==
    /\ pc = "urls" /\ Goes("sync") /\ act' = <<>>
    /\ urls' = [k \in DOMAIN act |-> slots[act[k]]]
    /\ UNCHANGED <<state, wake, mqtt, read, tid, prev_id, new_ids, closing, tabs,
                   browser, published, fails, exits>>

\* Mutant: the tabs of a browser that was closed meanwhile pass for open.
UpToDateUnlooked == urls = tab_urls /\ tab_ids # <<>>

\* The tabs are as they should be: nothing to rebuild.
UpToDate == urls = tab_urls /\ tab_ids # <<>> /\ ToSet(tab_ids) \subseteq DOMAIN pages

\* Mutant: the old tabs are closed before the new ones are created.
CloseFirst ==
    /\ pc = "sync" /\ Answered
    /\ Goes(IF UpToDate THEN "mod" ELSE "list")
    /\ UNCHANGED <<state, wake, mqtt, locals, tabs, browser, published, exits>>

\* sync_tabs: list the pages and compare.
SyncCompare ==
    /\ pc = "sync" /\ Answered
    /\ Goes(IF UpToDate THEN "mod" ELSE "create")
    /\ UNCHANGED <<state, wake, mqtt, locals, tabs, browser, published, exits>>

\* One Target.createTarget per URL.
SyncCreate ==
    /\ pc = "create" /\ Len(new_ids) < Len(urls) /\ Answered
    /\ \E id \in Ids : Fresh(id) /\ new_ids' = Append(new_ids, id)
    /\ Open(Last(new_ids'), urls[Len(new_ids')])
    /\ Goes(IF Len(new_ids') = Len(urls) THEN "list" ELSE "create")
    /\ UNCHANGED <<state, wake, mqtt, act, urls, read, tid, prev_id, closing, tabs,
                   published, exits>>

\* Mutant: only the loop's own old tabs are closed.
ListOwn ==
    /\ pc = "list" /\ Answered /\ Goes("close") /\ closing' = ToSet(tab_ids)
    /\ UNCHANGED <<state, wake, mqtt, act, urls, read, tid, prev_id, new_ids, tabs,
                   browser, published, exits>>

\* `for p in cdp_pages()`: the pages that are not new.
SyncList ==
    /\ pc = "list" /\ Answered /\ Goes("close")
    /\ closing' = DOMAIN pages \ ToSet(new_ids)
    /\ UNCHANGED <<state, wake, mqtt, act, urls, read, tid, prev_id, new_ids, tabs,
                   browser, published, exits>>

\* One Target.closeTarget for each; a page that is gone is an error answer.
SyncClose ==
    /\ pc = "close" /\ Answered
    /\ \E id \in closing :
           /\ closing' = closing \ {id}
           /\ IF id \in DOMAIN pages THEN Closed(id) ELSE UNCHANGED browser
    /\ UNCHANGED <<state, wake, mqtt, pc, act, urls, read, tid, prev_id, new_ids,
                   tabs, published, exits>>

\* `tab_urls = list(urls); tab_ids = new_ids`
SyncDone ==
    /\ pc = "close" /\ closing = {}
    /\ tab_urls' = urls /\ tab_ids' = new_ids /\ new_ids' = <<>> /\ Goes("mod")
    /\ UNCHANGED <<state, wake, mqtt, act, urls, read, tid, prev_id, closing,
                   browser, published, fails, exits>>

\* An exception anywhere in sync_tabs leaves the old lists, `if not tab_ids`.
SyncFails ==
    /\ \/ pc \in {"sync", "create", "list"}
       \/ pc = "close" /\ closing # {}
    /\ Raises
    /\ new_ids' = <<>> /\ closing' = {}
    /\ Goes(IF tab_ids = <<>> THEN "pause" ELSE "mod")
    /\ UNCHANGED <<state, wake, mqtt, act, urls, read, tid, prev_id, tabs, browser,
                   published, exits>>

\* `current_slot %= len(tab_ids)` reads current_slot, calls len, ...
ReadSlot ==
    /\ pc = "mod" /\ read' = current_slot /\ Goes("index")
    /\ UNCHANGED <<state, wake, mqtt, act, urls, tid, prev_id, new_ids,
                   closing, tabs, browser, published, fails, exits>>

\* ... and assigns it; `tid = tab_ids[current_slot]`
StoreSlot ==
    /\ pc = "index" /\ Goes("activate") /\ read' = 0
    /\ current_slot' = read % Len(tab_ids)
    /\ tid' = At(tab_ids, current_slot')
    /\ UNCHANGED <<slots, rotation, screen_on, disk, flag, wake, mqtt, act, urls, prev_id,
                   new_ids, closing, tabs, browser, published, fails, exits>>

\* cdp_activate logs its exceptions; a tab that is gone is an error answer.
Activate ==
    /\ pc = "activate" /\ Goes("current")
    /\ \/ Answered /\ shown' = IF tid \in DOMAIN pages THEN tid ELSE shown
       \/ Raises /\ UNCHANGED shown
    /\ UNCHANGED <<state, wake, mqtt, locals, tabs, pages, published, exits>>

\* `publish_current_url(client, urls[current_slot])`
PublishUrl ==
    /\ pc = "current"
    /\ IF InRange(urls, current_slot)
       THEN published' = [published EXCEPT !.url = At(urls, current_slot)] /\ Goes("show")
       ELSE Dies /\ UNCHANGED published
    /\ UNCHANGED <<state, wake, mqtt, locals, tabs, browser, fails, exits>>

\* The "Show URL" select: `active_idx = [...]`, ...
ActiveIndices ==
    /\ pc = "show" /\ act' = active_slots /\ Goes("compare")
    /\ UNCHANGED <<state, wake, mqtt, urls, read, tid, prev_id, new_ids, closing, tabs,
                   browser, published, fails, exits>>

\* ... `if current_slot < len(active_idx)` reads current_slot, calls len, ...
CompareSlot ==
    /\ pc = "compare" /\ read' = current_slot /\ Goes("select")
    /\ UNCHANGED <<state, wake, mqtt, act, urls, tid, prev_id, new_ids, closing, tabs,
                   browser, published, fails, exits>>

\* ... and `active_idx[current_slot]` reads it again.
PublishSlot ==
    /\ pc = "select" /\ act' = <<>> /\ read' = 0
    /\ IF read >= Len(act)
       THEN UNCHANGED published /\ Goes("reload")
       ELSE IF InRange(act, current_slot)
            THEN /\ published' = [published EXCEPT !.slot = At(act, current_slot)]
                 /\ Goes("reload")
            ELSE Dies /\ UNCHANGED published
    /\ UNCHANGED <<state, wake, mqtt, urls, tid, prev_id, new_ids, closing, tabs, browser,
                   fails, exits>>

\* cdp_reload of the tab just left, which changes no tab; `prev_id = tid`
Reload ==
    /\ pc = "reload" /\ prev_id' = tid /\ Goes("seconds")
    /\ UNCHANGED <<state, wake, mqtt, act, urls, read, tid, new_ids, closing, tabs,
                   browser, published, fails, exits>>

\* `slots[current_slot]["seconds"]` before the wait
Dwell ==
    /\ pc = "seconds"
    /\ IF InRange(urls, current_slot) THEN Goes("dwell") ELSE Dies
    /\ UNCHANGED <<state, wake, mqtt, locals, tabs, browser, published, fails, exits>>

\* wake.wait returns true: re-evaluate without advancing.
Interrupted ==
    /\ pc = "dwell" /\ wake /\ Goes("top")
    /\ UNCHANGED <<state, wake, mqtt, locals, tabs, browser, published, fails, exits>>

\* wake.wait times out.
TimesOut ==
    /\ pc = "dwell" /\ ~wake /\ Goes("advance")
    /\ UNCHANGED <<state, wake, mqtt, locals, tabs, browser, published, fails, exits>>

\* `current_slot += 1`
Advance ==
    /\ pc = "advance" /\ Goes("top") /\ current_slot' = current_slot + 1
    /\ UNCHANGED <<slots, rotation, screen_on, disk, flag, wake, mqtt, locals, tabs,
                   browser, published, fails, exits>>

\* A paused loop looks again when woken and at the latest after 1 or 2 seconds.
Resume ==
    /\ pc = "pause" /\ Goes("top")
    /\ UNCHANGED <<state, wake, mqtt, locals, tabs, browser, published, fails, exits>>

Main ==
    \/ ReadRotation \/ StartFlag \/ Clear \/ Check \/ Active \/ Snapshot
    \/ SyncCompare \/ SyncCreate \/ SyncList \/ SyncClose \/ SyncDone \/ SyncFails
    \/ ReadSlot \/ StoreSlot \/ Activate \/ PublishUrl
    \/ ActiveIndices \/ CompareSlot \/ PublishSlot \/ Reload
    \/ Dwell \/ Interrupted \/ TimesOut \/ Advance \/ Resume

\* systemd's Restart=always; slots and rotation are read back from the state
\* file, the screen from wlopm.
Restart ==
    /\ pc = "dead" /\ Goes("flag")
    /\ slots' = disk.slots /\ rotation' = disk.rotation
    /\ current_slot' = 0 /\ wake' = FALSE /\ net' = "idle"
    /\ act' = <<>> /\ urls' = <<>> /\ read' = 0 /\ tid' = None /\ prev_id' = None
    /\ new_ids' = <<>> /\ closing' = {} /\ tab_urls' = <<>> /\ tab_ids' = <<>>
    /\ UNCHANGED <<screen_on, disk, flag, commands, browser, published, fails, exits>>

-----------------------------------------------------------------------------
(* The MQTT thread: on_message.                                             *)

Command ==
    /\ pc # "dead" /\ net = "idle"
    /\ Within(commands + 1, fails, exits) /\ commands' = commands + 1

\* The handler goes on to wake.set(), a call and therefore a step of its own.
Wakes == net' = "wake" /\ fails' = fails

\* save_state writes all of STATE.  When it raises, STATE has changed all the same;
\* on_message logs the exception and does nothing more.
Saves == disk' = [slots |-> slots', rotation |-> rotation']
SaveFails == /\ UNCHANGED <<disk, net>>
             /\ Within(commands', fails + 1, exits) /\ fails' = fails + 1

\* Mutant: an edit that does not wake the loop.
SilentEdit(i, u) ==
    /\ Command /\ slots' = [slots EXCEPT ![i] = u]
    /\ UNCHANGED <<rotation, screen_on, current_slot, flag, net, fails>>
    /\ Saves

\* url_<i>/set
EditUrl(i, u) ==
    /\ Command /\ slots' = [slots EXCEPT ![i] = u]
    /\ UNCHANGED <<rotation, screen_on, current_slot, flag>>
    /\ (Saves /\ Wakes) \/ SaveFails

\* rotation/set, which goes on to set_browser_autostart.
SetRotation(on) ==
    /\ Command /\ rotation' = on
    /\ UNCHANGED <<slots, screen_on, current_slot, flag>>
    /\ (Saves /\ net' = "flag" /\ fails' = fails) \/ SaveFails

\* screen/set: only switching off wakes the loop.
SetScreen(on) ==
    /\ Command /\ screen_on' = on
    /\ IF on THEN UNCHANGED <<net, fails>> ELSE Wakes
    /\ UNCHANGED <<slots, rotation, current_slot, disk, flag>>

\* next/set and previous/set
Step(d) ==
    /\ Command /\ current_slot' = current_slot + d /\ Wakes
    /\ UNCHANGED <<slots, rotation, screen_on, disk, flag>>

\* show_url/set: `if k in active_idx`
ShowUrl(i) ==
    /\ Command
    /\ IF slots[i] # None
       THEN current_slot' = Place(i) - 1 /\ Wakes
       ELSE UNCHANGED <<current_slot, net, fails>>
    /\ UNCHANGED <<slots, rotation, screen_on, disk, flag>>

\* set_browser_autostart of rotation/set; only this thread changes the rotation.
NetFlag ==
    /\ pc # "dead" /\ net = "flag" /\ net' = "wake" /\ SetAutostart(rotation)
    /\ UNCHANGED <<slots, rotation, screen_on, current_slot, disk, commands, wake, pc, locals,
                   tabs, browser, published, exits>>

\* wake.set()
Wake ==
    /\ pc # "dead" /\ net = "wake" /\ net' = "idle" /\ wake' = TRUE
    /\ UNCHANGED <<state, commands, pc, locals, tabs, browser, published, fails, exits>>

Message ==
    /\ \/ \E i \in Slots, u \in Urls \cup {None} : EditUrl(i, u)
       \/ \E on \in BOOLEAN : SetRotation(on) \/ SetScreen(on)
       \/ \E d \in {1, -1} : Step(d)
       \/ \E i \in Slots : ShowUrl(i)
    /\ UNCHANGED <<wake, pc, locals, tabs, browser, published, exits>>

Next == Main \/ Restart \/ Message \/ NetFlag \/ Wake \/ BrowserStarts \/ BrowserExits

Spec == Init /\ [][Next]_vars

\* Every thread runs, every wait and every request ends (all have timeouts),
\* systemd and the autostart loop restart what they watch.
Fairness == WF_vars(Main) /\ WF_vars(Restart) /\ WF_vars(NetFlag \/ Wake) /\ WF_vars(BrowserStarts)
FairSpec == Spec /\ Fairness

-----------------------------------------------------------------------------
(* Properties                                                               *)

\* The main thread waits out the dwell time, nobody is about to wake it, and no request
\* has failed and no browser exited before.
Settled == pc = "dwell" /\ ~wake /\ net = "idle" /\ fails = 0 /\ exits = 0

\* The URLs of the slots of now.
Wanted == [k \in DOMAIN active_slots |-> slots[active_slots[k]]]

\* No change is missed: whatever a command changed while the loop was at any of
\* its steps, once it waits undisturbed, rotation and screen are on, the tabs
\* are those of the slots of now, and the one shown, the one published and the
\* one selected are the same (rotation_loop against on_message; no failures).
ShowsSelection ==
    Settled =>
        /\ rotation /\ screen_on
        /\ tab_urls = Wanted
        /\ InRange(tab_ids, current_slot)
        /\ shown = At(tab_ids, current_slot)
        /\ pages[shown] = At(tab_urls, current_slot)
        /\ published = [url |-> pages[shown], slot |-> At(active_slots, current_slot)]

\* No stray tabs while nothing fails: once it waits, the open tabs are the
\* loop's tabs, one per URL, and nothing else (sync_tabs).
OneTabPerUrl ==
    Settled => /\ DOMAIN pages = ToSet(tab_ids)
               /\ \A j, k \in DOMAIN tab_ids : j # k => tab_ids[j] # tab_ids[k]

\* The inductive invariant behind these properties.  While tabs are rebuilt: the new
\* ones are there until the user closes the browser, and are none of those to close.
Syncing == pc \in {"create", "list", "close"}
Showing == pc \in {"mod", "index", "activate", "current", "show", "compare", "select",
                   "reload", "seconds", "dwell", "advance"}

Selected == {"activate", "current", "show", "compare", "select", "reload", "seconds", "dwell"}

Rebuilds ==
    /\ ~Syncing => new_ids = <<>>
    /\ pc # "close" => closing = {}
    /\ pc = "urls" => act # <<>>
    /\ pc = "sync" \/ Syncing => urls # <<>>
    /\ pc = "create" => Len(new_ids) < Len(urls)
    /\ pc \in {"list", "close"} => Len(new_ids) = Len(urls)
    /\ \A j, k \in DOMAIN new_ids : j # k => new_ids[j] # new_ids[k]
    /\ closing \cap ToSet(new_ids) = {}
    /\ Showing => tab_ids # <<>>
    /\ exits = 0 => /\ ToSet(new_ids) \subseteq DOMAIN pages
                    /\ Syncing \/ tab_ids # <<>> => Running

\* While nothing fails, the tabs are those of the loop, with its URLs.
TabsAsListed ==
    fails = 0 /\ exits = 0 =>
        /\ \A k \in DOMAIN new_ids : pages[new_ids[k]] = urls[k]
        /\ pc = "close" => DOMAIN pages = closing \cup ToSet(new_ids)
        /\ ~Syncing /\ tab_ids # <<>> =>
             /\ DOMAIN pages = ToSet(tab_ids)
             /\ \A j, k \in DOMAIN tab_ids : j # k => tab_ids[j] # tab_ids[k]
             /\ \A k \in DOMAIN tab_ids : pages[tab_ids[k]] = tab_urls[k]
        /\ Showing => tab_urls = urls

\* As long as no command wakes the loop, what it goes by is what there is.  (A command
\* whose save fails changes the slots and does not wake it.)
Undisturbed ==
    ~wake /\ net = "idle" /\ fails = 0 =>
        /\ pc \in {"slots", "urls", "sync"} \/ Syncing \/ Showing => rotation /\ screen_on
        /\ pc \in {"urls", "compare", "select"} => act = active_slots
        /\ pc = "sync" \/ Syncing \/ (Showing /\ pc # "advance") => urls = Wanted
        /\ pc \in Selected => current_slot \in 0..(Len(tab_ids) - 1)
                             /\ tid = At(tab_ids, current_slot)
        /\ pc = "select" => read = current_slot
        /\ exits = 0 =>
             /\ pc \in Selected \ {"activate"} => shown = tid
             /\ pc \in Selected \ {"activate", "current"} =>
                  published.url = At(urls, current_slot)
             /\ pc \in {"reload", "seconds", "dwell"} =>
                  published.slot = At(active_slots, current_slot)

IInv == TypeOK /\ Rebuilds /\ TabsAsListed /\ Undisturbed

\* Rebuilding the tabs never closes the last one, whichever request fails: only
\* the user ends the browser (sync_tabs creates before it closes).  Once the user
\* has closed it in the middle of a rebuild, the rebuild may close the tab of the
\* new browser, which is none of its own.
NeverClosesBrowser == [][Running /\ ~Running' => exits' > 0]_vars

\* The rotation recovers: after the last command and the last failure, while
\* rotation and screen are on and the flag file is there, every slot with a URL is
\* shown again and again, whatever exits, failures and restarts of the agent came
\* before.  (The flag may be missing although rotation is on: FlagFollows.)
EverySlotComesRound ==
    <>[](rotation /\ screen_on /\ flag) =>
        \A i \in Slots :
            []<>(slots[i] = None \/ (Running /\ pages[shown] = slots[i]))

\* "Rotation ON restores the flag so the browser is kept alive again", "Rotation OFF
\* removes the flag": once main has started and no command is under way, the flag file
\* is there if and only if rotation is on, while no write fails.
FlagFollows ==
    net = "idle" /\ fails = 0 /\ pc \notin {"flag", "make", "remove", "dead"} => flag = rotation

\* What the comment on current_slot says: it is an index into the active slots,
\* so the main thread never dies of an IndexError.
IndexIntoActive == pc # "dead"

\* What sync_tabs says: when it has returned without an exception, there is
\* exactly one tab per URL.
ExactlyOneTab ==
    [][Running /\ pc \in {"sync", "close"} /\ pc' = "mod" /\ fails' = fails =>
           DOMAIN pages = ToSet(tab_ids')]_vars
=============================================================================
