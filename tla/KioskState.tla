------------------------------ MODULE KioskState ------------------------------
(***************************************************************************)
(* What the kiosk agent (ansible/roles/kiosk/files/agent.py) keeps, saves  *)
(* and tells Home Assistant, beside the rotation (KioskRotation).          *)
(*                                                                         *)
(* Four threads: the MQTT thread (on_connect, on_message), the input        *)
(* watcher, the idle monitor, and the main thread while it starts.  Each    *)
(* variable they share is read and published in two steps, because Python   *)
(* may switch threads at the call.  The agent may be killed at any moment   *)
(* and is started again; a publish without a connection is lost; the broker *)
(* keeps what was published last (external).                                *)
(***************************************************************************)
EXTENDS Integers

CONSTANTS
    Values,         \* the values of a slot: its URL and seconds in one
    Default,        \* the slot of default_playlist
    Torn,           \* a state file that does not parse
    MaxCommands, MaxInputs, MaxDrops, MaxKills, MaxExits, MaxSaveFails

ASSUME StateAssumption ==
    /\ Default \in Values
    /\ \A s \in [slot : Values, rotation : BOOLEAN] : s # Torn
    /\ {MaxCommands, MaxInputs, MaxDrops} \subseteq Nat
    /\ {MaxKills, MaxExits, MaxSaveFails} \subseteq Nat

VARIABLES
    settings,       \* STATE: the slot and the rotation switch in memory
    disk,           \* the state file
    fullscreen_on, activity_on,
    idle,           \* IDLE_TIMEOUT seconds have passed since last_event
    net, watcher, monitor, main,  \* where each thread is, with its locals
    conn,           \* connected to the broker
    retained,       \* the retained state topics at the broker
    flag,           \* the autostart flag file exists
    fullscreen,     \* Chromium: its window is in fullscreen
    left            \* what the bounds still allow

agent  == <<settings, fullscreen_on, activity_on>>
others == <<idle, watcher, monitor, main>>
world  == <<flag, fullscreen>>
vars   == <<agent, disk, net, others, conn, retained, world, left>>

States == [slot : Values, rotation : BOOLEAN]
Idle   == [step |-> "idle"]

\* What the MQTT thread has to remember of a change of the settings.
Change == [step : {"save", "replace", "flag", "publish"}, what : {"slot", "rotation"}]

TypeOK ==
    /\ settings \in States /\ disk \in States \cup {Torn}
    /\ {fullscreen_on, activity_on, idle, conn, flag, fullscreen} \subseteq BOOLEAN
    /\ net \in [step : {"idle", "connect"}] \cup Change
                \cup [step : {"fullscreen", "activity"}, on : BOOLEAN]
    /\ watcher \in {"idle", "got", "publish"} /\ monitor \in {"idle", "publish"}
    /\ main \in [step : {"connect", "flag", "fullscreen", "rotate"}]
                 \cup [step : {"setflag", "publish"}, on : BOOLEAN]
    /\ retained \in [slot : Values, rotation : BOOLEAN, fullscreen : BOOLEAN,
                     activity : BOOLEAN]
    /\ left \in [commands : 0..MaxCommands, inputs : 0..MaxInputs, drops : 0..MaxDrops,
                 kills : 0..MaxKills, exits : 0..MaxExits, fails : 0..MaxSaveFails]

Init ==
    /\ settings \in States /\ disk = settings
    /\ fullscreen_on = TRUE /\ activity_on = FALSE /\ idle = TRUE
    /\ net = Idle /\ watcher = "idle" /\ monitor = "idle"
    /\ main = [step |-> "connect"] /\ conn = FALSE
    /\ retained = [slot |-> settings.slot, rotation |-> settings.rotation,
                   fullscreen |-> TRUE, activity |-> FALSE]
    /\ flag = settings.rotation /\ fullscreen = TRUE
    /\ left = [commands |-> MaxCommands, inputs |-> MaxInputs, drops |-> MaxDrops,
               kills |-> MaxKills, exits |-> MaxExits, fails |-> MaxSaveFails]

Spend(b) == left[b] > 0 /\ left' = [left EXCEPT ![b] = @ - 1]

\* A publish after which the broker would keep this; it is lost without a connection.
Publish(topics) == retained' = IF conn THEN topics ELSE retained

-----------------------------------------------------------------------------
(* The MQTT thread.                                                        *)

NetGoes(step) == net' = [net EXCEPT !.step = step]

\* Mutant: a command is published and not saved.
Unsaved(new, what) ==
    /\ net.step = "idle" /\ conn /\ Spend("commands")
    /\ settings' = new /\ net' = [step |-> "publish", what |-> what]
    /\ UNCHANGED <<disk, fullscreen_on, activity_on, others, conn, retained, world>>

\* rotation/set, url_<i>/set and seconds_<i>/set change settings under the lock.
ChangeState(new, what) ==
    /\ net.step = "idle" /\ conn /\ Spend("commands")
    /\ settings' = new /\ net' = [step |-> "save", what |-> what]
    /\ UNCHANGED <<disk, fullscreen_on, activity_on, others, conn, retained, world>>

SaveGoes ==
    NetGoes(IF net.step = "save" THEN "replace"
            ELSE IF net.what = "rotation" THEN "flag" ELSE "publish")

\* Mutant: save_state rewrites the state file itself.
Truncate ==
    /\ net.step = "save" /\ disk' = Torn /\ SaveGoes
    /\ UNCHANGED <<agent, others, conn, retained, world, left>>

\* save_state writes a temporary file ...
WriteTmp ==
    /\ net.step = "save" /\ SaveGoes
    /\ UNCHANGED <<agent, disk, others, conn, retained, world, left>>

\* ... and puts it in the place of the old one.
Replace ==
    /\ net.step = "replace" /\ disk' = settings /\ SaveGoes
    /\ UNCHANGED <<agent, others, conn, retained, world, left>>

\* Mutant: the exception of save_state is swallowed and the command goes on.
Swallowed ==
    /\ net.step = "save" /\ Spend("fails") /\ NetGoes("publish")
    /\ UNCHANGED <<agent, disk, others, conn, retained, world>>

\* save_state raises, and on_message gives the command up.
SaveFails ==
    /\ net.step = "save" /\ Spend("fails") /\ net' = Idle
    /\ UNCHANGED <<agent, disk, others, conn, retained, world>>

\* set_browser_autostart(STATE["rotation"])
SetFlag ==
    /\ net.step = "flag" /\ flag' = settings.rotation /\ NetGoes("publish")
    /\ UNCHANGED <<agent, disk, others, conn, retained, fullscreen, left>>

\* The state topic of what the command changed.
PublishChange ==
    /\ net.step = "publish" /\ net' = Idle
    /\ Publish(IF net.what = "rotation"
               THEN [retained EXCEPT !.rotation = settings.rotation]
               ELSE [retained EXCEPT !.slot = settings.slot])
    /\ UNCHANGED <<agent, disk, others, conn, world, left>>

\* fullscreen/set: F11 toggles the window, only if fullscreen_on differs; the
\* key goes nowhere if the virtual keyboard fails.
SetFullscreen(on) ==
    /\ net.step = "idle" /\ conn /\ Spend("commands")
    /\ IF on = fullscreen_on THEN UNCHANGED <<fullscreen_on, fullscreen>>
       ELSE fullscreen_on' = on /\ fullscreen' = ~fullscreen
    /\ net' = [step |-> "fullscreen", on |-> on]
    /\ UNCHANGED <<settings, activity_on, disk, others, conn, retained, flag>>

PublishFullscreen ==
    /\ net.step = "fullscreen" /\ net' = Idle
    /\ Publish([retained EXCEPT !.fullscreen = fullscreen_on])
    /\ UNCHANGED <<agent, disk, others, conn, world, left>>

\* The network loop connects, also again after a lost connection.
Connect ==
    /\ ~conn /\ net.step = "idle" /\ main.step # "connect"
    /\ conn' = TRUE /\ net' = [step |-> "connect"]
    /\ UNCHANGED <<agent, disk, others, retained, world, left>>

\* Mutant: on_connect subscribes and publishes nothing.
SubscribeOnly ==
    /\ net.step = "connect" /\ net' = Idle
    /\ UNCHANGED <<agent, disk, others, conn, retained, world, left>>

\* publish_states up to the activity, whose value is read here ...
PublishStates ==
    /\ net.step = "connect"
    /\ Publish([retained EXCEPT !.rotation = settings.rotation,
                                !.fullscreen = fullscreen_on])
    /\ net' = [step |-> "activity", on |-> activity_on]
    /\ UNCHANGED <<agent, disk, others, conn, world, left>>

\* ... and published here, with the slots after it.
PublishRest ==
    /\ net.step = "activity" /\ net' = Idle
    /\ Publish([retained EXCEPT !.activity = net.on, !.slot = settings.slot])
    /\ UNCHANGED <<agent, disk, others, conn, world, left>>

Net == WriteTmp \/ Replace \/ SaveFails \/ SetFlag \/ PublishChange
       \/ PublishFullscreen \/ Connect \/ PublishStates \/ PublishRest

-----------------------------------------------------------------------------
(* The input watcher and the idle monitor.                                 *)

\* Input: `last_event = time.time()`, then last_activity is published.
Input ==
    /\ watcher = "idle" /\ Spend("inputs")
    /\ main.step \in {"flag", "setflag", "fullscreen", "publish", "rotate"}
    /\ idle' = FALSE /\ watcher' = "got"
    /\ UNCHANGED <<agent, disk, net, monitor, main, conn, retained, world>>

\* `if not activity_on: activity_on = True`
WatcherSets ==
    /\ watcher = "got" /\ activity_on' = TRUE
    /\ watcher' = IF activity_on THEN "idle" ELSE "publish"
    /\ UNCHANGED <<settings, fullscreen_on, disk, net, idle, monitor, main, conn,
                   retained, world, left>>

WatcherPublishes ==
    /\ watcher = "publish" /\ watcher' = "idle"
    /\ Publish([retained EXCEPT !.activity = TRUE])
    /\ UNCHANGED <<agent, disk, net, idle, monitor, main, conn, world, left>>

\* The idle timeout passes; every thread gets to run within it.
Elapse ==
    /\ ~idle /\ watcher = "idle" /\ monitor = "idle" /\ net.step # "activity"
    /\ idle' = TRUE
    /\ UNCHANGED <<agent, disk, net, watcher, monitor, main, conn, retained,
                   world, left>>

\* The check reads last_event after time.time(), and no call separates it from
\* the assignment.
MonitorClears ==
    /\ monitor = "idle" /\ activity_on /\ idle
    /\ activity_on' = FALSE /\ monitor' = "publish"
    /\ UNCHANGED <<settings, fullscreen_on, disk, net, idle, watcher, main, conn,
                   retained, world, left>>

MonitorPublishes ==
    /\ monitor = "publish" /\ monitor' = "idle"
    /\ Publish([retained EXCEPT !.activity = FALSE])
    /\ UNCHANGED <<agent, disk, net, idle, watcher, main, conn, world, left>>

Activity == WatcherSets \/ WatcherPublishes \/ Elapse
            \/ MonitorClears \/ MonitorPublishes

-----------------------------------------------------------------------------
(* The main thread while it starts, and the world.                         *)

MainGoes(step) == main' = [step |-> step]

\* connect, loop_start and the start of the two threads; from here on the MQTT
\* thread runs.
Starts ==
    /\ main.step = "connect" /\ MainGoes("flag")
    /\ UNCHANGED <<agent, disk, net, idle, watcher, monitor, conn, retained,
                   world, left>>

\* `set_browser_autostart(STATE["rotation"])` reads the switch ...
ReadsRotation ==
    /\ main.step = "flag" /\ main' = [step |-> "setflag", on |-> settings.rotation]
    /\ UNCHANGED <<agent, disk, net, idle, watcher, monitor, conn, retained,
                   world, left>>

\* ... and then makes or removes the file.
SetsFlag ==
    /\ main.step = "setflag" /\ flag' = main.on /\ MainGoes("fullscreen")
    /\ UNCHANGED <<agent, disk, net, idle, watcher, monitor, conn, retained,
                   fullscreen, left>>

\* The publish of fullscreen_on, read ...
ReadsFullscreen ==
    /\ main.step = "fullscreen" /\ main' = [step |-> "publish", on |-> fullscreen_on]
    /\ UNCHANGED <<agent, disk, net, idle, watcher, monitor, conn, retained,
                   world, left>>

\* ... and sent; rotation_loop follows.
PublishesFullscreen ==
    /\ main.step = "publish" /\ MainGoes("rotate")
    /\ Publish([retained EXCEPT !.fullscreen = main.on])
    /\ UNCHANGED <<agent, disk, net, idle, watcher, monitor, conn, world, left>>

Main == Starts \/ ReadsRotation \/ SetsFlag \/ ReadsFullscreen \/ PublishesFullscreen

\* load_state: a file that does not parse gives the default, which is saved.
Load ==
    LET default == [slot |-> Default, rotation |-> TRUE]
    IN  settings' = IF disk = Torn THEN default ELSE disk

\* The agent is killed; systemd starts it again.
Kill ==
    /\ Spend("kills")
    /\ Load /\ disk' = settings'
    /\ fullscreen_on' = TRUE /\ activity_on' = FALSE /\ idle' = TRUE
    /\ net' = Idle /\ watcher' = "idle" /\ monitor' = "idle" /\ MainGoes("connect")
    /\ conn' = FALSE
    /\ UNCHANGED <<retained, world>>

\* The connection is lost, also in the middle of a handler.
Drop ==
    /\ conn /\ Spend("drops") /\ conn' = FALSE
    /\ UNCHANGED <<agent, disk, net, others, retained, world>>

\* The user closes Chromium; the autostart loop starts it again in fullscreen.
Relaunch ==
    /\ flag /\ Spend("exits") /\ fullscreen' = TRUE
    /\ UNCHANGED <<agent, disk, net, others, conn, retained, flag>>

Command ==
    \/ \E v \in Values : ChangeState([settings EXCEPT !.slot = v], "slot")
    \/ \E on \in BOOLEAN : ChangeState([settings EXCEPT !.rotation = on], "rotation")
                           \/ SetFullscreen(on)

Next == Net \/ Command \/ Input \/ Activity \/ Main \/ Kill \/ Drop \/ Relaunch

Spec == Init /\ [][Next]_vars

\* Every thread runs; the network loop keeps connecting.
FairSpec == Spec /\ WF_vars(Net) /\ WF_vars(Activity) /\ WF_vars(Main)

-----------------------------------------------------------------------------
(* Properties                                                              *)

InTouch == conn /\ net.step = "idle"

SavesWork == left.fails = MaxSaveFails

\* HA edits survive restarts: as long as no save has failed, whenever the agent
\* is connected and no command is in progress, what Home Assistant shows of the
\* slots and the rotation is what a restart would load (on_message saves before
\* it publishes).
EditsSurvive ==
    (InTouch /\ SavesWork) => /\ retained.slot = disk.slot
                             /\ retained.rotation = disk.rotation

\* The inductive invariant behind these properties: where a change of the settings is
\* on its way from memory to the state file and to Home Assistant.  The last part is
\* for as long as no save has failed.
Shown == retained.slot = disk.slot /\ retained.rotation = disk.rotation

OnItsWay ==
    /\ disk # Torn
    /\ net.step \in {"flag", "publish"} => disk = settings
    /\ SavesWork =>
         /\ IF net.step \in {"save", "replace"}
            THEN /\ Shown
                 /\ net.what = "slot" => disk.rotation = settings.rotation
                 /\ net.what = "rotation" => disk.slot = settings.slot
            ELSE disk = settings
         /\ net.step = "fullscreen" \/ InTouch => Shown
         /\ net.step \in {"flag", "publish"} =>
              /\ net.what = "slot" => retained.rotation = disk.rotation
              /\ net.what = "rotation" => retained.slot = disk.slot
         /\ net.step = "activity" /\ conn => retained.rotation = disk.rotation

IInv == TypeOK /\ OnItsWay

\* What agent.py says at the top, "HA edits survive restarts": the same when a
\* save has failed.
FailedEditsSurvive ==
    InTouch => /\ retained.slot = disk.slot
               /\ retained.rotation = disk.rotation

\* A kill loses at most the edit whose save is in progress, or has failed, and
\* never resets the playlist to its default (save_state writes a temporary file
\* first).
KillKeepsState ==
    [][left'.kills # left.kills /\ SavesWork =>
           \/ settings' = settings
           \/ net.step \in {"save", "replace"} /\ \E f \in {"slot", "rotation"} :
                  settings' = [settings EXCEPT ![f] = retained[f]]]_vars

\* Home Assistant is told of a new slot or switch only after the state file has
\* it, also when saves fail (on_message publishes after save_state).
ToldIsSaved ==
    [][net.step = "publish" =>
           /\ retained'.slot \in {retained.slot, disk.slot}
           /\ retained'.rotation \in {retained.rotation, disk.rotation}]_vars

\* Home Assistant catches up: after the last command, kill, lost connection and
\* input, the agent is connected, and unless a save has failed every switch and
\* slot is shown as it is in memory (on_connect publishes all of them again).
CatchesUp ==
    <>[](/\ conn
         /\ SavesWork => /\ retained.slot = settings.slot
                         /\ retained.rotation = settings.rotation)

\* What the README says of the touch sensor, ON on input: while no thread is at
\* it, Home Assistant is told what the agent believes.
ActivityReported ==
    (InTouch /\ watcher = "idle" /\ monitor = "idle") =>
        retained.activity = activity_on

\* What the README says of the fullscreen switch: ON leaves the window in
\* fullscreen, OFF leaves it windowed.
FullscreenObeys ==
    [][net.step = "fullscreen" /\ net'.step = "idle" /\ left' = left =>
           fullscreen = net.on]_vars

\* What the comment on the flag file says: rotation OFF removes the flag, so
\* once the agent has started and no command is in progress there is none.
OffRemovesFlag ==
    (main.step = "rotate" /\ InTouch /\ ~settings.rotation) => ~flag
=============================================================================
