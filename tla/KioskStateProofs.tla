-------------------------- MODULE KioskStateProofs --------------------------
(* Proofs about what the kiosk agent saves and tells, for any values and any *)
(* number of commands, inputs, lost connections, kills and failed saves.     *)
EXTENDS KioskState, TLAPS

\* The shapes of the records a thread keeps.
LEMMA NetShape ==
    ASSUME TypeOK
    PROVE  /\ net.step \in {"save", "replace", "flag", "publish"} =>
                net \in Change
           /\ net.step = "activity" => net.on \in BOOLEAN
BY DEF TypeOK, Change

\* What is spent, and what spending leaves.
LEMMA Spent ==
    ASSUME TypeOK
    PROVE  LET Left == [commands : 0..MaxCommands, inputs : 0..MaxInputs,
                        drops : 0..MaxDrops, kills : 0..MaxKills, exits : 0..MaxExits,
                        fails : 0..MaxSaveFails]
           IN  /\ \A b \in {"commands", "inputs", "drops", "kills", "exits", "fails"} :
                    Spend(b) => left' \in Left
               /\ \A b \in {"commands", "inputs", "drops", "exits"} :
                    Spend(b) => left'.fails = left.fails /\ left'.kills = left.kills
               /\ Spend("kills") => left'.fails = left.fails /\ left'.kills # left.kills
               /\ Spend("fails") => left'.fails # MaxSaveFails /\ left'.kills = left.kills
<1> DEFINE Left == [commands : 0..MaxCommands, inputs : 0..MaxInputs,
                    drops : 0..MaxDrops, kills : 0..MaxKills, exits : 0..MaxExits,
                    fails : 0..MaxSaveFails]
<1> USE StateAssumption DEF TypeOK, Spend
<1>1. left \in Left
  OBVIOUS
<1>2. ASSUME NEW b \in {"commands", "inputs", "drops", "kills", "exits", "fails"}, Spend(b)
      PROVE  left' \in Left
  <2> left \in Left /\ left[b] > 0 /\ left' = [left EXCEPT ![b] = @ - 1]
    BY <1>2
  <2>1. CASE b = "commands"
    BY <2>1
  <2>2. CASE b = "inputs"
    BY <2>2
  <2>3. CASE b = "drops"
    BY <2>3
  <2>4. CASE b = "kills"
    BY <2>4
  <2>5. CASE b = "exits"
    BY <2>5
  <2>6. CASE b = "fails"
    BY <2>6
  <2>7. QED
    BY <2>1, <2>2, <2>3, <2>4, <2>5, <2>6
<1>3. QED
  BY <1>1, <1>2

LEMMA TypeInv == TypeOK /\ [Next]_vars => TypeOK'
<1> SUFFICES ASSUME TypeOK, [Next]_vars PROVE TypeOK'
  OBVIOUS
<1> USE StateAssumption DEF agent, others, world
<1> DEFINE Told == [slot : Values, rotation : BOOLEAN, fullscreen : BOOLEAN,
                    activity : BOOLEAN]
<1>1. CASE UNCHANGED vars
  BY <1>1 DEF vars, TypeOK
<1>2. CASE WriteTmp \/ Replace
  <2>1. /\ net \in Change /\ disk' \in {disk, settings}
        /\ UNCHANGED <<agent, others, conn, retained, world, left>>
        /\ \E s \in {"replace", "flag", "publish"} : net' = [net EXCEPT !.step = s]
    BY <1>2, NetShape DEF WriteTmp, Replace, SaveGoes, NetGoes
  <2>2. net' \in Change
    BY <2>1 DEF Change
  <2>3. QED
    BY <2>1, <2>2 DEF TypeOK
<1>3. CASE SaveFails
  <2>1. /\ UNCHANGED <<agent, disk, others, conn, retained, world>> /\ net' = Idle
        /\ Spend("fails")
    BY <1>3 DEF SaveFails
  <2>2. QED
    BY <2>1, Spent DEF TypeOK, Idle
<1>4. CASE SetFlag \/ PublishChange
  <2>1. /\ net \in Change /\ settings \in States /\ retained \in Told
        /\ UNCHANGED <<agent, disk, others, conn, fullscreen, left>>
    BY <1>4, NetShape DEF SetFlag, PublishChange, TypeOK
  <2>2. net' \in Change \cup [step : {"idle", "connect"}] /\ flag' \in BOOLEAN
    BY <1>4, <2>1 DEF SetFlag, PublishChange, NetGoes, Change, Idle, States, TypeOK
  <2>3. retained' \in Told
    BY <1>4, <2>1 DEF SetFlag, PublishChange, Publish, States
  <2>4. QED
    BY <2>1, <2>2, <2>3 DEF TypeOK
<1>5. CASE PublishFullscreen \/ Connect
  <2>1. /\ conn' \in BOOLEAN /\ net' \in [step : {"idle", "connect"}]
        /\ UNCHANGED <<agent, disk, others, world, left>>
    <3>1. conn \in BOOLEAN
      BY DEF TypeOK
    <3>2. CASE PublishFullscreen
      BY <3>1, <3>2 DEF PublishFullscreen, Idle
    <3>3. CASE Connect
      BY <3>3 DEF Connect
    <3>4. QED
      BY <1>5, <3>2, <3>3
  <2>2. retained' \in Told
    <3>1. retained \in Told /\ fullscreen_on \in BOOLEAN
      BY DEF TypeOK
    <3>2. QED
      BY <1>5, <3>1 DEF PublishFullscreen, Connect, Publish
  <2>3. QED
    BY <2>1, <2>2 DEF TypeOK
<1>6. CASE PublishStates \/ PublishRest
  <2>1. /\ retained \in Told /\ settings \in States
        /\ UNCHANGED <<agent, disk, others, conn, world, left>>
        /\ fullscreen_on \in BOOLEAN /\ activity_on \in BOOLEAN
    BY <1>6 DEF PublishStates, PublishRest, TypeOK
  <2>2. net' \in [step : {"idle", "connect"}] \cup [step : {"fullscreen", "activity"}, on : BOOLEAN]
    BY <1>6, <2>1 DEF PublishStates, PublishRest, Idle
  <2>3. retained' \in Told
    BY <1>6, <2>1, NetShape DEF PublishStates, PublishRest, Publish, States
  <2>4. QED
    BY <2>1, <2>2, <2>3 DEF TypeOK
<1>7. ASSUME NEW new \in States, NEW what \in {"slot", "rotation"}, ChangeState(new, what)
      PROVE  TypeOK'
  <2>1. /\ net' \in Change /\ settings' \in States /\ Spend("commands")
        /\ UNCHANGED <<disk, fullscreen_on, activity_on, others, conn, retained, world>>
    BY <1>7 DEF ChangeState, Change
  <2>2. QED
    BY <2>1, Spent DEF TypeOK
<1>8. ASSUME NEW on \in BOOLEAN, SetFullscreen(on) PROVE TypeOK'
  <2>1. /\ net' \in [step : {"fullscreen", "activity"}, on : BOOLEAN] /\ Spend("commands")
        /\ UNCHANGED <<settings, activity_on, disk, others, conn, retained, flag>>
        /\ fullscreen_on' \in BOOLEAN /\ fullscreen' \in BOOLEAN
    BY <1>8 DEF SetFullscreen, TypeOK
  <2>2. QED
    BY <2>1, Spent DEF TypeOK
<1>9. CASE Command
  <2>1. /\ \A v \in Values : [settings EXCEPT !.slot = v] \in States
        /\ \A on \in BOOLEAN : [settings EXCEPT !.rotation = on] \in States
    BY DEF TypeOK, States
  <2>2. QED
    BY <1>7, <1>8, <1>9, <2>1 DEF Command
<1>10. CASE Input \/ Drop \/ Relaunch
  <2>1. /\ \E b \in {"inputs", "drops", "exits"} : Spend(b)
        /\ UNCHANGED <<agent, disk, net, monitor, main, retained, flag>>
        /\ idle' \in BOOLEAN /\ conn' \in BOOLEAN /\ fullscreen' \in BOOLEAN
        /\ watcher' \in {"idle", "got", "publish"}
    BY <1>10 DEF Input, Drop, Relaunch, TypeOK
  <2>2. QED
    BY <2>1, Spent DEF TypeOK
<1>11. CASE Activity
  <2>1. /\ UNCHANGED <<settings, fullscreen_on, disk, net, main, conn, world, left>>
        /\ idle' \in BOOLEAN /\ activity_on' \in BOOLEAN
        /\ watcher' \in {"idle", "got", "publish"} /\ monitor' \in {"idle", "publish"}
    BY <1>11 DEF Activity, WatcherSets, WatcherPublishes, Elapse, MonitorClears,
       MonitorPublishes, TypeOK
  <2>2. retained \in Told
    BY DEF TypeOK
  <2>3. retained' \in Told
    BY <1>11, <2>2 DEF Activity, WatcherSets, WatcherPublishes, Elapse, MonitorClears,
       MonitorPublishes, Publish
  <2>4. QED
    BY <2>1, <2>3 DEF TypeOK
<1>12. CASE Main
  <2> DEFINE Mains == [step : {"connect", "flag", "fullscreen", "rotate"}]
                      \cup [step : {"setflag", "publish"}, on : BOOLEAN]
  <2>1. /\ UNCHANGED <<agent, disk, net, idle, watcher, monitor, conn, fullscreen, left>>
        /\ settings \in States /\ retained \in Told /\ main \in Mains
        /\ flag \in BOOLEAN /\ fullscreen_on \in BOOLEAN
    BY <1>12 DEF Main, Starts, ReadsRotation, SetsFlag, ReadsFullscreen, PublishesFullscreen,
       TypeOK
  <2>2. main.step \in {"setflag", "publish"} => main.on \in BOOLEAN
    BY <2>1
  <2>3. main' \in Mains
    BY <1>12, <2>1 DEF Main, Starts, ReadsRotation, SetsFlag, ReadsFullscreen,
       PublishesFullscreen, MainGoes, States
  <2>4. flag' \in BOOLEAN
    BY <1>12, <2>1, <2>2 DEF Main, Starts, ReadsRotation, SetsFlag, ReadsFullscreen,
       PublishesFullscreen
  <2>5. retained' \in Told
    BY <1>12, <2>1, <2>2 DEF Main, Starts, ReadsRotation, SetsFlag, ReadsFullscreen,
       PublishesFullscreen, Publish
  <2>6. QED
    BY <2>1, <2>3, <2>4, <2>5 DEF TypeOK
<1>13. CASE Kill
  <2>1. /\ Spend("kills") /\ UNCHANGED <<retained, world>> /\ disk' = settings'
        /\ settings' = IF disk = Torn THEN [slot |-> Default, rotation |-> TRUE] ELSE disk
        /\ fullscreen_on' = TRUE /\ activity_on' = FALSE /\ idle' = TRUE /\ conn' = FALSE
        /\ net' = [step |-> "idle"] /\ watcher' = "idle" /\ monitor' = "idle"
        /\ main' = [step |-> "connect"]
    BY <1>13 DEF Kill, Load, MainGoes, Idle
  <2>2. settings' \in States
    BY <2>1 DEF TypeOK, States
  <2>3. QED
    BY <2>1, <2>2, Spent DEF TypeOK
<1>14. QED
  BY <1>1, <1>2, <1>3, <1>4, <1>5, <1>6, <1>9, <1>10, <1>11, <1>12, <1>13 DEF Next, Net

\* The states the agent starts in satisfy the invariant.
LEMMA InitInv == Init => IInv
<1> SUFFICES ASSUME Init PROVE IInv
  OBVIOUS
<1> USE StateAssumption
<1>1. settings \in States /\ disk = settings
  BY DEF Init
<1>2. retained \in [slot : Values, rotation : BOOLEAN, fullscreen : BOOLEAN, activity : BOOLEAN]
  BY <1>1 DEF Init, States
<1>3. left \in [commands : 0..MaxCommands, inputs : 0..MaxInputs, drops : 0..MaxDrops,
                kills : 0..MaxKills, exits : 0..MaxExits, fails : 0..MaxSaveFails]
  BY DEF Init
<1>4. /\ net = [step |-> "idle"] /\ main = [step |-> "connect"] /\ watcher = "idle"
      /\ monitor = "idle" /\ conn = FALSE /\ fullscreen_on = TRUE /\ activity_on = FALSE
      /\ idle = TRUE /\ flag = settings.rotation /\ fullscreen = TRUE
  BY DEF Init, Idle
<1>5. TypeOK
  BY <1>1, <1>2, <1>3, <1>4 DEF TypeOK, States
<1>6. OnItsWay
  BY <1>1, <1>4 DEF OnItsWay, States, InTouch
<1>7. QED
  BY <1>5, <1>6 DEF IInv

\* A step that touches neither the settings nor what is known of them.
LEMMA Undisturbed ==
    ASSUME OnItsWay, UNCHANGED <<settings, disk, net>>, conn' => conn,
           retained'.slot = retained.slot, retained'.rotation = retained.rotation,
           left'.fails = left.fails
    PROVE  OnItsWay'
BY DEF OnItsWay, Shown, InTouch, SavesWork

\* A change of the settings is saved before it is told.
LEMMA NetInv ==
    ASSUME IInv, Net
    PROVE  OnItsWay'
<1> USE StateAssumption DEF agent, others, world
<1> DEFINE Told == [slot : Values, rotation : BOOLEAN, fullscreen : BOOLEAN,
                    activity : BOOLEAN]
<1>1. /\ retained \in Told /\ settings \in States /\ TypeOK /\ OnItsWay
      /\ \A s \in States : s # Torn
  BY DEF IInv, TypeOK, States
<1>2. net.step \in {"save", "replace", "flag", "publish"} =>
          net \in Change /\ net.what \in {"slot", "rotation"}
  BY <1>1, NetShape DEF Change
<1>3. CASE WriteTmp \/ Replace
  <2>1. /\ UNCHANGED <<settings, conn, retained, left>> /\ net.step \in {"save", "replace"}
        /\ disk' = IF net.step = "save" THEN disk ELSE settings
        /\ net'.what = net.what
        /\ net'.step = IF net.step = "save" THEN "replace"
                       ELSE IF net.what = "rotation" THEN "flag" ELSE "publish"
    BY <1>2, <1>3 DEF WriteTmp, Replace, SaveGoes, NetGoes, Change
  <2>2. CASE net.step = "save"
    BY <1>1, <1>2, <2>1, <2>2 DEF OnItsWay, Shown, InTouch, SavesWork
  <2>3. CASE net.step = "replace"
    BY <1>1, <1>2, <2>1, <2>3 DEF OnItsWay, Shown, InTouch, SavesWork
  <2>4. QED
    BY <2>1, <2>2, <2>3
<1>4. CASE SaveFails
  <2>1. /\ disk' = disk /\ net' = Idle /\ left'.fails # MaxSaveFails
    BY <1>1, <1>4, Spent DEF SaveFails
  <2>2. QED
    BY <1>1, <2>1 DEF OnItsWay, SavesWork, Idle
<1>5. CASE SetFlag
  <2>1. /\ UNCHANGED <<settings, disk, conn, retained, left>> /\ net.step = "flag"
        /\ net'.what = net.what /\ net'.step = "publish"
    BY <1>2, <1>5 DEF SetFlag, NetGoes, Change
  <2>2. QED
    BY <1>1, <2>1 DEF OnItsWay, Shown, InTouch, SavesWork
<1>6. CASE PublishChange
  <2>1. /\ UNCHANGED <<settings, disk, conn, left>> /\ net.step = "publish" /\ net'.step = "idle"
        /\ conn /\ net.what = "rotation" =>
              retained'.rotation = settings.rotation /\ retained'.slot = retained.slot
        /\ conn /\ net.what = "slot" =>
              retained'.slot = settings.slot /\ retained'.rotation = retained.rotation
    BY <1>1, <1>6 DEF PublishChange, Publish, Idle
  <2>2. QED
    BY <1>1, <1>2, <2>1 DEF OnItsWay, Shown, InTouch, SavesWork
<1>7. CASE PublishFullscreen \/ Connect
  <2>1. /\ UNCHANGED <<settings, disk, left>> /\ net'.step \in {"idle", "connect"}
        /\ net'.step = "idle" => net.step = "fullscreen"
        /\ net.step \in {"idle", "fullscreen"}
        /\ retained'.slot = retained.slot /\ retained'.rotation = retained.rotation
    BY <1>1, <1>7 DEF PublishFullscreen, Connect, Publish, Idle
  <2>2. QED
    BY <1>1, <2>1 DEF OnItsWay, Shown, InTouch, SavesWork
<1>8. CASE PublishStates
  <2>1. /\ UNCHANGED <<settings, disk, conn, left>> /\ net.step = "connect"
        /\ net'.step = "activity"
        /\ conn => retained'.rotation = settings.rotation
    BY <1>1, <1>8 DEF PublishStates, Publish
  <2>2. QED
    BY <1>1, <2>1 DEF OnItsWay, Shown, InTouch, SavesWork
<1>9. CASE PublishRest
  <2>1. /\ UNCHANGED <<settings, disk, conn, left>> /\ net.step = "activity"
        /\ net'.step = "idle"
        /\ conn => retained'.slot = settings.slot /\ retained'.rotation = retained.rotation
    BY <1>1, <1>9 DEF PublishRest, Publish, Idle
  <2>2. QED
    BY <1>1, <2>1 DEF OnItsWay, Shown, InTouch, SavesWork
<1>10. QED
  BY <1>3, <1>4, <1>5, <1>6, <1>7, <1>8, <1>9 DEF Net

\* The commands, and the kill.
LEMMA CommandInv ==
    ASSUME IInv, Command \/ Kill
    PROVE  OnItsWay'
<1> USE StateAssumption DEF agent, others, world
<1>1. settings \in States /\ TypeOK /\ OnItsWay
  BY DEF IInv, TypeOK
<1>2. ASSUME NEW new \in States, NEW what \in {"slot", "rotation"}, ChangeState(new, what),
             what = "slot" => new.rotation = settings.rotation,
             what = "rotation" => new.slot = settings.slot
      PROVE  OnItsWay'
  <2>1. /\ net.step = "idle" /\ conn /\ settings' = new /\ UNCHANGED <<disk, retained>>
        /\ net'.step = "save" /\ net'.what = what /\ left'.fails = left.fails
    BY <1>1, <1>2, Spent DEF ChangeState
  <2>2. QED
    BY <1>1, <1>2, <2>1 DEF OnItsWay, Shown, InTouch, SavesWork
<1>3. ASSUME NEW on \in BOOLEAN, SetFullscreen(on) PROVE OnItsWay'
  <2>1. /\ net.step = "idle" /\ conn /\ UNCHANGED <<settings, disk, retained, conn>>
        /\ net'.step = "fullscreen" /\ left'.fails = left.fails
    BY <1>1, <1>3, Spent DEF SetFullscreen
  <2>2. QED
    BY <1>1, <2>1 DEF OnItsWay, Shown, InTouch, SavesWork
<1>4. CASE Command
  <2>1. ASSUME NEW v \in Values PROVE
           LET new == [settings EXCEPT !.slot = v]
           IN  new \in States /\ new.rotation = settings.rotation
    BY <1>1 DEF States
  <2>2. ASSUME NEW on \in BOOLEAN PROVE
           LET new == [settings EXCEPT !.rotation = on]
           IN  new \in States /\ new.slot = settings.slot
    BY <1>1 DEF States
  <2>3. QED
    BY <1>2, <1>3, <1>4, <2>1, <2>2 DEF Command
<1>5. CASE Kill
  <2>1. /\ settings' = disk /\ disk' = disk /\ net'.step = "idle" /\ conn' = FALSE
    BY <1>1, <1>5 DEF Kill, Load, Idle, OnItsWay
  <2>2. QED
    BY <1>1, <2>1 DEF OnItsWay, Shown, InTouch, SavesWork
<1>6. QED
  BY <1>4, <1>5

LEMMA NextInv == IInv /\ [Next]_vars => IInv'
<1> SUFFICES ASSUME IInv, [Next]_vars PROVE IInv'
  OBVIOUS
<1>1. TypeOK /\ TypeOK' /\ OnItsWay
  BY TypeInv DEF IInv
<1>2. retained \in [slot : Values, rotation : BOOLEAN, fullscreen : BOOLEAN, activity : BOOLEAN]
  BY <1>1 DEF TypeOK
<1>3. CASE UNCHANGED vars \/ Main \/ Activity
  <2>1. /\ UNCHANGED <<settings, disk, net, conn, left>>
        /\ retained'.slot = retained.slot /\ retained'.rotation = retained.rotation
    BY <1>2, <1>3 DEF vars, agent, others, world, Main, Starts, ReadsRotation, SetsFlag, ReadsFullscreen,
       PublishesFullscreen, Activity, WatcherSets, WatcherPublishes, Elapse, MonitorClears,
       MonitorPublishes, Publish
  <2>2. QED
    BY <1>1, <2>1, Undisturbed DEF IInv
<1>4. CASE Input \/ Drop \/ Relaunch
  <2>1. UNCHANGED <<settings, disk, net, retained>> /\ (conn' => conn)
    BY <1>4 DEF agent, others, Input, Drop, Relaunch
  <2>2. left'.fails = left.fails
    BY <1>1, <1>4, Spent DEF Input, Drop, Relaunch
  <2>3. QED
    BY <1>1, <2>1, <2>2, Undisturbed DEF IInv
<1>5. QED
  BY <1>1, <1>3, <1>4, NetInv, CommandInv DEF Next, IInv

\* The invariant holds in every reachable state.
THEOREM Inductive == Spec => []IInv
BY InitInv, NextInv, PTL DEF Spec

\* As long as no save has failed, whenever the agent is connected and no command is
\* in progress, Home Assistant shows the slots and the switch a restart would load.
THEOREM Survives == Spec => []EditsSurvive
<1>1. IInv => EditsSurvive
  BY DEF IInv, OnItsWay, EditsSurvive, Shown
<1>2. QED
  BY <1>1, Inductive, PTL

\* A kill loses at most the edit whose save is in progress.
THEOREM KillIsHarmless == Spec => KillKeepsState
<1> DEFINE A == left'.kills # left.kills /\ SavesWork =>
                  \/ settings' = settings
                  \/ net.step \in {"save", "replace"} /\ \E f \in {"slot", "rotation"} :
                         settings' = [settings EXCEPT ![f] = retained[f]]
<1>1. IInv /\ [Next]_vars => [A]_vars
  <2> SUFFICES ASSUME IInv, Next, left'.kills # left.kills, SavesWork
               PROVE  \/ settings' = settings
                      \/ net.step \in {"save", "replace"} /\ \E f \in {"slot", "rotation"} :
                             settings' = [settings EXCEPT ![f] = retained[f]]
    OBVIOUS
  <2>1. TypeOK /\ OnItsWay
    BY DEF IInv
  <2>2. Kill
    <3>1. CASE Main \/ Activity
      BY <3>1 DEF Main, Starts, ReadsRotation, SetsFlag, ReadsFullscreen, PublishesFullscreen,
         Activity, WatcherSets, WatcherPublishes, Elapse, MonitorClears, MonitorPublishes
    <3>2. CASE Net
      BY <2>1, <3>2, Spent DEF Net, WriteTmp, Replace, SaveFails, SetFlag, PublishChange,
         PublishFullscreen, Connect, PublishStates, PublishRest
    <3>3. CASE Command \/ Input \/ Drop \/ Relaunch
      BY <2>1, <3>3, Spent DEF Command, ChangeState, SetFullscreen, Input, Drop, Relaunch
    <3>4. QED
      BY <3>1, <3>2, <3>3 DEF Next
  <2>3. settings' = disk
    BY <2>1, <2>2 DEF Kill, Load, OnItsWay
  <2>4. CASE net.step \in {"save", "replace"}
    <3>1. /\ net.what \in {"slot", "rotation"} /\ settings \in States /\ disk \in States
      BY <2>1, <2>4, NetShape DEF Change, TypeOK, OnItsWay
    <3>2. CASE net.what = "slot"
      <4>1. disk = [settings EXCEPT !["slot"] = retained["slot"]]
        BY <2>1, <2>4, <3>1, <3>2 DEF OnItsWay, Shown, States
      <4>2. QED
        BY <2>3, <2>4, <4>1
    <3>3. CASE net.what = "rotation"
      <4>1. disk = [settings EXCEPT !["rotation"] = retained["rotation"]]
        BY <2>1, <2>4, <3>1, <3>3 DEF OnItsWay, Shown, States
      <4>2. QED
        BY <2>3, <2>4, <4>1
    <3>4. QED
      BY <3>1, <3>2, <3>3
  <2>5. CASE net.step \notin {"save", "replace"}
    BY <2>1, <2>3, <2>5 DEF OnItsWay
  <2>6. QED
    BY <2>4, <2>5
<1>2. QED
  BY <1>1, Inductive, PTL DEF Spec, KillKeepsState

\* Home Assistant is told of a new slot or switch only after the state file has it,
\* also when saves fail.
THEOREM ToldWhenSaved == Spec => ToldIsSaved
<1> DEFINE A == net.step = "publish" =>
                  /\ retained'.slot \in {retained.slot, disk.slot}
                  /\ retained'.rotation \in {retained.rotation, disk.rotation}
<1>1. IInv /\ [Next]_vars => [A]_vars
  <2> SUFFICES ASSUME IInv, Next, net.step = "publish"
               PROVE  /\ retained'.slot \in {retained.slot, disk.slot}
                      /\ retained'.rotation \in {retained.rotation, disk.rotation}
    OBVIOUS
  <2>1. disk = settings
    BY DEF IInv, OnItsWay
  <2>2. retained \in [slot : Values, rotation : BOOLEAN, fullscreen : BOOLEAN, activity : BOOLEAN]
    BY DEF IInv, TypeOK
  <2>3. CASE Main \/ Activity
    BY <2>2, <2>3 DEF Main, Starts, ReadsRotation, SetsFlag, ReadsFullscreen, PublishesFullscreen,
       Activity, WatcherSets, WatcherPublishes, Elapse, MonitorClears, MonitorPublishes, Publish
  <2>4. CASE Net
    BY <2>1, <2>2, <2>4 DEF Net, WriteTmp, Replace, SaveFails, SetFlag, PublishChange,
       PublishFullscreen, Connect, PublishStates, PublishRest, Publish
  <2>5. CASE Command \/ Input \/ Drop \/ Relaunch \/ Kill
    BY <2>5 DEF Command, ChangeState, SetFullscreen, Input, Drop, Relaunch, Kill
  <2>6. QED
    BY <2>3, <2>4, <2>5 DEF Next
<1>2. QED
  BY <1>1, Inductive, PTL DEF Spec, ToldIsSaved
=============================================================================
