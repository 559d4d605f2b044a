------------------------------- MODULE CmtSync -------------------------------
(***************************************************************************)
(* What `cmt apply` does to one project of one host while it holds the     *)
(* project's lock: it reads the directories, the manifest, the files and   *)
(* the services of the project into a plan, asks, and carries the plan out *)
(* directory by directory and file by file, then writes the manifest, runs *)
(* the post-sync command and the compose command.  Any ssh or scp command  *)
(* may fail, before, in the middle of, or after its effect; the apply then *)
(* stops where it is, and the next one starts from what it left.  Between  *)
(* two steps the repository may be edited, the containers may write files  *)
(* and services may stop.                                                  *)
(***************************************************************************)
EXTENDS Integers

CONSTANTS
    NPaths,       \* the number of file paths, numbered in sorted order
    ComposeFile,  \* the path of compose.yml
    Reserved,     \* the paths of cmt's own files: the manifest and the lock
    Contents,     \* what a file may hold after rendering
    Invalid,      \* those among them `docker compose config` rejects
    Dirs,         \* the directories the configuration asks for
    Services,     \* the services compose.yml defines
    MaxEdits,     \* how many edits and events outside cmt may happen
    MaxFaults,    \* how many commands may fail
    None,         \* no file; no manifest, or one that does not parse
    Torn          \* what a cut-off upload leaves in a file

Paths == 1..NPaths

ASSUME SyncAssumption ==
    /\ NPaths \in Nat /\ MaxEdits \in Nat /\ MaxFaults \in Nat
    /\ ComposeFile \in Paths /\ Reserved \subseteq Paths \ {ComposeFile}
    /\ Invalid \subseteq Contents
    /\ None \notin Contents \cup {Torn} /\ Torn \notin Contents
    /\ \A S \in SUBSET Paths : S # None

VARIABLES
    local,     \* the repository's rendered file at each path
    preserve,  \* preserveRemoteFiles of the project's configuration
    action,    \* composeAction of the project's configuration
    disk,      \* the file at each path of the remote project directory
    manifest,  \* the managedFiles of .cmt-manifest.json
    dirs,      \* each directory: absent, with drifted metadata, or as asked
    service,   \* each service: stopped, or running with current or stale files
    unhooked,  \* whether files changed and no post-sync command ran since
    ours,      \* history: where the file on the disk is one that cmt uploaded
    pc,        \* the stage of the apply that is running, or idle
    plan,      \* its plan
    todoDirs,  \* the directories it has still to process
    todo,      \* the files it has still to upload or delete
    err,       \* whether the last apply has returned an error
    edits,     \* the edits and events that may still happen
    faults     \* the failures that may still happen

config == <<local, preserve, action>>
host   == <<disk, manifest, dirs, service, unhooked, ours>>
vars   == <<config, host, pc, plan, todoDirs, todo, err, edits, faults>>

FileActions == {"none", "unchanged", "add", "modify", "delete"}
Changes     == {"add", "modify", "delete"}
Manifests   == {None} \cup SUBSET Paths

\* A ProjectPlan, with what of the configuration and of the repository it was
\* computed from: the preserved paths, the files to sync, the manifest.
Plan == [keep : SUBSET Paths, act : {"up", "down", "ignore"},
         src : [Paths -> Contents \cup {None}], known : Manifests,
         dirs : [Dirs -> {"unchanged", "add", "modify"}], unknown : BOOLEAN,
         files : [Paths -> FileActions],
         compose : {"none", "start", "recreate", "stop"}]

NoPlan == [keep |-> {}, act |-> "ignore", src |-> [p \in Paths |-> None],
           known |-> None, dirs |-> [d \in Dirs |-> "unchanged"],
           unknown |-> FALSE, files |-> [p \in Paths |-> "none"],
           compose |-> "none"]

TypeOK ==
    /\ local \in [Paths -> Contents \cup {None}]
    /\ preserve \subseteq Paths
    /\ action \in {"up", "down", "ignore"}
    /\ disk \in [Paths -> Contents \cup {None, Torn}]
    /\ manifest \in Manifests
    /\ dirs \in [Dirs -> {"absent", "drifted", "ok"}]
    /\ service \in [Services -> {"stopped", "current", "stale"}]
    /\ unhooked \in BOOLEAN /\ err \in BOOLEAN
    /\ ours \subseteq Paths
    /\ pc \in {"idle", "stat", "collect", "diff", "query", "confirm", "refresh",
               "dirs", "files", "manifest", "post", "compose"}
    /\ plan \in Plan
    /\ todoDirs \subseteq Dirs /\ todo \subseteq Paths
    /\ edits \in 0..MaxEdits /\ faults \in 0..MaxFaults

\* A host the project was never deployed to, or one it was deployed to as the
\* repository has it now.
Init ==
    /\ local \in [Paths -> (Contents \ Invalid) \cup {None}]
    /\ preserve = {} /\ action = "up"
    /\ \/ /\ disk = [p \in Paths |-> None]
          /\ manifest = None /\ ours = {}
          /\ dirs = [d \in Dirs |-> "absent"]
          /\ service = [s \in Services |-> "stopped"]
       \/ /\ disk = [p \in Paths |-> IF p \in Reserved THEN None ELSE local[p]]
          /\ manifest = {p \in Paths : disk[p] # None} /\ ours = manifest
          /\ dirs = [d \in Dirs |-> "ok"]
          /\ service = [s \in Services |-> IF disk[ComposeFile] = None
                                           THEN "stopped" ELSE "current"]
    /\ unhooked = FALSE /\ err = FALSE
    /\ pc = "idle" /\ plan = NoPlan /\ todoDirs = {} /\ todo = {}
    /\ edits = MaxEdits /\ faults = MaxFaults

Fault   == faults > 0 /\ faults' = faults - 1
NoFault == faults' = faults

\* The apply ends: what it has to say is an error, or not.
Ends(failed) == pc' = "idle" /\ err' = failed
\* The apply goes on to its next stage.
Goes(stage) == pc' = stage /\ UNCHANGED err

-----------------------------------------------------------------------------
(* buildProjectPlanForHost                                                 *)

\* The host's configuration is loaded.
StartApply ==
    /\ pc = "idle"
    /\ Goes("stat")
    /\ plan' = [NoPlan EXCEPT !.keep = preserve, !.act = action]
    /\ UNCHANGED <<config, host, todoDirs, todo, edits>> /\ NoFault

\* buildDirPlans.  A directory that cannot be checked is planned like a missing
\* one and remembered; metadata that cannot be read counts as drifted.
DirAction(d) == CASE dirs[d] = "absent"  -> "add"
                  [] dirs[d] = "drifted" -> "modify"
                  [] dirs[d] = "ok"      -> "unchanged"

PlanDirs ==
    LET found == [d \in Dirs |-> DirAction(d)] IN
    /\ pc = "stat"
    /\ \/ /\ NoFault
          /\ plan' = [plan EXCEPT !.dirs = found]
       \/ \E d \in Dirs :
          /\ Fault
          /\ \/ plan' = [plan EXCEPT !.dirs = [found EXCEPT ![d] = "add"],
                                     !.unknown = TRUE]
             \/ /\ found[d] # "add"
                /\ plan' = [plan EXCEPT !.dirs = [found EXCEPT ![d] = "modify"]]
    /\ Goes("collect")
    /\ UNCHANGED <<config, host, todoDirs, todo, edits>>

\* CollectLocalFiles without the preserved ones, and readManifest, for which a
\* manifest that is absent, unreadable or broken is no manifest.
Collect ==
    /\ pc = "collect"
    /\ \E m \in {manifest, None} :
       /\ IF m = manifest THEN NoFault ELSE Fault
       /\ plan' = [plan EXCEPT
             !.known = m,
             !.src = [p \in Paths |-> IF p \in plan.keep THEN None ELSE local[p]]]
    /\ Goes("diff")
    /\ UNCHANGED <<config, host, todoDirs, todo, edits>>

\* Mutant: a file that is there is taken to be in sync.
ActionByExistence(p, seen) == IF seen = None THEN "add" ELSE "unchanged"

\* buildLocalFilePlan for the local file at p, when `seen` is what could be read
\* at the host: None when there is no file or no answer.
UploadAction(p, seen) ==
    IF seen = None THEN "add"
    ELSE IF seen = plan.src[p] THEN "unchanged" ELSE "modify"

\* Mutant: deletions do not look at preserveRemoteFiles.
DeletesPreserved(p, seen) ==
    IF plan.known # None /\ p \in plan.known THEN "delete" ELSE "none"
\* Mutant: a managed file that cannot be read is taken to be gone already.
DeletesReadable(p, seen) ==
    IF seen # None /\ plan.known # None /\ p \in plan.known \ plan.keep
    THEN "delete" ELSE "none"

\* buildDeleteFilePlans at a path p without a local file to sync: what is on
\* record is deleted, whether or not it can be read.
DeleteAction(p, seen) ==
    IF plan.known # None /\ p \in plan.known \ plan.keep
    THEN "delete" ELSE "none"

FileAction(p, seen) ==
    CASE p \in Reserved                           -> "none"
      [] p \notin Reserved /\ plan.src[p] # None -> UploadAction(p, seen)
      [] p \notin Reserved /\ plan.src[p] = None -> DeleteAction(p, seen)

\* buildFilePlans and validateComposeConfigForPlan, which rejects the plan when
\* the compose.yml to be synced is not valid.
Diff ==
    /\ pc = "diff"
    /\ \/ /\ NoFault
          /\ plan' = [plan EXCEPT
                        !.files = [p \in Paths |-> FileAction(p, disk[p])]]
       \/ \E q \in Paths :
          /\ Fault
          /\ plan' = [plan EXCEPT
                !.files = [p \in Paths |->
                             FileAction(p, IF p = q THEN None ELSE disk[p])]]
    /\ IF plan.src[ComposeFile] \in Invalid THEN Ends(TRUE) ELSE Goes("query")
    /\ UNCHANGED <<config, host, todoDirs, todo, edits>>

\* docker compose works in the project directory when its compose.yml parses.
ComposeWorks == disk[ComposeFile] \in Contents \ Invalid
Running      == {s \in Services : service[s] # "stopped"}

FilesOrDirsChanged == \/ \E p \in Paths : plan.files[p] \in Changes
                      \/ \E d \in Dirs : plan.dirs[d] # "unchanged"

\* buildComposePlan's decision, from what the two queries returned.
ComposeAction(defined, running) ==
    CASE plan.act = "up" -> IF FilesOrDirsChanged /\ defined # {} THEN "recreate"
                            ELSE IF defined \ running # {} THEN "start"
                            ELSE "none"
      [] plan.act = "down"   -> IF running # {} THEN "stop" ELSE "none"
      [] plan.act = "ignore" -> "none"

\* A query that fails counts as one that lists no service.
Query ==
    LET defined == IF ComposeWorks THEN Services ELSE {}
        running == IF ComposeWorks THEN Running ELSE {}
    IN
    /\ pc = "query"
    /\ \/ NoFault /\ plan' = [plan EXCEPT !.compose = ComposeAction(defined, running)]
       \/ Fault /\ plan' = [plan EXCEPT !.compose = ComposeAction({}, running)]
       \/ Fault /\ plan' = [plan EXCEPT !.compose = ComposeAction(defined, {})]
    /\ Goes("confirm")
    /\ UNCHANGED <<config, host, todoDirs, todo, edits>>

-----------------------------------------------------------------------------
(* runApplyPreflight                                                       *)

HasChanges == FilesOrDirsChanged \/ plan.compose # "none"

\* handleNoChanges: the apply is over, after it has written the manifest when
\* it was called with --refresh-manifest-on-noop.
NoChanges ==
    /\ pc = "confirm" /\ ~HasChanges
    /\ Ends(FALSE) \/ Goes("refresh")
    /\ UNCHANGED <<config, host, plan, todoDirs, todo, edits>> /\ NoFault

\* The operator or a hook declines; a hook fails; the plan is not the one that
\* --expected-plan-sha256 names; the process is killed.
Decline ==
    /\ pc = "confirm"
    /\ \E failed \in BOOLEAN : Ends(failed)
    /\ UNCHANGED <<config, host, plan, todoDirs, todo, edits>> /\ NoFault

Approve ==
    /\ pc = "confirm" /\ HasChanges
    /\ todoDirs' = {d \in Dirs : plan.dirs[d] # "unchanged"}
    /\ todo' = {p \in Paths : plan.files[p] \in Changes}
    /\ Goes("dirs")
    /\ UNCHANGED <<config, host, plan, edits>> /\ NoFault

-----------------------------------------------------------------------------
(* applyProjectPlan                                                        *)

\* The running services have been started with other files than there are now.
Outdate == service' = [s \in Services |-> IF service[s] = "current"
                                          THEN "stale" ELSE service[s]]

\* processDirPlan: mkdir -p, then chown and chmod.
MakeDir ==
    /\ pc = "dirs"
    /\ \/ /\ todoDirs = {}
          /\ Goes("files")
          /\ UNCHANGED <<dirs, service, todoDirs>> /\ NoFault
       \/ \E d \in todoDirs :
          /\ Outdate
          /\ \/ /\ NoFault
                /\ dirs' = [dirs EXCEPT ![d] = "ok"]
                /\ todoDirs' = todoDirs \ {d}
                /\ Goes("dirs")
             \/ /\ Fault
                /\ dirs' \in {dirs, [dirs EXCEPT ![d] = "ok"],
                    [dirs EXCEPT ![d] = IF @ = "absent" THEN "drifted" ELSE @]}
                /\ Ends(TRUE)
                /\ UNCHANGED todoDirs
    /\ UNCHANGED <<config, disk, manifest, unhooked, ours, plan, todo, edits>>

\* The next file of syncProjectFiles, in sorted order: scp, or rm -f.
SyncFile ==
    /\ pc = "files"
    /\ \/ /\ todo = {}
          /\ Goes("manifest")
          /\ UNCHANGED <<disk, service, unhooked, ours, todo>> /\ NoFault
       \/ \E p \in todo :
          LET deletes == plan.files[p] = "delete"
              after   == IF deletes THEN None ELSE plan.src[p]
          IN
          /\ \A q \in todo : p <= q
          /\ \/ /\ NoFault
                /\ disk' = [disk EXCEPT ![p] = after]
                /\ todo' = todo \ {p}
                /\ Goes("files")
             \/ /\ Fault
                /\ \E c \in {disk[p], after} \cup (IF deletes THEN {} ELSE {Torn}) :
                      disk' = [disk EXCEPT ![p] = c]
                /\ Ends(TRUE)
                /\ UNCHANGED todo
          /\ IF disk' = disk THEN UNCHANGED <<service, unhooked, ours>>
             ELSE /\ Outdate
                  /\ unhooked' = TRUE
                  /\ ours' = IF deletes THEN ours \ {p} ELSE ours \cup {p}
    /\ UNCHANGED <<config, manifest, dirs, plan, todoDirs, edits>>

\* Mutant: the manifest lists the files of this apply.
ManagedNow == {p \in Paths : plan.files[p] \in {"add", "modify"}}

\* writeProjectManifest: the local files that are not reserved.  What the
\* configuration preserves is not cmt's from here on.
Managed == {p \in Paths \ Reserved : plan.src[p] # None}

WriteManifest ==
    /\ pc \in {"manifest", "refresh"}
    /\ \/ /\ NoFault
          /\ manifest' = Managed
          /\ IF pc = "manifest" THEN Goes("post") ELSE Ends(FALSE)
       \/ /\ Fault
          /\ manifest' \in {manifest, None, Managed}
          /\ Ends(TRUE)
    /\ ours' = IF manifest' = Managed THEN ours \ plan.keep ELSE ours
    /\ UNCHANGED <<config, disk, dirs, service, unhooked, plan, todoDirs, todo,
                   edits>>

\* Mutant: a post-sync command that fails is a warning.
PostSyncWarns ==
    /\ pc = "post"
    /\ \/ NoFault /\ unhooked' = FALSE
       \/ Fault /\ unhooked' \in {unhooked, FALSE}
    /\ Goes("compose")
    /\ UNCHANGED <<config, disk, manifest, dirs, service, ours, plan, todoDirs,
                   todo, edits>>

\* runPostSyncCommand
PostSync ==
    /\ pc = "post"
    /\ \/ NoFault /\ unhooked' = FALSE /\ Goes("compose")
       \/ Fault /\ unhooked' \in {unhooked, FALSE} /\ Ends(TRUE)
    /\ UNCHANGED <<config, disk, manifest, dirs, service, ours, plan, todoDirs,
                   todo, edits>>

\* Mutant: recreating lacks --force-recreate.
NoForce(s) ==
    CASE plan.compose = "none"     -> {service[s]}
      [] plan.compose = "stop"     -> {"stopped"}
      [] plan.compose \in {"start", "recreate"} ->
             IF service[s] = "stopped" THEN {"current"} ELSE {service[s], "current"}

\* What the planned command makes of a service: `up -d` starts it and may
\* recreate it, `--force-recreate` recreates it, `down` stops it.
Commanded(s) ==
    CASE plan.compose = "none"     -> {service[s]}
      [] plan.compose = "start"    -> IF service[s] = "stopped" THEN {"current"}
                                      ELSE {service[s], "current"}
      [] plan.compose = "recreate" -> {"current"}
      [] plan.compose = "stop"     -> {"stopped"}

\* runComposeAction, which fails without a compose.yml that parses, and the end
\* of ApplyWithDeps, which reports directories that could not be checked.
RunCompose ==
    /\ pc = "compose"
    /\ \/ /\ NoFault
          /\ plan.compose = "none" \/ ComposeWorks
          /\ service' \in [Services -> {"stopped", "current", "stale"}]
          /\ \A s \in Services : service'[s] \in Commanded(s)
          /\ Ends(plan.unknown)
       \/ /\ NoFault
          /\ plan.compose # "none" /\ ~ComposeWorks
          /\ Ends(TRUE)
          /\ UNCHANGED service
       \/ /\ Fault
          /\ service' \in [Services -> {"stopped", "current", "stale"}]
          /\ \A s \in Services : service'[s] \in Commanded(s) \cup {service[s]}
          /\ Ends(TRUE)
    /\ UNCHANGED <<config, disk, manifest, dirs, unhooked, ours, plan, todoDirs,
                   todo, edits>>

-----------------------------------------------------------------------------
(* Around cmt                                                              *)

Event == edits > 0 /\ edits' = edits - 1

\* The repository is edited: a file, or the project's configuration.
Edit ==
    /\ Event
    /\ \/ /\ \E p \in Paths, c \in Contents \cup {None} :
                local' = [local EXCEPT ![p] = c]
          /\ UNCHANGED <<preserve, action>>
       \/ /\ \E p \in Paths \ Reserved :
                preserve' \in {preserve \cup {p}, preserve \ {p}}
          /\ UNCHANGED <<local, action>>
       \/ /\ action' \in {"up", "down", "ignore"}
          /\ UNCHANGED <<local, preserve>>
    /\ UNCHANGED <<host, pc, plan, todoDirs, todo, err>> /\ NoFault

\* A container rewrites a file of the project, as Home Assistant's UI does.
HostWrite ==
    /\ Event
    /\ \E p \in Paths \ (Reserved \cup {ComposeFile}), c \in Contents :
        /\ disk[p] # None
        /\ disk' = [disk EXCEPT ![p] = c]
    /\ UNCHANGED <<config, manifest, dirs, service, unhooked, ours, pc, plan,
                   todoDirs, todo, err>> /\ NoFault

ServiceStops ==
    /\ Event
    /\ \E s \in Running : service' = [service EXCEPT ![s] = "stopped"]
    /\ UNCHANGED <<config, disk, manifest, dirs, unhooked, ours, pc, plan,
                   todoDirs, todo, err>> /\ NoFault

PlanStep  == StartApply \/ PlanDirs \/ Collect \/ Diff \/ Query
ApplyStep == MakeDir \/ SyncFile \/ WriteManifest \/ PostSync \/ RunCompose

Next == \/ PlanStep \/ NoChanges \/ Decline \/ Approve \/ ApplyStep
        \/ Edit \/ HostWrite \/ ServiceStops

Spec == Init /\ [][Next]_vars

\* Somebody runs `cmt apply` again and again and does not decline for ever.
FairSpec == Spec /\ WF_vars(PlanStep \/ NoChanges \/ ApplyStep) /\ SF_vars(Approve)

-----------------------------------------------------------------------------
(* Properties                                                              *)

\* README.md:174-190: cmt neither syncs nor deletes the files its configuration
\* preserved when the plan was made, nor its own ones, nor a file that is
\* neither in the repository nor in the manifest; and the configuration, the
\* repository, the host and the manifest may change meanwhile.
TouchesOnlyItsOwn ==
    [][\A p \in Paths : (disk'[p] # disk[p] /\ edits' = edits) =>
        /\ p \notin Reserved \cup plan.keep
        /\ disk'[p] = None => plan.known # None /\ p \in plan.known
        /\ disk'[p] # None => plan.src[p] # None]_vars

\* An apply that could read the manifest drops a file from it only when the file is
\* gone from the host or preserved, whichever upload, deletion or command has failed
\* before.  An apply that could not read the manifest takes it for none, and a torn
\* manifest is none: both lose the record, and are exempt.
KnownUntilGone ==
    [][\A p \in Paths :
        (/\ manifest # None /\ p \in manifest
         /\ manifest' # None /\ p \notin manifest') =>
            disk[p] = None \/ p \in plan.keep \/ plan.known = None]_vars

\* Without failures no file that cmt uploaded is forgotten at the host: it is
\* on record, or the apply that uploaded it is about to put it there.
NoOrphans ==
    faults = MaxFaults =>
        \A p \in ours : \/ manifest # None /\ p \in manifest
                        \/ pc \in {"files", "manifest"} /\ p \in Managed

\* An apply that returns no error and that nobody declined: it got to its end,
\* or there was nothing to do.
Completes == /\ pc' = "idle" /\ ~err'
             /\ pc \in {"compose", "refresh"} \/ (pc = "confirm" /\ ~HasChanges)

\* README.md:237-238: an update of files or directories recreates all services.
\* Without failures it does, whatever stops, and is edited, in the meantime, of
\* a project whose compose.yml was at the host before.
UpdatesRecreate ==
    [][(/\ faults = MaxFaults
        /\ Completes /\ FilesOrDirsChanged /\ plan.act = "up"
        /\ plan.files[ComposeFile] # "add" /\ ComposeWorks)
        => \A s \in Services : service'[s] = "current"]_vars

\* An apply that has changed something and returns no error has run the post-sync command
\* since the last change of the files, also for what an apply that failed has left pending.
\* An apply that finds nothing to change runs no command: it ends well all the same.
HookRuns == [][Completes /\ pc = "compose" => ~unhooked']_vars

\* UpdatesRecreate, read as what a user is told: after an apply of an `up` project that
\* ended well, no service of the deployed project runs with files of before.
ServicesFresh ==
    [][(Completes /\ plan.act = "up" /\ ComposeWorks)
        => \A s \in Services : service'[s] # "stale"]_vars

\* The inductive invariant behind these properties, stage by stage.
Planned == {"query", "confirm", "refresh", "dirs", "files", "manifest", "post",
            "compose"}

\* What is to be deleted: it is on record and the configuration does not preserve
\* it, but the repository does not have it.
Obsolete(p) == /\ p \notin Reserved /\ plan.src[p] = None
               /\ plan.known # None /\ p \in plan.known \ plan.keep

PlanSound ==
    /\ \A p \in plan.keep : plan.src[p] = None
    /\ pc \in {"stat", "collect", "diff"} => \A p \in Paths : plan.files[p] = "none"
    /\ \A p \in Paths :
         /\ plan.files[p] \in {"unchanged", "add", "modify"} =>
                p \notin Reserved /\ plan.src[p] # None
         /\ plan.files[p] = "delete" => Obsolete(p)
         /\ pc \in Planned /\ Obsolete(p) => plan.files[p] = "delete"

\* Until the apply writes the manifest, it is as the apply has read it.
RecordKnown ==
    /\ manifest # None => manifest \cap Reserved = {}
    /\ pc \in {"diff", "query", "confirm", "refresh", "dirs", "files", "manifest"} =>
         /\ plan.known \in {None, manifest}
         /\ faults = MaxFaults => plan.known = manifest

\* What of the plan has been done.
Done ==
    /\ pc \in {"dirs", "files"} =>
         /\ \A p \in todo : plan.files[p] \in Changes
         /\ \A p \in Paths : plan.files[p] = "delete" => p \in todo \/ disk[p] = None
    /\ pc = "manifest" => \A p \in Paths : plan.files[p] = "delete" => disk[p] = None
    /\ pc = "refresh" => ~HasChanges
    /\ pc = "compose" => ~unhooked

OursOnDisk == \A p \in ours : disk[p] # None

\* Without failures the compose.yml at the host is valid, and only for want of one
\* is a changed project not planned to be recreated.
ComposeKnown ==
    /\ pc \in Planned => plan.src[ComposeFile] \notin Invalid
    /\ faults = MaxFaults =>
         /\ disk[ComposeFile] \in (Contents \ Invalid) \cup {None}
         /\ pc = "query" /\ disk[ComposeFile] = None /\ plan.src[ComposeFile] # None
              => plan.files[ComposeFile] = "add"
         /\ pc \in Planned \ {"query"} /\ plan.act = "up" /\ FilesOrDirsChanged =>
              \/ plan.compose = "recreate" \/ Services = {}
              \/ plan.files[ComposeFile] = "add"
              \/ disk[ComposeFile] = None /\ plan.src[ComposeFile] = None

IInv == /\ TypeOK /\ PlanSound /\ RecordKnown /\ Done /\ OursOnDisk /\ ComposeKnown
        /\ NoOrphans

\* Once edits and failures are over, applies bring about what the repository
\* asks for, from whatever the failed ones left.
InSync ==
    /\ \A p \in Paths \ (Reserved \cup preserve) :
          local[p] # None => disk[p] = local[p]
    /\ \A d \in Dirs : dirs[d] = "ok"
    /\ (ComposeWorks /\ action = "up") => Running = Services
    /\ (ComposeWorks /\ action = "down") => Running = {}

Converges ==
    <>[](ComposeFile \in preserve \/ local[ComposeFile] \notin Invalid => InSync)

\* README.md:188-190: a file that preserveRemoteFiles names is out of the
\* manifest after the next apply.
PreservedLeavesManifest ==
    [][Completes => manifest' = None \/ manifest' \cap plan.keep = {}]_vars

\* README.md:237-238: for an `up` project whose files or directories change, the
\* plan is to recreate all services.
ChangesRecreate ==
    (pc \in {"confirm", "dirs"} /\ plan.act = "up" /\ FilesOrDirsChanged) =>
        plan.compose = "recreate"
=============================================================================
