---------------------------- MODULE CmtSyncProofs ----------------------------
(* Proofs about the plan and the apply of a project, for any paths, contents, *)
(* directories and services, and any number of edits and failed commands.    *)
EXTENDS CmtSync, TLAPS

\* What is stored where.
LEMMA PlanType ==
    ASSUME TypeOK, PlanStep
    PROVE  plan' \in Plan
<1> USE SyncAssumption DEF TypeOK
<1>0. plan \in Plan
  OBVIOUS
<1>1. CASE StartApply
  BY <1>1 DEF StartApply, Plan, NoPlan, Manifests, FileActions
<1>2. CASE PlanDirs
  <2> DEFINE found == [d \in Dirs |-> DirAction(d)]
  <2>1. found \in [Dirs -> {"unchanged", "add", "modify"}]
    <3>1. \A d \in Dirs : DirAction(d) \in {"unchanged", "add", "modify"}
      BY DEF DirAction
    <3>2. QED
      BY <3>1
  <2>2. /\ \A d \in Dirs : [found EXCEPT ![d] = "add"] \in [Dirs -> {"unchanged", "add", "modify"}]
        /\ \A d \in Dirs : [found EXCEPT ![d] = "modify"] \in [Dirs -> {"unchanged", "add", "modify"}]
    BY <2>1
  <2> DEFINE Sets == \E f \in [Dirs -> {"unchanged", "add", "modify"}], u \in BOOLEAN :
                        plan' = [plan EXCEPT !.dirs = f, !.unknown = u]
  <2>3. Sets
    <3> HIDE DEF found
    <3>1. plan = [plan EXCEPT !.unknown = plan.unknown] /\ plan.unknown \in BOOLEAN
      BY DEF Plan
    <3>2. CASE plan' = [plan EXCEPT !.dirs = found]
      <4>1. plan' = [plan EXCEPT !.dirs = found, !.unknown = plan.unknown]
        BY <3>2 DEF Plan
      <4>2. QED
        BY <2>1, <3>1, <4>1
    <3>3. ASSUME NEW d \in Dirs,
                 plan' = [plan EXCEPT !.dirs = [found EXCEPT ![d] = "add"], !.unknown = TRUE]
          PROVE  Sets
      BY <2>2, <3>3
    <3>4. ASSUME NEW d \in Dirs, plan' = [plan EXCEPT !.dirs = [found EXCEPT ![d] = "modify"]]
          PROVE  Sets
      <4>1. plan' = [plan EXCEPT !.dirs = [found EXCEPT ![d] = "modify"], !.unknown = plan.unknown]
        BY <3>4 DEF Plan
      <4>2. QED
        BY <2>2, <3>1, <4>1
    <3>5. QED
      BY <1>2, <3>2, <3>3, <3>4 DEF PlanDirs, found
  <2>4. PICK f \in [Dirs -> {"unchanged", "add", "modify"}], u \in BOOLEAN :
           plan' = [plan EXCEPT !.dirs = f, !.unknown = u]
    BY <2>3
  <2>5. QED
    BY <1>0, <2>4 DEF Plan
<1>3. CASE Collect
  <2> DEFINE src == [p \in Paths |-> IF p \in plan.keep THEN None ELSE local[p]]
  <2>1. PICK m \in {manifest, None} : plan' = [plan EXCEPT !.known = m, !.src = src]
    BY <1>3 DEF Collect
  <2>2. m \in Manifests /\ src \in [Paths -> Contents \cup {None}]
    BY DEF Manifests
  <2>3. QED
    BY <2>1, <2>2 DEF Plan
<1>4. CASE Diff
  <2>1. ASSUME NEW S PROVE \A p \in Paths : FileAction(p, S) \in FileActions
    BY DEF FileAction, UploadAction, DeleteAction, FileActions
  <2>2. PICK f \in [Paths -> FileActions] : plan' = [plan EXCEPT !.files = f]
    BY <1>4, <2>1 DEF Diff
  <2>3. QED
    BY <2>2 DEF Plan
<1>5. CASE Query
  <2>1. \A D, R : ComposeAction(D, R) \in {"none", "start", "recreate", "stop"}
    BY DEF ComposeAction, Plan
  <2>2. PICK c \in {"none", "start", "recreate", "stop"} : plan' = [plan EXCEPT !.compose = c]
    BY <1>5, <2>1 DEF Query
  <2>3. QED
    BY <2>2 DEF Plan
<1>6. QED
  BY <1>1, <1>2, <1>3, <1>4, <1>5 DEF PlanStep

LEMMA TypeInv == TypeOK /\ [Next]_vars => TypeOK'
<1> SUFFICES ASSUME TypeOK, [Next]_vars PROVE TypeOK'
  OBVIOUS
<1> USE SyncAssumption DEF config, host, Goes, Ends
<1>0. (Fault \/ NoFault) => faults' \in 0..MaxFaults
  BY DEF TypeOK, Fault, NoFault
<1>1. CASE UNCHANGED vars
  BY <1>1 DEF vars, TypeOK
<1>2. CASE PlanStep
  <2>1. plan' \in Plan
    BY <1>2, PlanType
  <2>2. /\ UNCHANGED <<config, host, todoDirs, todo, edits>>
        /\ pc' \in {"idle", "stat", "collect", "diff", "query", "confirm"}
        /\ err' = err \/ err' = TRUE
        /\ Fault \/ NoFault
    BY <1>2 DEF PlanStep, StartApply, PlanDirs, Collect, Diff, Query
  <2>3. QED
    BY <1>0, <2>1, <2>2 DEF TypeOK
<1>3. CASE NoChanges \/ Decline \/ Approve
  BY <1>0, <1>3 DEF NoChanges, Decline, Approve, TypeOK
<1>4. CASE MakeDir
  <2>1. service' \in [Services -> {"stopped", "current", "stale"}]
    BY <1>4 DEF MakeDir, Outdate, TypeOK
  <2>2. dirs' \in [Dirs -> {"absent", "drifted", "ok"}]
    BY <1>4 DEF MakeDir, TypeOK
  <2>3. /\ UNCHANGED <<config, disk, manifest, unhooked, ours, plan, todo, edits>>
        /\ pc' \in {"dirs", "files", "idle"} /\ (err' = err \/ err' = TRUE)
        /\ todoDirs' \subseteq todoDirs /\ (Fault \/ NoFault)
    BY <1>4 DEF MakeDir
  <2>4. QED
    BY <1>0, <2>1, <2>2, <2>3 DEF TypeOK
<1>5. CASE SyncFile
  <2>1. service' \in [Services -> {"stopped", "current", "stale"}]
    <3>1. service' = service \/ Outdate
      BY <1>5 DEF SyncFile
    <3>2. QED
      BY <3>1 DEF Outdate, TypeOK
  <2>2. disk' \in [Paths -> Contents \cup {None, Torn}]
    <3>1. \A p \in Paths : plan.src[p] \in Contents \cup {None}
      BY DEF Plan, TypeOK
    <3>2. disk' = disk \/ \E p \in todo : \E c \in {disk[p], plan.src[p], None, Torn} :
                             disk' = [disk EXCEPT ![p] = c]
      BY <1>5 DEF SyncFile
    <3>3. QED
      BY <3>1, <3>2 DEF TypeOK
  <2>3. ours' \subseteq Paths
    <3>1. ours' = ours \/ \E p \in todo : ours' \in {ours \ {p}, ours \cup {p}}
      BY <1>5 DEF SyncFile
    <3>2. QED
      BY <3>1 DEF TypeOK
  <2>4. /\ UNCHANGED <<config, manifest, dirs, plan, todoDirs, edits>>
        /\ pc' \in {"files", "manifest", "idle"} /\ (err' = err \/ err' = TRUE)
        /\ unhooked' = unhooked \/ unhooked' = TRUE
        /\ todo' \subseteq todo /\ (Fault \/ NoFault)
    BY <1>5 DEF SyncFile
  <2>5. QED
    BY <1>0, <2>1, <2>2, <2>3, <2>4 DEF TypeOK
<1>6. CASE WriteManifest
  <2>1. manifest' \in {manifest, None, Managed} /\ Managed \in SUBSET Paths
    BY <1>6 DEF WriteManifest, Managed
  <2>2. /\ UNCHANGED <<config, disk, dirs, service, unhooked, plan, todoDirs, todo, edits>>
        /\ pc' \in {"post", "idle"} /\ (err' = err \/ err' = FALSE \/ err' = TRUE)
        /\ ours' \subseteq ours /\ (Fault \/ NoFault)
    BY <1>6 DEF WriteManifest
  <2>3. QED
    BY <1>0, <2>1, <2>2 DEF TypeOK, Manifests
<1>7. CASE PostSync
  <2>1. /\ UNCHANGED <<config, disk, manifest, dirs, service, ours, plan, todoDirs, todo, edits>>
        /\ pc' \in {"compose", "idle"} /\ (err' = err \/ err' = TRUE)
        /\ unhooked' \in {unhooked, FALSE} /\ (Fault \/ NoFault)
    BY <1>7 DEF PostSync
  <2>2. QED
    BY <1>0, <2>1 DEF TypeOK
<1>8. CASE RunCompose
  <2>1. /\ UNCHANGED <<config, disk, manifest, dirs, unhooked, ours, plan, todoDirs, todo, edits>>
        /\ pc' = "idle" /\ err' \in {plan.unknown, TRUE} /\ (Fault \/ NoFault)
        /\ service' = service \/ service' \in [Services -> {"stopped", "current", "stale"}]
    BY <1>8 DEF RunCompose
  <2>2. plan.unknown \in BOOLEAN
    BY DEF TypeOK, Plan
  <2>3. QED
    BY <1>0, <2>1, <2>2 DEF TypeOK
<1>9. CASE Edit
  <2>1. UNCHANGED <<host, pc, plan, todoDirs, todo, err>> /\ NoFault
    BY <1>9 DEF Edit
  <2>2. edits' \in 0..MaxEdits
    BY <1>9 DEF Edit, Event, TypeOK
  <2>3. /\ local' \in [Paths -> Contents \cup {None}] /\ preserve' \subseteq Paths
        /\ action' \in {"up", "down", "ignore"}
    BY <1>9 DEF Edit, TypeOK
  <2>4. QED
    BY <1>0, <2>1, <2>2, <2>3 DEF TypeOK
<1>10. CASE HostWrite \/ ServiceStops
  <2>1. edits' \in 0..MaxEdits
    BY <1>10 DEF HostWrite, ServiceStops, Event, TypeOK
  <2>2. /\ disk' \in [Paths -> Contents \cup {None, Torn}]
        /\ service' \in [Services -> {"stopped", "current", "stale"}]
    BY <1>10 DEF HostWrite, ServiceStops, TypeOK
  <2>3. /\ UNCHANGED <<config, manifest, dirs, unhooked, ours, pc, plan, todoDirs, todo, err>>
        /\ NoFault
    BY <1>10 DEF HostWrite, ServiceStops
  <2>4. QED
    BY <1>0, <2>1, <2>2, <2>3 DEF TypeOK
<1>11. QED
  BY <1>1, <1>2, <1>3, <1>4, <1>5, <1>6, <1>7, <1>8, <1>9, <1>10 DEF Next, ApplyStep

\* The states the program starts in satisfy the invariant.
LEMMA InitInv == Init => IInv
<1> SUFFICES ASSUME Init PROVE IInv
  OBVIOUS
<1> USE SyncAssumption
<1>1. TypeOK
  <2>1. NoPlan \in Plan
    BY DEF Plan, NoPlan, Manifests, FileActions
  <2>2. PICK m \in SUBSET Paths : manifest = None \/ manifest = m
    BY DEF Init
  <2>3. disk \in [Paths -> Contents \cup {None, Torn}] /\ ours \subseteq Paths
    BY DEF Init
  <2>4. /\ local \in [Paths -> Contents \cup {None}]
        /\ dirs \in [Dirs -> {"absent", "drifted", "ok"}]
        /\ service \in [Services -> {"stopped", "current", "stale"}]
    BY DEF Init
  <2>5. manifest \in Manifests
    BY <2>2 DEF Manifests
  <2>6. /\ preserve = {} /\ action = "up" /\ unhooked = FALSE /\ err = FALSE /\ pc = "idle"
        /\ plan = NoPlan /\ todoDirs = {} /\ todo = {} /\ edits = MaxEdits /\ faults = MaxFaults
    BY DEF Init
  <2>7. unhooked \in BOOLEAN /\ err \in BOOLEAN /\ plan \in Plan
    BY <2>1, <2>6
  <2>8. edits \in 0..MaxEdits /\ faults \in 0..MaxFaults
    BY <2>6
  <2>9. QED
    BY <2>3, <2>4, <2>5, <2>6, <2>7, <2>8 DEF TypeOK
<1>2. PlanSound
  BY DEF Init, PlanSound, NoPlan, Planned, Obsolete
<1>3. RecordKnown
  BY DEF Init, RecordKnown, Planned
<1>4. Done /\ OursOnDisk
  BY DEF Init, Done, OursOnDisk
<1>5. ComposeKnown
  BY DEF Init, ComposeKnown, Planned
<1>6. NoOrphans
  BY DEF Init, NoOrphans
<1>7. QED
  BY <1>1, <1>2, <1>3, <1>4, <1>5, <1>6 DEF IInv

\* A step that does not touch what the invariant is about.
LEMMA Undisturbed ==
    ASSUME IInv, TypeOK', UNCHANGED <<plan, pc, manifest, ours, todo, unhooked, disk>>,
           faults' = MaxFaults => faults = MaxFaults
    PROVE  IInv'
<1>1. PlanSound' /\ OursOnDisk'
  BY DEF IInv, PlanSound, OursOnDisk, Obsolete
<1>2. RecordKnown' /\ Done'
  BY DEF IInv, RecordKnown, Done, HasChanges, FilesOrDirsChanged
<1>3. ComposeKnown'
  BY DEF IInv, ComposeKnown, FilesOrDirsChanged
<1>4. NoOrphans'
  BY DEF IInv, NoOrphans, Managed
<1>5. QED
  BY <1>1, <1>2, <1>3, <1>4 DEF IInv

LEMMA Faultless ==
    ASSUME TypeOK
    PROVE  /\ Fault => faults' # MaxFaults
           /\ NoFault \/ Fault => (faults' = MaxFaults => faults = MaxFaults)
BY SyncAssumption DEF TypeOK, Fault, NoFault

\* The plan is built.
LEMMA PlanInv ==
    ASSUME IInv, TypeOK', PlanStep
    PROVE  IInv'
<1> USE SyncAssumption DEF config, host, Goes, Ends
<1>1. UNCHANGED <<disk, manifest, unhooked, ours, todo>> /\ (NoFault \/ Fault)
  BY DEF PlanStep, StartApply, PlanDirs, Collect, Diff, Query
<1>2. faults' = MaxFaults => faults = MaxFaults /\ NoFault
  BY <1>1, Faultless DEF IInv
<1>3. plan \in Plan /\ plan' \in Plan /\ ComposeFile \in Paths \ Reserved
  BY DEF IInv, TypeOK
<1>4. OursOnDisk'
  BY <1>1 DEF IInv, OursOnDisk
<1>5. pc \notin {"files", "manifest"} /\ pc' \notin {"files", "manifest"}
  BY DEF PlanStep, StartApply, PlanDirs, Collect, Diff, Query
<1>6. NoOrphans'
  BY <1>1, <1>2, <1>5 DEF IInv, NoOrphans
<1>7. pc' \notin {"dirs", "files", "manifest", "refresh", "compose"}
  BY DEF PlanStep, StartApply, PlanDirs, Collect, Diff, Query
<1>8. Done'
  BY <1>7 DEF Done
<1>9. manifest' # None => manifest' \cap Reserved = {}
  BY <1>1 DEF IInv, RecordKnown
<1>10. faults' = MaxFaults => disk'[ComposeFile] \in (Contents \ Invalid) \cup {None}
  BY <1>1, <1>2 DEF IInv, ComposeKnown
<1>11. CASE StartApply
  <2>1. /\ plan' = [NoPlan EXCEPT !.keep = preserve, !.act = action] /\ pc' = "stat"
    BY <1>11 DEF StartApply
  <2>2. \A p \in Paths : plan'.src[p] = None /\ plan'.files[p] = "none" /\ plan'.known = None
    BY <2>1 DEF NoPlan
  <2>3. PlanSound'
    BY <1>3, <2>1, <2>2 DEF PlanSound, Planned, Plan
  <2>4. RecordKnown' /\ ComposeKnown'
    BY <1>9, <1>10, <2>1 DEF RecordKnown, ComposeKnown, Planned
  <2>5. QED
    BY <1>4, <1>6, <1>8, <2>3, <2>4 DEF IInv
<1>12. CASE PlanDirs
  <2>1. /\ plan'.src = plan.src /\ plan'.files = plan.files /\ plan'.known = plan.known
        /\ plan'.keep = plan.keep /\ pc = "stat" /\ pc' = "collect"
    BY <1>3, <1>12 DEF PlanDirs, Plan
  <2>2. PlanSound'
    BY <2>1 DEF IInv, PlanSound, Planned, Obsolete
  <2>3. RecordKnown' /\ ComposeKnown'
    BY <1>9, <1>10, <2>1 DEF RecordKnown, ComposeKnown, Planned
  <2>4. QED
    BY <1>4, <1>6, <1>8, <2>2, <2>3 DEF IInv
<1>13. CASE Collect
  <2>1. PICK m \in {manifest, None} :
          /\ IF m = manifest THEN NoFault ELSE Fault
          /\ plan' = [plan EXCEPT
                 !.known = m,
                 !.src = [p \in Paths |-> IF p \in plan.keep THEN None ELSE local[p]]]
    BY <1>13 DEF Collect
  <2>2. /\ plan'.files = plan.files /\ plan'.keep = plan.keep /\ plan'.known = m
        /\ \A p \in plan'.keep : plan'.src[p] = None
        /\ pc = "collect" /\ pc' = "diff"
    BY <1>3, <1>13, <2>1 DEF Collect, Plan
  <2>3. PlanSound'
    BY <2>2 DEF IInv, PlanSound, Planned
  <2>4. faults' = MaxFaults => m = manifest
    BY <1>2, <2>1, Faultless DEF IInv
  <2>5. RecordKnown' /\ ComposeKnown'
    BY <1>1, <1>9, <1>10, <2>1, <2>2, <2>4 DEF RecordKnown, ComposeKnown, Planned
  <2>6. QED
    BY <1>4, <1>6, <1>8, <2>3, <2>5 DEF IInv
<1>14. CASE Diff
  <2> DEFINE Sets == \E f \in [Paths -> FileActions] :
                        /\ plan' = [plan EXCEPT !.files = f]
                        /\ \A p \in Paths : \E seen \in {disk[p], None} :
                              /\ f[p] = FileAction(p, seen)
                              /\ NoFault => seen = disk[p]
  <2>1. Sets
    <3>1. ASSUME NEW S PROVE \A p \in Paths : FileAction(p, S) \in FileActions
      BY DEF FileAction, UploadAction, DeleteAction, FileActions
    <3>2. CASE NoFault /\ plan' = [plan EXCEPT !.files = [p \in Paths |-> FileAction(p, disk[p])]]
      <4> DEFINE f == [p \in Paths |-> FileAction(p, disk[p])]
      <4>1. f \in [Paths -> FileActions] /\ \A p \in Paths : f[p] = FileAction(p, disk[p])
        BY <3>1
      <4>2. QED
        BY <3>2, <4>1
    <3>3. ASSUME NEW q \in Paths, Fault,
                 plan' = [plan EXCEPT !.files = [p \in Paths |->
                                        FileAction(p, IF p = q THEN None ELSE disk[p])]]
          PROVE  Sets
      <4> DEFINE f == [p \in Paths |-> FileAction(p, IF p = q THEN None ELSE disk[p])]
      <4>1. f \in [Paths -> FileActions]
        BY <3>1
      <4>2. ~NoFault
        BY <3>3 DEF Fault, NoFault, IInv, TypeOK
      <4>3. \A p \in Paths : \E seen \in {disk[p], None} : f[p] = FileAction(p, seen)
        OBVIOUS
      <4>4. QED
        BY <3>3, <4>1, <4>2, <4>3
    <3>4. QED
      BY <1>14, <3>2, <3>3 DEF Diff
  <2>2. PICK f \in [Paths -> FileActions] :
          /\ plan' = [plan EXCEPT !.files = f]
          /\ \A p \in Paths : \E seen \in {disk[p], None} :
                /\ f[p] = FileAction(p, seen)
                /\ NoFault => seen = disk[p]
    BY <2>1
  <2> HIDE DEF Sets
  <2>3. /\ plan'.files = f /\ plan'.src = plan.src /\ plan'.known = plan.known
        /\ plan'.keep = plan.keep /\ pc = "diff"
        /\ IF plan.src[ComposeFile] \in Invalid THEN pc' = "idle" ELSE pc' = "query"
    BY <1>3, <1>14, <2>2 DEF Diff, Plan
  <2>4. \A p \in Paths :
          /\ f[p] \in {"unchanged", "add", "modify"} => p \notin Reserved /\ plan.src[p] # None
          /\ f[p] = "delete" <=> Obsolete(p)
    BY <2>2 DEF FileAction, UploadAction, DeleteAction, Obsolete
  <2>5. PlanSound'
    BY <2>3, <2>4 DEF IInv, PlanSound, Planned, Obsolete
  <2>6. RecordKnown'
    BY <1>1, <1>2, <1>9, <2>3 DEF IInv, RecordKnown
  <2>7. /\ NoFault /\ disk[ComposeFile] = None /\ plan.src[ComposeFile] # None
        => f[ComposeFile] = "add"
    BY <1>3, <2>2 DEF FileAction, UploadAction
  <2>8. ComposeKnown'
    BY <1>1, <1>2, <1>10, <2>3, <2>7 DEF ComposeKnown, Planned
  <2>9. QED
    BY <1>4, <1>6, <1>8, <2>5, <2>6, <2>8 DEF IInv
<1>15. CASE Query
  <2> DEFINE defined == IF ComposeWorks THEN Services ELSE {}
             running == IF ComposeWorks THEN Running ELSE {}
  <2>1. PICK c \in {"none", "start", "recreate", "stop"} :
          /\ plan' = [plan EXCEPT !.compose = c]
          /\ NoFault => c = ComposeAction(defined, running)
    <3>1. \A D, R : ComposeAction(D, R) \in {"none", "start", "recreate", "stop"}
      BY <1>3 DEF ComposeAction, Plan
    <3>2. Fault => ~NoFault
      BY DEF Fault, NoFault, IInv, TypeOK
    <3>3. QED
      BY <1>15, <3>1, <3>2 DEF Query
  <2>2. /\ plan'.files = plan.files /\ plan'.src = plan.src /\ plan'.known = plan.known
        /\ plan'.keep = plan.keep /\ plan'.dirs = plan.dirs /\ plan'.act = plan.act
        /\ plan'.compose = c /\ pc = "query" /\ pc' = "confirm"
    BY <1>3, <1>15, <2>1 DEF Query, Plan
  <2> HIDE DEF defined, running
  <2>3. PlanSound'
    BY <2>2 DEF IInv, PlanSound, Planned, Obsolete
  <2>4. RecordKnown'
    BY <1>1, <1>2, <1>9, <2>2 DEF IInv, RecordKnown
  <2>5. ASSUME NoFault, plan.act = "up", FilesOrDirsChanged, ComposeWorks, Services # {}
        PROVE  c = "recreate"
    <3>1. defined = Services
      BY <2>5 DEF defined
    <3>2. QED
      BY <2>1, <2>5, <3>1 DEF ComposeAction
  <2>6. FilesOrDirsChanged' <=> FilesOrDirsChanged
    BY <2>2 DEF FilesOrDirsChanged
  <2>7. ASSUME faults' = MaxFaults, plan.act = "up", FilesOrDirsChanged
        PROVE  \/ c = "recreate" \/ Services = {} \/ plan.files[ComposeFile] = "add"
               \/ disk[ComposeFile] = None /\ plan.src[ComposeFile] = None
    <3>1. CASE disk[ComposeFile] = None
      BY <1>2, <2>2, <2>7, <3>1 DEF IInv, ComposeKnown
    <3>2. CASE disk[ComposeFile] # None
      <4>1. ComposeWorks
        BY <1>1, <1>2, <1>10, <2>7, <3>2 DEF ComposeWorks
      <4>2. QED
        BY <1>2, <2>5, <2>7, <4>1
    <3>3. QED
      BY <3>1, <3>2
  <2>8. plan.src[ComposeFile] \notin Invalid
    BY <2>2 DEF IInv, ComposeKnown, Planned
  <2>9. ComposeKnown'
    BY <1>1, <1>10, <2>2, <2>6, <2>7, <2>8 DEF ComposeKnown, Planned
  <2>10. QED
    BY <1>4, <1>6, <1>8, <2>3, <2>4, <2>9 DEF IInv
<1>16. QED
  BY <1>11, <1>12, <1>13, <1>14, <1>15 DEF PlanStep

\* The plan is approved or not; the directories come before the files.
LEMMA StageInv ==
    ASSUME IInv, TypeOK', NoChanges \/ Decline \/ Approve \/ MakeDir
    PROVE  IInv'
<1> USE SyncAssumption DEF config, host, Goes, Ends
<1>1. /\ UNCHANGED <<disk, manifest, unhooked, ours, plan>> /\ (NoFault \/ Fault)
      /\ pc \in {"confirm", "dirs"} /\ pc' \in {"idle", "refresh", "dirs", "files"}
  BY DEF NoChanges, Decline, Approve, MakeDir
<1>2. faults' = MaxFaults => faults = MaxFaults
  BY <1>1, Faultless DEF IInv
<1>3. PlanSound' /\ OursOnDisk'
  BY <1>1 DEF IInv, PlanSound, OursOnDisk, Obsolete, Planned
<1>4. RecordKnown'
  BY <1>1, <1>2 DEF IInv, RecordKnown
<1>5. ComposeKnown'
  BY <1>1, <1>2 DEF IInv, ComposeKnown, FilesOrDirsChanged, Planned
<1>6. NoOrphans'
  BY <1>1, <1>2 DEF IInv, NoOrphans
<1>7. Done'
  <2>1. CASE NoChanges
    BY <1>1, <2>1 DEF NoChanges, Done, HasChanges, FilesOrDirsChanged
  <2>2. CASE Decline
    BY <1>1, <2>2 DEF Decline, Done
  <2>3. CASE Approve
    BY <1>1, <2>3 DEF Approve, Done, Changes
  <2>4. CASE MakeDir
    <3>1. todo' = todo /\ pc = "dirs" /\ pc' \in {"idle", "dirs", "files"}
      BY <2>4 DEF MakeDir
    <3>2. QED
      BY <1>1, <3>1 DEF IInv, Done
  <2>5. QED
    BY <2>1, <2>2, <2>3, <2>4
<1>8. QED
  BY <1>3, <1>4, <1>5, <1>6, <1>7 DEF IInv

\* What a step of the upload may do to the file system of the project.
LEMMA FileMoves ==
    ASSUME IInv, SyncFile
    PROVE  /\ UNCHANGED <<manifest, plan>> /\ (NoFault \/ Fault) /\ pc = "files"
           /\ \/ /\ todo = {} /\ pc' = "manifest"
                 /\ UNCHANGED <<disk, ours, unhooked, todo>>
              \/ \E p \in todo : \E c \in {disk[p], Torn, plan.src[p], None} :
                   /\ plan.files[p] \in Changes
                   /\ disk' = [disk EXCEPT ![p] = c]
                   /\ IF plan.files[p] = "delete" THEN c \in {disk[p], None}
                      ELSE c \in {disk[p], Torn, plan.src[p]}
                   /\ \/ NoFault /\ todo' = todo \ {p} /\ pc' = "files"
                         /\ c = IF plan.files[p] = "delete" THEN None ELSE plan.src[p]
                      \/ Fault /\ todo' = todo /\ pc' = "idle"
                   /\ IF disk' = disk THEN UNCHANGED <<ours, unhooked>>
                      ELSE /\ unhooked' = TRUE
                           /\ ours' = IF plan.files[p] = "delete" THEN ours \ {p}
                                      ELSE ours \cup {p}
<1> USE DEF Goes, Ends
<1>1. \A p \in todo : pc = "files" => plan.files[p] \in Changes
  BY DEF IInv, Done
<1>2. QED
  BY <1>1 DEF SyncFile

LEMMA FileInv ==
    ASSUME IInv, TypeOK', SyncFile
    PROVE  IInv'
<1> USE SyncAssumption
<1>1. UNCHANGED <<manifest, plan>> /\ (NoFault \/ Fault) /\ pc = "files"
  BY FileMoves
<1>2. pc' \in {"files", "manifest", "idle"}
  BY FileMoves
<1>3. faults' = MaxFaults => faults = MaxFaults /\ NoFault
  BY <1>1, Faultless DEF IInv
<1>4. PlanSound' /\ RecordKnown'
  BY <1>1, <1>2, <1>3 DEF IInv, PlanSound, RecordKnown, Obsolete, Planned
<1>5. /\ disk \in [Paths -> Contents \cup {None, Torn}] /\ todo \subseteq Paths
      /\ ours \subseteq Paths /\ plan.src \in [Paths -> Contents \cup {None}]
      /\ ComposeFile \in Paths
  BY DEF IInv, TypeOK, Plan
<1>6. \A p \in Paths : plan.files[p] = "delete" => plan.src[p] = None
  BY DEF IInv, PlanSound, Obsolete
<1>7. \A p \in Paths : plan.files[p] \in {"add", "modify"} => plan.src[p] # None /\ p \notin Reserved
  BY DEF IInv, PlanSound
<1>8. \A p \in ours : disk[p] # None
  BY DEF IInv, OursOnDisk
<1>9. CASE todo = {} /\ pc' = "manifest" /\ UNCHANGED <<disk, ours, unhooked, todo>>
  <2>1. Done' /\ OursOnDisk'
    BY <1>1, <1>8, <1>9 DEF IInv, Done, OursOnDisk
  <2>2. ComposeKnown'
    BY <1>1, <1>3, <1>9 DEF IInv, ComposeKnown, FilesOrDirsChanged, Planned
  <2>3. NoOrphans'
    BY <1>1, <1>3, <1>9 DEF IInv, NoOrphans, Managed
  <2>4. QED
    BY <1>4, <2>1, <2>2, <2>3 DEF IInv
<1>10. ASSUME NEW p \in todo, NEW c \in {disk[p], Torn, plan.src[p], None},
              plan.files[p] \in Changes, disk' = [disk EXCEPT ![p] = c],
              IF plan.files[p] = "delete" THEN c \in {disk[p], None}
              ELSE c \in {disk[p], Torn, plan.src[p]},
              \/ NoFault /\ todo' = todo \ {p} /\ pc' = "files"
                   /\ c = IF plan.files[p] = "delete" THEN None ELSE plan.src[p]
              \/ Fault /\ todo' = todo /\ pc' = "idle",
              IF disk' = disk THEN UNCHANGED <<ours, unhooked>>
              ELSE /\ unhooked' = TRUE
                   /\ ours' = IF plan.files[p] = "delete" THEN ours \ {p}
                              ELSE ours \cup {p}
       PROVE  IInv'
  <2>1. OursOnDisk'
    BY <1>5, <1>7, <1>8, <1>10 DEF OursOnDisk, Changes
  <2>2. Done'
    BY <1>1, <1>5, <1>10 DEF IInv, Done
  <2>3. ComposeKnown'
    <3>1. plan.src[ComposeFile] \notin Invalid
      BY <1>1 DEF IInv, ComposeKnown, Planned
    <3>2. ASSUME faults' = MaxFaults PROVE disk'[ComposeFile] \in (Contents \ Invalid) \cup {None}
      <4>1. disk[ComposeFile] \in (Contents \ Invalid) \cup {None}
        BY <1>3, <3>2 DEF IInv, ComposeKnown
      <4>2. c \in {None, plan.src[p]}
        BY <1>3, <1>10, <3>2, Faultless DEF IInv
      <4>3. QED
        BY <1>5, <1>10, <3>1, <4>1, <4>2
    <3>3. plan.src[ComposeFile] = None /\ disk[ComposeFile] = None /\ faults' = MaxFaults
          => disk'[ComposeFile] = None
      BY <1>3, <1>5, <1>7, <1>10, Faultless DEF IInv
    <3>4. QED
      BY <1>1, <1>2, <1>3, <3>1, <3>2, <3>3 DEF IInv, ComposeKnown, FilesOrDirsChanged, Planned
  <2>4. NoOrphans'
    <3> SUFFICES ASSUME faults' = MaxFaults, NEW x \in ours'
                 PROVE  \/ manifest # None /\ x \in manifest
                        \/ pc' = "files" /\ x \in Managed
      BY <1>1 DEF NoOrphans, Managed
    <3>1. pc' = "files"
      BY <1>3, <1>10, Faultless DEF IInv
    <3>2. CASE x \in ours
      BY <1>1, <1>3, <3>1, <3>2 DEF IInv, NoOrphans
    <3>3. CASE x \notin ours
      <4>1. x = p /\ plan.files[p] \in {"add", "modify"}
        BY <1>10, <3>3 DEF Changes
      <4>2. QED
        BY <1>5, <1>7, <3>1, <4>1 DEF Managed
    <3>4. QED
      BY <3>2, <3>3
  <2>5. QED
    BY <1>4, <2>1, <2>2, <2>3, <2>4 DEF IInv
<1>11. QED
  BY <1>9, <1>10, FileMoves

\* The manifest is written.
LEMMA ManifestInv ==
    ASSUME IInv, TypeOK', WriteManifest
    PROVE  IInv'
<1> USE SyncAssumption DEF Goes, Ends
<1>1. /\ UNCHANGED <<disk, unhooked, plan, todo>> /\ (NoFault \/ Fault)
      /\ pc \in {"manifest", "refresh"} /\ pc' \in {"post", "idle"}
      /\ manifest' \in {manifest, None, Managed}
      /\ ours' = IF manifest' = Managed THEN ours \ plan.keep ELSE ours
  BY DEF WriteManifest
<1>2. faults' = MaxFaults => faults = MaxFaults /\ manifest' = Managed
  BY <1>1, Faultless DEF IInv, WriteManifest
<1>3. PlanSound' /\ OursOnDisk'
  BY <1>1 DEF IInv, PlanSound, OursOnDisk, Obsolete, Planned
<1>4. RecordKnown' /\ Done'
  BY <1>1 DEF IInv, RecordKnown, Done, Managed
<1>5. ComposeKnown'
  BY <1>1, <1>2 DEF IInv, ComposeKnown, FilesOrDirsChanged, Planned
<1>6. ours \subseteq Paths /\ Managed \subseteq Paths
  BY DEF IInv, TypeOK, Managed
\* What is on record and not managed any more is gone or handed over.
<1>7. NoOrphans'
  <2> SUFFICES ASSUME faults' = MaxFaults, NEW p \in ours \ plan.keep
               PROVE  p \in Managed
    BY <1>1, <1>2, <1>6 DEF NoOrphans
  <2>1. CASE p \in Managed
    BY <2>1
  <2>2. CASE manifest # None /\ p \in manifest /\ p \notin Managed
    <3>1. p \in Paths \ Reserved /\ plan.src[p] = None /\ plan.known = manifest
      BY <1>1, <1>2, <1>6, <2>2 DEF IInv, RecordKnown, Managed
    <3>2. plan.files[p] = "delete"
      BY <1>1, <2>2, <3>1 DEF IInv, PlanSound, Planned, Obsolete
    <3>3. disk[p] = None
      BY <1>1, <3>1, <3>2 DEF IInv, Done, HasChanges, FilesOrDirsChanged, Changes
    <3>4. QED
      BY <3>3 DEF IInv, OursOnDisk
  <2>3. QED
    BY <1>2, <2>1, <2>2 DEF IInv, NoOrphans
<1>8. QED
  BY <1>3, <1>4, <1>5, <1>7 DEF IInv

\* The commands run, and the world around cmt goes on.
LEMMA OtherInv ==
    ASSUME IInv, TypeOK', PostSync \/ RunCompose \/ Edit \/ HostWrite \/ ServiceStops
    PROVE  IInv'
<1> USE SyncAssumption DEF config, host, Goes, Ends, Event
<1>1. CASE PostSync \/ RunCompose
  <2>1. /\ UNCHANGED <<disk, manifest, ours, plan, todo>> /\ (NoFault \/ Fault)
        /\ pc \in {"post", "compose"} /\ pc' \in {"compose", "idle"}
        /\ pc' = "compose" => ~unhooked'
    BY <1>1 DEF PostSync, RunCompose
  <2>2. faults' = MaxFaults => faults = MaxFaults
    BY <2>1, Faultless DEF IInv
  <2>3. PlanSound' /\ OursOnDisk' /\ RecordKnown' /\ Done'
    BY <2>1 DEF IInv, PlanSound, OursOnDisk, Obsolete, Planned, RecordKnown, Done
  <2>4. ComposeKnown'
    BY <2>1, <2>2 DEF IInv, ComposeKnown, FilesOrDirsChanged, Planned
  <2>5. NoOrphans'
    BY <2>1, <2>2 DEF IInv, NoOrphans
  <2>6. QED
    BY <2>3, <2>4, <2>5 DEF IInv
<1>2. CASE Edit \/ ServiceStops
  BY <1>2, Undisturbed DEF Edit, ServiceStops, NoFault
<1>3. CASE HostWrite
  <2>1. UNCHANGED <<manifest, unhooked, ours, pc, plan, todo, faults>>
    BY <1>3 DEF HostWrite, NoFault
  <2>2. PICK p \in Paths \ (Reserved \cup {ComposeFile}), c \in Contents :
           disk[p] # None /\ disk' = [disk EXCEPT ![p] = c]
    BY <1>3 DEF HostWrite
  <2>3. /\ \A q \in Paths : disk'[q] = None <=> disk[q] = None
        /\ disk'[ComposeFile] = disk[ComposeFile]
    BY <2>2 DEF IInv, TypeOK
  <2>4. PlanSound' /\ RecordKnown' /\ NoOrphans'
    BY <2>1 DEF IInv, PlanSound, RecordKnown, NoOrphans, Obsolete, Planned, Managed
  <2>5. OursOnDisk' /\ Done'
    BY <2>1, <2>3 DEF IInv, TypeOK, OursOnDisk, Done, HasChanges, FilesOrDirsChanged
  <2>6. ComposeKnown'
    BY <2>1, <2>3 DEF IInv, ComposeKnown, FilesOrDirsChanged
  <2>7. QED
    BY <2>4, <2>5, <2>6 DEF IInv
<1>4. QED
  BY <1>1, <1>2, <1>3

LEMMA NextInv == IInv /\ [Next]_vars => IInv'
<1> SUFFICES ASSUME IInv, [Next]_vars PROVE IInv'
  OBVIOUS
<1>1. TypeOK'
  BY TypeInv DEF IInv
<1>2. CASE UNCHANGED vars
  BY <1>1, <1>2, Undisturbed DEF vars, host
<1>3. CASE Next
  BY <1>1, <1>3, PlanInv, StageInv, FileInv, ManifestInv, OtherInv DEF Next, ApplyStep
<1>4. QED
  BY <1>2, <1>3

\* The invariant holds in every reachable state.
THEOREM Inductive == Spec => []IInv
BY InitInv, NextInv, PTL DEF Spec

\* Without failures, no file that cmt uploaded is forgotten at the host.
THEOREM NothingForgotten == Spec => []NoOrphans
<1>1. IInv => NoOrphans
  BY DEF IInv
<1>2. QED
  BY <1>1, Inductive, PTL

\* An apply that gets to its compose stage and returns no error has run the post-sync
\* command since the last change of the files.  One without changes does not get there.
THEOREM HookHasRun == Spec => HookRuns
<1>1. IInv /\ [Next]_vars => [Completes /\ pc = "compose" => ~unhooked']_vars
  <2> SUFFICES ASSUME IInv, Next, Completes, pc = "compose" PROVE ~unhooked'
    OBVIOUS
  <2>1. ~unhooked
    BY DEF IInv, Done
  <2>2. RunCompose \/ Edit \/ HostWrite \/ ServiceStops
    BY DEF Next, PlanStep, StartApply, PlanDirs, Collect, Diff, Query, NoChanges, Decline,
       Approve, ApplyStep, MakeDir, SyncFile, WriteManifest, PostSync
  <2>3. unhooked' = unhooked
    BY <2>2 DEF RunCompose, Edit, HostWrite, ServiceStops, host
  <2>4. QED
    BY <2>1, <2>3
<1>2. QED
  BY <1>1, Inductive, PTL DEF Spec, HookRuns

\* An apply uploads and deletes only what is its own: nothing that its configuration
\* preserved, nothing of cmt's own files, nothing that was neither in the repository
\* nor on record, whatever fails.
THEOREM OwnFilesOnly == Spec => TouchesOnlyItsOwn
<1> DEFINE A == \A p \in Paths : (disk'[p] # disk[p] /\ edits' = edits) =>
                   /\ p \notin Reserved \cup plan.keep
                   /\ disk'[p] = None => plan.known # None /\ p \in plan.known
                   /\ disk'[p] # None => plan.src[p] # None
<1>1. IInv /\ [Next]_vars => [A]_vars
  <2> SUFFICES ASSUME IInv, Next, NEW p \in Paths, disk'[p] # disk[p], edits' = edits
               PROVE  /\ p \notin Reserved \cup plan.keep
                      /\ disk'[p] = None => plan.known # None /\ p \in plan.known
                      /\ disk'[p] # None => plan.src[p] # None
    OBVIOUS
  <2>1. SyncFile
    <3>1. ~Event
      BY SyncAssumption DEF Event, IInv, TypeOK
    <3>2. ~(PlanStep \/ NoChanges \/ Decline \/ Approve \/ MakeDir \/ WriteManifest
             \/ PostSync \/ RunCompose)
      BY DEF PlanStep, StartApply, PlanDirs, Collect, Diff, Query, NoChanges, Decline,
         Approve, MakeDir, WriteManifest, PostSync, RunCompose, host
    <3>3. QED
      BY <3>1, <3>2 DEF Next, ApplyStep, Edit, HostWrite, ServiceStops
  <2>2. disk \in [Paths -> Contents \cup {None, Torn}] /\ todo \subseteq Paths
    BY DEF IInv, TypeOK
  <2>3. /\ plan.files[p] \in Changes
        /\ IF plan.files[p] = "delete" THEN disk'[p] = None
           ELSE disk'[p] \in {Torn, plan.src[p]}
    BY <2>1, <2>2, FileMoves
  <2>4. CASE plan.files[p] = "delete"
    BY <2>3, <2>4 DEF IInv, PlanSound, Obsolete
  <2>5. CASE plan.files[p] \in {"add", "modify"}
    BY <2>3, <2>5, SyncAssumption DEF IInv, PlanSound
  <2>6. QED
    BY <2>3, <2>4, <2>5 DEF Changes
<1>2. QED
  BY <1>1, Inductive, PTL DEF Spec, TouchesOnlyItsOwn

\* An apply that could read the manifest drops a file from it only when the file is gone
\* from the host or preserved, whatever has failed.  Nothing is said of an apply that
\* could not read it, nor of a manifest that is torn.
THEOREM RecordKept == Spec => KnownUntilGone
<1> DEFINE A == \A p \in Paths :
                  (/\ manifest # None /\ p \in manifest
                   /\ manifest' # None /\ p \notin manifest') =>
                      disk[p] = None \/ p \in plan.keep \/ plan.known = None
<1>1. IInv /\ [Next]_vars => [A]_vars
  <2> SUFFICES ASSUME IInv, Next, NEW p \in Paths, manifest # None, p \in manifest,
                      manifest' # None, p \notin manifest', p \notin plan.keep,
                      plan.known # None
               PROVE  disk[p] = None
    OBVIOUS
  <2>1. WriteManifest
    BY DEF Next, PlanStep, StartApply, PlanDirs, Collect, Diff, Query, NoChanges, Decline,
       Approve, ApplyStep, MakeDir, SyncFile, PostSync, RunCompose, Edit, HostWrite,
       ServiceStops, host
  <2>2. manifest' = Managed /\ pc \in {"manifest", "refresh"}
    BY <2>1 DEF WriteManifest
  <2>3. p \in Paths \ Reserved /\ plan.src[p] = None /\ plan.known = manifest
    BY <2>2 DEF IInv, RecordKnown, Managed
  <2>4. plan.files[p] = "delete"
    BY <2>2, <2>3 DEF IInv, PlanSound, Planned, Obsolete
  <2>5. QED
    BY <2>2, <2>4 DEF IInv, Done, HasChanges, FilesOrDirsChanged, Changes
<1>2. QED
  BY <1>1, Inductive, PTL DEF Spec, KnownUntilGone

\* Without failures, an apply that changes files or directories of an `up` project
\* whose compose.yml was at the host before leaves all services running anew.
THEOREM UpdateRecreates == Spec => UpdatesRecreate
<1> DEFINE A == (/\ faults = MaxFaults
                 /\ Completes /\ FilesOrDirsChanged /\ plan.act = "up"
                 /\ plan.files[ComposeFile] # "add" /\ ComposeWorks)
                => \A s \in Services : service'[s] = "current"
<1>1. IInv /\ [Next]_vars => [A]_vars
  <2> SUFFICES ASSUME IInv, Next, faults = MaxFaults, Completes, FilesOrDirsChanged,
                      plan.act = "up", plan.files[ComposeFile] # "add", ComposeWorks,
                      NEW s \in Services
               PROVE  service'[s] = "current"
    OBVIOUS
  <2>1. pc = "compose"
    BY DEF Completes, HasChanges, IInv, Done
  <2>2. pc' = "idle" /\ ~err'
    BY DEF Completes
  <2>3. disk[ComposeFile] # None
    BY SyncAssumption DEF ComposeWorks
  <2>4. plan.compose = "recreate"
    BY <2>1, <2>3 DEF IInv, ComposeKnown, Planned
  <2>5. RunCompose
    BY <2>1, <2>2 DEF Next, PlanStep, StartApply, PlanDirs, Collect, Diff, Query, NoChanges,
       Decline, Approve, ApplyStep, MakeDir, SyncFile, WriteManifest, PostSync, Edit,
       HostWrite, ServiceStops, host
  <2>6. service'[s] \in Commanded(s)
    BY <2>2, <2>5 DEF RunCompose, Ends
  <2>7. QED
    BY <2>4, <2>6 DEF Commanded
<1>2. QED
  BY <1>1, Inductive, PTL DEF Spec, UpdatesRecreate
==============================================================================
