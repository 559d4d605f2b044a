# Verification of melisia

TLA+ models of the programs in this repository, TLC runs that check them on small
instances, and TLAPS proofs of what matters most for every instance.

## 1. Inventory

The repository is one person's infrastructure: programs, and the configuration
they deploy. Its own logic is in these parts.

| Part | State it keeps | Operations | What is hard |
|---|---|---|---|
| `tools/cmt`, locks (`internal/lock`, `cmd/lock.go`, `cmd/force_unlock.go`) | lock files and directories at the hosts, the list of acquired locks | acquire, release, read, force-unlock, roll-back of a directory | several machines, no server: a lock is a file made by a shell script over ssh; answers get lost, processes die, operators break locks |
| `tools/cmt`, plan and apply (`internal/syncer`) | files, manifest, directories and services of a project at a host | build a plan, ask, sync directories and files, manifest, post-sync, compose | every command may fail half-way, the next apply has only the host to look at, repository and host change meanwhile |
| `tools/cmt`, a whole apply (`cmd/apply.go`, `syncer/lock_targets.go`, `syncer/hook.go`, the loops of `plan.go` and `apply.go`) | filters, lock targets, plan, answers of hooks and operator | resolve targets, lock them, plan host by host, run hooks, ask, apply until something fails, release | the repository is read for the targets, and again for the plan; a plan may wait for an answer for hours; several commands with overlapping filters |
| `tools/cmt`, configuration (`internal/config`) | none | resolve project settings, filter hosts and projects, ssh settings | precedence of three layers, field by field |
| `tools/cmt`, what a plan prints (`plan.go`, from `buildDiffMaskPatterns`, and `Print`) | mask hints in the manifest | diffs, masks, tables | - |
| kiosk agent (`ansible/roles/kiosk/files/agent.py`) | slots and switches, in memory and in a file; current slot, tabs, retained MQTT topics, a flag file | MQTT commands, input watcher, idle monitor, rotation loop | four threads over shared variables with a partial lock; kills, lost connections, a browser the user may close |
| photo frame (`apps/photoframe`) | the list of pictures; in the page: its copy, playlist, slides | refresh, list, image; fetch, tick, preload in the page | requests overtake one another; preloads race ticks and new lists; restarts |
| TrueNAS provider (`terraform/provider`) | TrueNAS objects, Terraform state | create, read, update, delete with asynchronous jobs | jobs that outlive the call, partial updates |
| `terraform/terraform/workers/mesh_dns_updater.js` | a DNS record | update | concurrent updates |
| the apply workflow (`.github/workflows/cmt-apply.yml` with the actions `cancel-stale-runs` and `check-run-latest`) | workflow runs, approvals, one job and one pending job of a concurrency group | plan, wait for an approval and for the group, look for newer runs, compare the plan's digest, apply | check-then-act against new runs, plans that are read without a lock, people who apply from a laptop meanwhile |

How they interact: a merge group or somebody's dispatch runs the workflow, whose
jobs call `cmt plan` and `cmt apply`; `cmt` reaches the hosts over ssh and never talks to another `cmt`
but through the lock file; the kiosk agent drives a browser that shows, among
others, photoframe's page; the provider talks to TrueNAS only.

What makes each part correct:

- **locks**: applies of one project exclude each other; a lock never outlives its
  apply without somebody being told; nobody's directory is rolled back under him;
  contention cannot stop everybody; a left-over lock can be removed.
- **plan and apply**: cmt touches only what is its own; nothing on record is
  forgotten; whatever fails, further applies converge to the repository; services
  run with the files of now.
- **a whole apply**: it writes only where it has the lock; what was planned, and
  agreed to, is still so when it is applied; success means that all of it was.
- **configuration**: the most specific layer that sets a field wins, in the lock
  targets exactly as in the plan.
- **kiosk agent**: the slot on the screen is the selected and the published one;
  tabs follow the slots; every slot comes round, whatever failed; what Home
  Assistant shows is what a restart loads.
- **photo frame**: one picture is on the screen, every picture comes round, and the
  page follows the folder.
- **provider**: nothing that exists is forgotten, nothing is in the state that does
  not exist, and applies converge.
- **workflow**: a run writes what was approved and nothing else; a run never applies
  after a newer one that its check lists (of its event and, if dispatched, of its
  branch); what is merged is deployed.

## 2. Modules

| Module | Models |
|---|---|
| `CmtLock` | locks, `cmt apply` around them, and `cmt force-unlock` |
| `CmtReservation` | what the locks promise, in one step per promise |
| `CmtLockProofs` | theorems about `CmtLock` |
| `MCLock` | `CmtLock` for TLC |
| `CmtConfig` | how settings, hosts and projects are found, as operators |
| `CmtApply` | whole runs of `cmt apply` beside each other, over several hosts and projects |
| `CmtApplyProofs` | theorems about the two |
| `MCApply` | `CmtApply` for TLC |
| `ApplyGates` | runs of the apply workflow, from trigger to status check, and laptops beside them |
| `ApplyGatesProofs` | theorems about it |
| `MCGates` | it for TLC |
| `CmtSync` | plan and apply of one project |
| `CmtSyncProofs` | theorems about it |
| `MCSync` | `CmtSync` for TLC |
| `KioskRotation` | the kiosk agent's rotation: tabs, slots and the commands on them |
| `KioskState` | what the kiosk agent saves and tells Home Assistant |
| `KioskRotationProofs`, `KioskStateProofs` | theorems about the two |
| `MCRotation`, `MCState` | the two for TLC |
| `TrueNASProvider` | the provider's resources over runs of `terraform apply` |
| `TrueNASProofs` | theorems about it |
| `MCProvider` | it for TLC |
| `PhotoFrame` | the photo frame's server and page |
| `PhotoFrameProofs` | theorems about it |
| `MCFrame` | it for TLC |

### CmtLock

Processes are invocations of `cmt apply` and `cmt force-unlock`. `want` holds the
lock targets an apply has resolved (`resolveLockTargets`), numbered in the order
of resolution; the loops over targets take the first one left (`First`). The
state at the hosts is `dir` (project directories), `files` (what is in them
besides the lock), `lock` (whose ID the lock file carries) and `torn` (lock files
created and not yet written). `script` is the acquire script at the host, which
goes on when the ssh session is gone; each of its tests and commands is an action
(`ScriptCheck`, `ScriptMkdir`, `ScriptCreate`, `ScriptWrite`, `ScriptTest`).
`call` is the release, read or force-unlock a process is in the middle of; its
remote commands are `CheckExists`, `CatLock`, `RmLock` and `RmDir`, each of which
may fail before or after its effect. A lock ID is the identity of the apply.

Abstracted: lock metadata and messages, exit codes other than error or not, the
`plan` form of Acquire (`ensureDir` false), which nothing calls.

How the three models of `cmt` fit together: `CmtLock` has every remote command of a
lock, and implements `CmtReservation`. `CmtApply` has the lock as one step, as that
abstraction allows, and a project as one step that works or fails; with several
targets it implements `CmtReservation` again (`Reserved`: what a command has locked,
from when it begins to plan). `CmtSync` has the inside of one project. `ApplyGates`
has a whole apply as lock, plan, prompt and writes, with the workflow around it.

### CmtConfig

`ResolveProjectConfig` as the four functions it calls, over levels that map a setting
to a value or to `Unset`; `Documented` is the precedence as README.md of cmt states
it, and `AgreesOn` that the two are equal. `Filtered` and `filterHostProjects` are
what both the lock targets and the plan are found with.

Abstracted: settings are values that are never looked into (a list counts as a value,
an empty one as `Unset`), which is what the code does with them here; the two forms
of `dirs` in YAML; the connection settings that `ssh -G` answers.

### CmtApply

A command is `pc`: `resolve` (`ResolveLockTargets`), `lock`
(`AcquireRemoteLocks`, one target per step, in the order of the targets),
`discover`, `host`, `project` (`BuildPlanWithDeps`, whose goroutines plan the
projects of a host in any order), `check` (`verifyExpectedPlanSHA256`,
`handleNoChanges`), `beforePlan` to `beforeApply` (hooks and prompt), `apply`
(`applyAllHosts`) and `release` (the deferred release). `plan` is what it has seen and
wants at each target, `left` the changes still to be applied, `ret` its error.
`dirs`, `listed` and `want` are the repository, which `Edit` changes at any moment:
the code reads the list of projects in `ResolveLockTargets` and in
`BuildPlanWithDeps`, host.yml in both, and the files of a project when it plans it.
`Kill` ends a process at any step and leaves its locks; `ForceUnlock` is somebody who
removes them afterwards.

A look at a host that fails while a project is planned has one of two outcomes
(`Unseen`): files or directories that cannot be looked at are planned like missing ones
(`Unread`, a change), while a manifest that cannot be read has no files to delete and
services that cannot be queried none to start, so that the plan may show nothing to do
where there is something (`Unnoticed`, no change).

`relisted` and `unguarded` are history: that the projects or a host.yml were edited
since the command resolved its targets, and where somebody wrote without a lock.

Abstracted: the manifests that a plan without changes refreshes with
`--refresh-manifest-on-noop` (`CmtSync` has them), what hooks get to read, output;
remote paths and ssh settings, which decide where a target is, are not edited.

### ApplyGates

A run of the workflow is its run number. `stage` is the job or step it is at, `event`
what triggered it, `branch` where it was dispatched (a merge group has a ref of its own),
`wants` its checkout, `seen` the host as its plan read it, which is
what its digest stands for: with one checkout, two plans have one digest if they have
read the same (`SameDigest`). `approved`, `waiting` and `running` are GitHub's: the
deployment's approval, and the concurrency group with its one pending job, modelled
from how the workflow uses them; all branches and both events share the group.
`CheckRunLatest` is `check-run-latest/action.yml`: `Listed` are the runs it asks for
(those of the event and, for a dispatch, of the branch), `Newer` those of them with a
higher number.
`CancelStaleRuns` is `cancel-stale-runs/action.yml`, and `AcquireApplyLocks` to
`FinishApply` are `cmt apply` with `--auto-approve --expected-plan-sha256`, and
without them on a laptop. A job may fail, time out or be cancelled anywhere (`Kill`).
`wrote` and `full` are history.

Abstracted: the projects of a host under one lock and file by file; the ansible and
Terraform workflows.

### CmtSync

One project of one host, under its lock. `local`, `preserve`, `action` are what the
repository says; `disk`, `manifest`, `dirs`, `service` are the host. An apply goes
through the stages of `buildProjectPlanForHost` (`StartApply`, `PlanDirs`,
`Collect`, `Diff`, `Query`), the preflight (`NoChanges`, `Decline`, `Approve`) and
`applyProjectPlan` (`MakeDir`, `SyncFile`, `WriteManifest`, `PostSync`,
`RunCompose`). `plan` is the `ProjectPlan` with the inputs it was made from. A
failed read makes the plan what the code makes of it (a file that cannot be read
is added, a manifest that cannot be read is none, a query that fails lists
nothing); a failed write leaves the old file, the new one, or a torn one, and
ends the apply. A killed apply is an apply whose command failed.

`Edit`, `HostWrite` and `ServiceStops` happen between any two steps.
`ours` and `unhooked` are history variables; the code has no such state.
A service is `stale` when files or directories changed since it was created.
`up -d` without `--force-recreate` may or may not recreate a running service,
because that depends on which file changed.

Abstracted: several projects and hosts in one plan (`CmtApply` has them), `chown -R` of directories
that need nothing else, templates (a content is a rendered content), compose
override files, diffs and masks.

### KioskRotation

The main thread is `pc` with its locals (`act`, `urls`, `read`, `tid`, `prev_id`,
`new_ids`, `closing`); one action is what it does up to the next call, because
CPython (3.10 and later) switches threads only at calls and jumps back. So
`current_slot %= len(tab_ids)` is two actions (`ReadSlot`, `StoreSlot`), and publishing
the slot three (`ActiveIndices`, `CompareSlot`, `PublishSlot`), with `current_slot` read
anew in each. A comprehension over the slots is one: a command changes one slot, and what
the comprehension sees of it, it could have seen as a whole. `sync_tabs` is `SyncCompare`
to `SyncDone` or `SyncFails`, with one action per DevTools request. It starts with
`ReadRotation` and `StartFlag`, `main`'s `set_browser_autostart(STATE["rotation"])`, which
may write the flag for a switch that a command has changed since.

The MQTT thread is `net`: `Command` does what `on_message` does up to `wake.set()`, which
is `Wake`, with `NetFlag` before it when the command is the rotation switch. `disk` is the
state file. A save may fail (`SaveFails`): the slot or switch has changed in memory,
nothing is published and the loop is not woken. A write of the flag file that fails is
logged, and leaves the file as it was (`SetAutostart`).

Chromium is `pages` and `shown`: closing the last page ends it, the user may
close it, and the autostart loop starts it again while `flag`, the flag file, is there,
whatever `rotation` is. `pc = "dead"` is the agent after an exception nobody catches.

`active_slots` keeps the slots that have a URL in their order: the k-th is the one with
k of them up to itself (`Place`), which is also what `show_url` counts.

`Settled` says when the loop waits and no command is half done; the safety
properties speak of those states.

Abstracted: dwell times (a wait ends at any moment), names and seconds of slots, a kill
in the middle of a save (`KioskState` has it).

### KioskState

`settings` is `STATE` as far as it is saved, one slot for all of them. Saving is
two actions (`WriteTmp`, `Replace`), a command is up to four (change, save,
publish, and its own effects), `on_connect` publishes in two, and main reads and
writes in two; between any two of them the other threads run, the agent is killed
(`Kill`, and systemd starts it again at `Load`), or the connection drops. The
retained topics are `retained`; a publish without a connection is lost (QoS 0).

Abstracted: the playlist's other fields, screen power, discovery messages.

### TrueNASProvider

A run of Terraform is `run`: it reads what is in the state (`Read`), compares
(`Difference`) and carries out all calls concurrently (`Crud`), a dataset's child
next to its parent included, which is what `CreateDataset`'s retries are for.
`tf` is the state, `real` the objects at TrueNAS, `op` the call of a resource and
`stray` the jobs whose call has returned before them. A call is a request
(`PlainDone`, `AnswerLost`, `RequestFails`), or a request that starts a job
(`StartJob`, `StartLost`) which is polled (`NextPart`, `JobsDone`, `JobError`,
`PollBreaks`) and perhaps read back (`ReadBack`). Where TrueNAS answers such a request
without a job's ID (`Direct`, the catalog in the provider's tests), `waitForJobResponse`
returns at once, and the call goes on as after a job that succeeded (`AnsweredDone`). The resources are grouped by
what their code does: `Plain` (datasets, share copies), `Apps`, `Settings` (the
two configs) and `Paths` (permissions, permission copies, ACLs).

Assumed of TrueNAS, which is external: it refuses to create what exists, to
change what does not, to create a dataset without its parent and to delete one
with children; jobs on one object run one after another in the order they were
started; a request that is answered without a job's ID has been carried out by then, and
whether an object's requests are answered so does not change. Of Terraform: a call that returns an error leaves the state as the call
has set it.

Abstracted: replacement, import, data sources, and dropping `Settings` or `Paths`
from the configuration (no request is sent for them).

What is not claimed: a failed request may leave something for good, and
`Converges` names it. A creation whose answer is lost leaves an object outside the
state, which every later run creates in vain (`Untracked`), and which keeps its
parent from being deleted. A delete whose answer is lost leaves a dataset in the
state that is not at TrueNAS; `Read` of a dataset does not drop it (only the custom
app's does), so every later run fails while reading (`Blocked`).

### PhotoFrame

The server is `store` (list and last error) and `scan` (the answer to a PROPFIND
that `refresh` has not stored yet); the page is `images`, `playlist`, `index`,
`timer`, the two slides and the message. `loads` and `pre` are the requests under
way, answered in any order. A picture comes in two steps: the server answers with the
file (`Arrive`), which it can only do while the picture is in its list and in the folder
(`Served`), and the page hears of it (`OnLoad`) at any time after that, when both may have
changed. A refusal is heard at once, and a picture that has come may turn out not to be
one (`OnError`). Each callback of the page is one action (`Loaded`, `LoadFails`, `Tick`,
`OnLoad`, `OnError`), since its script is one thread; `next` is called by
three of them and is the operator `ShowNext`. A shuffle is any permutation.

Abstracted: the browser's cache (a picture that comes from it needs no server), intervals
that change, IDs (the picture itself),
the server's sort order (the page compares lists in that order, so a set will do).
Two identical answers under way count as one.

## 3. Runs

| Run | Instance | Shows |
|---|---|---|
| `lock_contention` | 2 applies, 2 targets (one deployed), 1 fault, fairness | no silent leak, clean exit, no directory lost under a lock, one apply gets through, every apply ends |
| `lock_forced` | 2 applies, 1 force-unlock, 1 target, 1 fault, fairness | exclusion, refinement of `CmtReservation`, the proof's invariant, stale locks can be removed |
| `lock_force_id` | 2 applies, 1 force-unlock | finding: the ID check and the removal are not atomic |
| `apply_hosts` | 2 commands with filters that overlap, 2 hosts, 2 projects, 1 edit of the repository, 1 failure or kill | plans hold, success means applied (where no look failed unnoticed), no write without a lock, refinement of `CmtReservation`; beside it, an `ASSUME` of `MCApply` evaluates the precedence of settings |
| `gates_approve` | 2 runs of either event, on 2 branches, 1 laptop, 2 files, 1 job killed, fairness | a run writes what was approved, none after a newer one that its check lists, what is merged is deployed, every run ends |
| `sync_applies` | 3 paths (compose.yml, a reserved one, another), 1 directory, 2 services, 1 event, 1 failure, fairness | only its own files, nothing on record forgotten, no orphans, post-sync on every change, updates recreate, convergence, the proofs' invariant |
| `rotation_shows` | 2 slots, 2 URLs; any two of commands, failing requests or writes, and exits of the browser; fairness | the loop misses no change; one tab per URL; rebuilding the tabs never closes the last one; every slot comes round |
| `rotation_index` | 1 command | finding: `next` at the last tab ends the agent |
| `state_survives` | 2 commands, 1 kill, 1 lost connection, 1 failing save, 1 input, 1 exit, fairness | what Home Assistant shows is saved, before it is shown; kills lose nothing saved; Home Assistant ends up right; the proofs' invariant |
| `provider_applies` | a dataset with its child and an app, or the apps settings (the catalog answered at once) and a path; 2 edits, 2 failures, fairness | what is in the state exists, what exists is not forgotten, convergence, the proofs' invariant |
| `frame_plays` | 2 pictures and another file; 1 preload at a tick, 1 change, 1 failure, fairness | one picture on the screen, every picture comes round |
| `frame_settles` | 1 picture and another file; 2 requests for the list, 2 changes, 1 failure, fairness | the page follows the folder |

The type invariants are no runs of their own: `TypeOK` is a conjunct of `IInv`, or of
`WriteInv`, and is proved for every module. The `IInv` of `CmtApply` and `KioskRotation`,
and `TypeOK` of `PhotoFrame`, were checked by TLC on the instances of `apply_hosts`,
`rotation_shows` and `frame_plays` before they were proved; adding them to an
`INVARIANTS` line repeats that.

What the properties of `CmtSync` leave out: `HookRuns` is about applies that get to their
compose stage, since an apply that finds nothing to change runs no command, also when one
that failed before is pending. `KnownUntilGone` is about applies that could read the
manifest; one that could not takes it for none, and writes a manifest without the files it
did not know of, and a torn manifest is none. `UpdatesRecreate` is about a compose.yml that
is at the host already; first deployments are `ChangesRecreate` in section 4. `OkMeansApplied` and
`PlanHolds` of `CmtApply` leave out the targets where a look that failed showed nothing to
do: such an apply succeeds without having done it.

Properties that only failures put out of reach say so themselves: `CleanExit`,
`SomeApplyProceeds`, `NoOrphans`, `HookRuns`, `UpdatesRecreate`, `EditsSurvive`,
`KillKeepsState` and `CatchesUp` speak of behaviours in which none (none of the
saves, in `KioskState`) has failed so far, and a run contains those as well.
`NeverClosesBrowser` ends with the first exit of the browser: when the user
closes it in the middle of a rebuild, the rebuild may close the tab of the new
one.

**Bounds.** `apply_hosts` has filters that overlap in one target (all projects of host
1; project 2 everywhere) and a host.yml that names nothing or the first project, so
that resolving, planning and locking may each find another set of targets. Its
commands and contents are symmetric: no property tells them apart, and none of its
properties is a liveness property. In `gates_approve`, two runs have a newer and an
older one, of one event or of two, of one branch or of two; three runs are what it takes to be dropped from the
queue while another waits, and the proofs are for any number. `rotation_shows` and
`provider_applies` bound combinations, not single counters (`Bounds`, `Families`): any two
events from outside are a command during the aftermath of another one, of a failure or of
an exit, and the reverse; the resources of the two families have no request in common.

Two applies are what a race needs, and two targets are a partial
acquisition and an order to get wrong. One fault is a lost answer, a kill or a
failed release. In `CmtSync` the number of applies is not bounded: only events and
failures are, so a run contains every sequence of applies around them. Three paths
are one per role.

The kiosk loop and the page's callbacks are not bounded either, only what comes
from outside is. Two slots with two URLs have an empty, a single and a full
rotation, equal and different slots; a tab identity that is free again is used
again. One slot stands for all in `KioskState`, whose threads never compare slots.
In `TrueNASProvider` runs are unbounded; two edits and two failures are a change
during the aftermath of another one, and a second failure while recovering from
the first; two retries for the parent (20 in the code) are enough to be used up
and not to be. `Direct` has one half of the apps settings, so that a call waits for a job and goes on
without one. For the page, two preloads and two lists under way are what it
takes to overtake: `MaxPreloads` is only for the ticks, and a changed list, or a picture
that fails, starts preloads beside that, up to three at once in `frame_plays`. One picture
is enough for the order of lists, two for the order of preloads.

**Deadlock** is checked for `CmtApply`, `CmtSync`, `KioskRotation`, `TrueNASProvider` and
`PhotoFrame`, where something can always happen next. The lock processes end, so
the lock runs do not check it; `EveryApplyEnds` does instead. Nor does `gates_approve`,
whose runs end (`EveryRunEnds`), nor `state_survives` of
`KioskState`, whose threads wait for good when the bounded commands are used up.

**Fairness.** A running process takes its next step, and a remote command it waits
for answers or breaks: ssh ends one way or the other, although nothing in the
code bounds when: release has a deadline of 30 s, the acquire command none. A script nobody waits for any more, an operator
at a prompt, and a fault are not obliged to anything. `Converges` assumes that
somebody keeps running `cmt apply` (every merge group and every dispatch does) and
does not decline every time (strong fairness of `Approve`). In `ApplyGates` jobs and steps go
on (they have time limits), the group admits a pending job when it is free, and a
deployment is approved, rejected, or failed by GitHub after 30 days; nobody has to
trigger a run, answer a prompt on a laptop, or remove a lock. In the kiosk agent every
wait and every request has a timeout, systemd restarts the agent and, while the flag file is there, the autostart
loop the browser; the MQTT thread gets on with a command it has begun (`NetFlag`, `Wake`);
commands, kills and exits are not obliged to happen. The
provider's requests have a timeout of 30 s and its wait one of 30 min; that
somebody keeps running `terraform apply`, and that TrueNAS ends its jobs, is
assumed. The photo frame's refresh and the page's timers go on, and its requests
are answered or time out (`REQUEST_TIMEOUT` at the server). `EverySlotComesRound` asks for
rotation, screen and flag file to be on from some time on.

## 4. Where code and documentation disagree

Two disagreements are runs that end in a counterexample, `lock_force_id` and
`rotation_index`. TLC finds the others with a configuration of the module named
here and the property alone; the modules keep the properties. Everything not
mentioned is 0 or empty, and the specification is `Spec`.

| Property | Instance | What happens | What the repository says |
|---|---|---|---|
| `CmtLock!EmptyDirRolledBack` | 2 applies, 1 target | an apply that creates the directory and then finds the lock taken forgets that it created it; the other one found it there | `tools/cmt/README.md:368-370`: a directory created for the lock is rolled back when nothing was written |
| `CmtSync!PreservedLeavesManifest` | 1 event | when a file becomes preserved and nothing else changes, the apply ends at `No changes to apply.` and the manifest keeps it | `tools/cmt/README.md:189-190`: it drops out of the manifest after the next apply |
| `CmtSync!ChangesRecreate` | no event | the first deployment asks the host for services before compose.yml is there, and starts none | `tools/cmt/README.md:238`: with changed files all services are to be recreated |
| `CmtSync!ServicesFresh` | 1 event, 1 failure | a query that fails counts as "no services", and an apply that fails after the upload leaves nothing to see for the next one: services stay as they were | `tools/cmt/README.md:237-245`: `cmt apply` runs the compose command the differences ask for |
| `CmtApply!WritesUnderLock`, without `relisted[c]` | as `apply_hosts` | a project or an entry of host.yml that is added between the two readings of the repository is planned and written without a lock | the comment on `ResolveLockTargets`: it "mirrors the plan's project discovery"; `tools/cmt/README.md:352-366`: apply locks the target projects first |
| `ApplyGates!StaleRunsCancelled` | as `gates_approve` | the action asks for runs of the event `push`, which triggers no run of the workflow, and cancels none | its description, `.github/actions/cancel-stale-runs/action.yml:2-4`; the event is at line 48 |
| `ApplyGates!NewestNotDropped` | 3 runs | an older run that asks for the group drops the newer one that is pending there, and is then skipped as stale itself: neither is applied | `.github/actions/check-run-latest/action.yml:2-4`: a run with a newer one of its event steps back, which leaves the change to the newer one |
| `ApplyGates!NeverOlderOfWorkflow` | as `gates_approve` | a merge group applies after a newer dispatch has, or a dispatch on one branch after a newer one on another: the action lists runs of one event only and, for a dispatch, of one branch (`action.yml:38-47`), while all share the group (`cmt-apply.yml:122`) and the host | `.github/actions/check-run-latest/action.yml:2-4`: "Detect whether a newer run of this workflow exists" |
| `KioskRotation!FlagFollows` | 2 slots, 2 URLs, 1 command | main reads the switch while it is off, a command switches it on and writes the flag file, and main removes it: rotation is on, and a browser that ends is not started again | `agent.py:280-282`: "Rotation ON restores the flag so the browser is kept alive again." |
| `KioskRotation!ExactlyOneTab` | 2 slots, 2 URLs, 2 commands, 1 failure | a rebuild that fails half-way leaves a tab; an edit back to the old URLs finds its tabs in order and never closes it | `agent.py:205`: "Ensure exactly one pre-loaded tab per URL (in order)." |
| `KioskState!FailedEditsSurvive` | 1 command, 1 failing save, 1 lost connection | an edit whose save failed stays in memory, and the next connection reports it | `agent.py:12-13`: "HA edits survive restarts" |
| `KioskState!ActivityReported` | 2 inputs | three threads set or read `activity_on` and publish it in two steps; the retained sensor can stay the opposite | `roles/kiosk/README.md:21`: `motion` is ON on input |
| `KioskState!FullscreenObeys` | 1 command, 1 exit | a relaunched browser is in fullscreen while `fullscreen_on` keeps the old value; the next command toggles the wrong way or not at all | `roles/kiosk/README.md:20`: ON=fullscreen, OFF=windowed |
| `KioskState!OffRemovesFlag` | 1 command | main writes the flag for a rotation switch it read before a command switched it off | `agent.py:280`: "Rotation OFF removes the flag" |
| `TrueNASProvider!CreatedIsTracked` | an app, 1 edit, 1 failure | one failing poll, or a lost answer, ends Create without setting the state; the app exists and every later apply creates it in vain | the comment in `customAppResource.Create`: a transient failure "cannot leave the created app untracked" |
| `PhotoFrame!CrossFades` | 2 pictures, 2 preloads | two preloads that overlap toggle `front` twice, and the visible slide gets the next picture | the comment on `next`: "Cross-fade to the next image, preloading before swapping." |

Hazards that are like another one of PROJECT.json at the same lines, or follow from
what is said above, are not listed there: the missing deadline of the acquire command
(section 3, fairness); removing compose.yml from the repository while services run; the
plan that is applied after an answer that took long, inside a project
(`UpdatesRecreate`); a `next` between reading and storing `current_slot`
(`IndexIntoActive`); tabs of an older rebuild and requests that fail in one
(`OneTabPerUrl`, `ExactlyOneTab`); the browser flag written for a value read before a
command (`OffRemovesFlag`, `FlagFollows`); datasets and apps that are gone when they are read
(`Converges`, section 2); the page's IDs of an older list, and pictures that all fail
(`Settles`, `EveryPictureShown`).

## 5. Proofs

Every module that models a component is proved about: each invariant and each action
property that a passing run checks is also a theorem, for every value of the constants.
All proofs go the same way. The property is not inductive; an invariant that is
(`IInv`) says what holds at each step of the processes; it is proved to hold at first and
to be kept by every action, one lemma per action or group of actions; and the property
follows from it, or, for an action property, from it and the one or two actions that can
change what the property is about.

`CmtLockProofs` proves, for any sets of processes, any number of targets and any
number of faults, from `LockAssumption` alone (the two kinds of processes are
disjoint, `None` and `Unreadable` are not processes):

- `TypeCorrect`, `Exclusion`, `NoSilentLeak`: the invariants `TypeOK`,
  `MutualExclusion`, `LeakSurfaced`;
- `DirectoryKept`, `NothingLeft`: the invariants `HeldDirExists` and `CleanExit`;
- `Inductive`: `IInv`, which is behind all of them;
- `Refinement`: every step of `CmtLock` is a step or a stutter of
  `CmtReservation`.

`IInv` has three parts. The first, `LockInv`, says: the lock file of a target
that was never force-unlocked carries the ID of the apply that owns it
(`OwnersLock`), where owning starts at the script's create, not at the answer; an
apply in the middle of a release is releasing something of its own
(`ReleasesOwn`), which is why its `rm -f` cannot hit a lock of somebody else; the
script works on a target that its apply does not hold, and one that nobody
waits for belongs to an apply that failed (`ScriptsApart`); an apply at work
holds all it wants (`HeldByStage`); every lock is held, being taken, or reported
(`LockAccounted`). Exclusion follows from `OwnersLock` and `HeldByStage`, the
absence of silent leaks from `LockAccounted` and `HeldByStage`. The second,
`LocksHaveDir`, says that a lock file is in a directory, which is what a roll-back could
break; it cannot, because `rmdir` refuses a directory with a lock in it. `HeldDirExists`
follows with `OwnersLock`. The third, `LocksHeld`, is about behaviours without a fault:
every script is waited for, and every lock file is held and written, or its script has
just created it; so when all have ended, nobody holds any and none is left.

`CmtSyncProofs` proves, for any paths, directories, services, edits and failures, from
`SyncAssumption` (the reserved paths are paths, `None` is no content and no set of paths):

- `Inductive`: `IInv`, stage by stage: what the plan says of a file follows from the
  configuration and the repository it was made from (`PlanSound`), what it takes to be on
  record is the manifest of the host, or nothing when the manifest could not be read
  (`RecordKnown`), each stage has left behind what the next one relies on (`Done`), a
  file that cmt uploaded and has not deleted is there (`OursOnDisk`), and, without failures,
  a changed `up` project is recreated but for want of a compose.yml (`ComposeKnown`);
- `NothingForgotten`: `NoOrphans`, which is a conjunct of `IInv`;
- `OwnFilesOnly`, `RecordKept`, `HookHasRun`, `UpdateRecreates`: the action properties
  `TouchesOnlyItsOwn`, `KnownUntilGone`, `HookRuns`, `UpdatesRecreate`, with the limits
  that section 3 names. The manifest is
  written in two places, after the files and when there is nothing to do; a file may only
  leave it when it is deleted or no longer cmt's, which is `Done` in the first and
  `PlanSound` in the second.

`CmtApplyProofs` proves, for any number of commands, hosts, projects, edits and faults,
any filters and any host.yml, from `ApplyAssumption` (the constants that stand for
nothing, for a torn project and for the two kinds of looks that failed are no contents,
and differ):

- `ResolvedAsDocumented`, from `ConfigAssumption`: the settings that are resolved are
  those README.md of cmt documents, by cases on who says something of a setting;
- `TypeCorrect`, `PlansHold`, `OkApplied`, `UnderLock`: the type invariant and the
  properties `PlanHolds`, `OkMeansApplied`, `WritesUnderLock`; `PlanHolds` does not say what a look
  that failed has seen, and neither it nor `OkMeansApplied` says anything of a target where
  such a look showed nothing to do;
- `Refines`: the locks of a command, taken one by one, implement `CmtReservation`.

The invariant `IInv` is about one command at a time (`CInv`). `LockPart`: what it
believes to have locked carries its name, and a command that plans or applies has all
its targets. `PlanPart`: there is no plan before `host`, and only what is planned is
left to apply. `MirrorPart`: unless the projects are listed anew, the targets are what
the filters find now, and they are what is planned, being planned, and still to be
planned; so the plan is about the locked targets and no others. `HoldsPart` and `OkPart`
are `PlanHolds` and `OkMeansApplied` of one command. The proof has two halves. A step of
a command does not disturb another one: its variables are functions over the commands
(`RowsOfOthers`), nobody takes a lock away that somebody has, and what is written without
a lock is noted (`SharedOfOthers`), which is all the invariant of the other depends on
(`Stays`). And a step keeps the command's own invariant, one lemma per action
(`StartKeeps` to `ReleaseKeeps`), with the edit of the repository and force-unlock in
`AroundKeeps`. TLC has checked `IInv` on the instance of `apply_hosts` first.

`ApplyGatesProofs` proves, for any number of runs, branches, laptops, files and kills, from
`GatesAssumption`:

- `ApprovedOnly`: `WriteInv`, which says that while a run writes, each file is what the
  approved plan saw there or what it was approved to become. Behind it: who is past
  taking the locks has them, and the digest is compared once more after that;
- `InOrder`: `NeverOlderAfterNewer`, from `OrderInv`: the apply job has the group, and a
  run past its checks is older than no run on its list (`Newer`) that has written; of runs
  that are not listed nothing is claimed (`NeverOlderOfWorkflow`, section 4). The check for
  newer runs and the writing are steps apart; what makes it hold is that the newer run
  cannot get past the group in between;
- `Deployed`: `MergedIsDeployed`, from `DeployInv`.

`KioskStateProofs` proves, for any values of a slot and any number of commands, inputs,
kills, exits, failing saves and lost connections, from `StateAssumption`:

- `Inductive`: `IInv`, whose part `OnItsWay` follows a change from memory to the state
  file to Home Assistant: at each step of a command it says which two of the three agree,
  and in which half they may differ; the state file is never torn;
- `Survives`: `EditsSurvive`; `KillIsHarmless`: `KillKeepsState`; `ToldWhenSaved`:
  `ToldIsSaved`. The last does not need saves to work: a command is past `replace` only
  when memory and file agree.

`KioskRotationProofs` proves, for any number of slots, any URLs, tab identities and
bounds on commands, failures and exits, from `RotationAssumption`:

- `Inductive`: `IInv`. `Rebuilds`: while tabs are rebuilt, the new ones are there until
  the user ends the browser, and are not among those to close. `TabsAsListed`: while
  nothing fails, the open tabs are those of the loop, with its URLs. `Undisturbed`: as
  long as no command is half done or waits to wake the loop, and nothing has failed (a
  command whose save fails does not wake it), what each step of the loop
  has read before is still what there is;
- `NoChangeMissed`: `ShowsSelection`, from `Undisturbed` at the wait; `TabPerUrl`:
  `OneTabPerUrl`, from `TabsAsListed`; `BrowserKept`: `NeverClosesBrowser`, from
  `Rebuilds`: when a tab is closed, a new one that stays is there.

What the proof needs of `active_slots` is that its entries are the slots with a URL, each
at its place. `Place` is a cardinality, so that this follows from facts about finite sets;
`SelectSeq` is defined by recursion, and nothing about it can be proved without induction.

`TrueNASProofs` proves, for any resources, objects, parents, values, edits and failures,
from `ProviderAssumption` (resources have no object in common; what is created and deleted
is one object; `Direct` are objects):

- `Inductive`: `IInv`. `Serving`: calls are under way only while a run applies its plan,
  and only one that waits has a job. `Obtained`: as long as a call waits for a job that has
  succeeded, its object is as the call asked for, and no job that an earlier call has left
  behind is still to come: jobs on one object run in the order they were started, so the
  call's own job has run after all of them;
- `OnlyWhatExists`: `InStateExists`; `OnlyWhatIsGone`: `ForgottenIsGone`, by the few
  actions that set a resource in the state or drop it (`ReadMissesApp`, `PlainDone`,
  `JobsDone`, `ReadBack`).

`PhotoFrameProofs` proves, for any folder, any number of requests and preloads under way,
edits and failures, from `FrameAssumption`:

- `TypeCorrect`: `TypeOK`, which says more than types: the lists and preloads are of
  pictures, the playlist is empty or a permutation of the page's own list and is played
  exactly while that list is not empty, and every preload is for a slide. It does not say
  which pictures the server has listed;
- `OneAtATime`: `OnePicture`. Behind it is that either nothing is shown and both slides are
  empty, or exactly one slide is visible and has a picture (`Shows`); `Reveal` keeps that
  in whatever order preloads come back, although `front` may be wrong by then
  (`CrossFades`, section 4).

Only model-checked: liveness (`EveryApplyEnds`, `SomeApplyProceeds`,
`StaleLockRemoved`, `EveryRunEnds`, `EverySlotComesRound`, `CatchesUp`, `EveryPictureShown`,
`Settles`, and `Converges` of both modules). Liveness, with the fairness it needs, is
beyond the prover.

## 6. Plan

1. `CmtLock`, `CmtReservation`, `CmtLockProofs`: done.
2. `CmtConfig`, `CmtApply`, `CmtApplyProofs`: done, hooks and prompt included.
3. `ApplyGates`, `ApplyGatesProofs`: done.
4. `CmtSync`, `CmtSyncProofs`: done.
5. `KioskRotation`, `KioskState` and their proofs: done.
6. `PhotoFrame`, `PhotoFrameProofs`: done.
7. `TrueNASProvider`, `TrueNASProofs`: done.
8. To state and prove: abstract specifications beside `CmtReservation`. For `CmtSync`, a
   project whose files and record change together; for `KioskState`, a register that
   survives kills; for `TrueNASProvider`, one object, desired and actual.

## 7. Not modelled

What a plan prints: unified diffs, their masks and the tables. Masks compare two
renderings of a file character by character; nothing that cmt does at a host depends on
them, but for the hints it keeps in the manifest, which no other code reads. Of the
configuration: decoding of YAML, the JSON schema, and the connection settings that
`ssh -G` answers. Of the kiosk agent: discovery messages and the playlist's names. Of the
provider: import, data sources and replacement.

The mesh DNS updater (one request, one PATCH of one record, and again the next time), the
Prometheus exporters and the Lambda function (one request, one answer, no state), the
secret linter (a pure scan of text), templates, output and its styles, the workflows that
run Ansible and Terraform, Ansible roles, Terraform and compose files, dashboards
(configuration without an algorithm).
