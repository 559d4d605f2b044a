------------------------------- MODULE CmtLock -------------------------------
(***************************************************************************)
(* The project locks of `cmt apply` and `cmt force-unlock`.                *)
(*                                                                         *)
(* An apply resolves its lock targets (one per host and project), takes    *)
(* the lock file <remotePath>/<project>/.cmt.lock of each of them in order *)
(* with one remote shell script per target, runs its plan while it holds   *)
(* all of them, and releases them.  A force-unlock reads lock files, asks, *)
(* and removes them.  Every remote command is a step of its own and every  *)
(* line of the acquire script is one too: between two of them any other    *)
(* process may act, the ssh session may fail, its answer may be lost while *)
(* the script goes on at the host, and the process may be killed.          *)
(***************************************************************************)
EXTENDS Integers, FiniteSets

CONSTANTS
    Applies,    \* the `cmt apply` processes; each is one invocation
    Unlockers,  \* the `cmt force-unlock` processes
    NTargets,   \* the number of lock targets, numbered in resolution order
    Deployed,   \* the targets whose project directory holds files at the start
    MaxFaults,  \* how many ssh failures, lost answers and kills may happen
    None,       \* no lock file, no target
    Unreadable  \* a lock file that is there and cannot be read or parsed

Targets == 1..NTargets
Procs   == Applies \cup Unlockers

ASSUME LockAssumption ==
    /\ NTargets \in Nat
    /\ Deployed \subseteq Targets
    /\ MaxFaults \in Nat
    /\ Applies \cap Unlockers = {}
    /\ None \notin Applies /\ Unreadable \notin Applies \cup {None}

VARIABLES
    dir,     \* the targets whose project directory exists at the host
    files,   \* the targets whose directory holds files besides the lock
    lock,    \* the apply whose lock ID the lock file carries, or None
    torn,    \* the targets whose lock file is created but not yet written
    script,  \* the remote acquire script of each apply, which outlives the ssh
    pc,      \* where each process is
    want,    \* the targets of each process: to lock, or still to scan
    held,    \* the targets each apply has acquired and not yet released
    made,    \* those among them whose directory it created
    err,     \* whether the command has an error to return
    call,    \* the lock-file operation a process is in the middle of
    seen,    \* the lock IDs each force-unlock read and still has to remove
    force,   \* the force-unlocks run with --force
    forced,  \* history: the targets whose lock a force-unlock has removed
    faults   \* the faults that may still happen

remote == <<dir, files, lock, torn>>
locals == <<want, held, made, seen, force>>
vars   == <<remote, script, pc, locals, err, call, forced, faults>>

ScriptSteps == {"none", "check", "mkdir", "create", "write", "test",
                "ok", "held", "exit1"}
Script == [step : ScriptSteps, t : Targets \cup {None}, made : BOOLEAN]
Call   == [op : {"none", "release", "read", "forceID", "force"},
           phase : {"none", "exists", "cat", "rm", "rmdir"},
           t : Targets \cup {None}, id : Applies \cup {None}]
NoCall   == [op |-> "none", phase |-> "none", t |-> None, id |-> None]
NoScript == [step |-> "none", t |-> None, made |-> FALSE]

TypeOK ==
    /\ dir \subseteq Targets /\ files \subseteq Targets /\ torn \subseteq Targets
    /\ lock \in [Targets -> Applies \cup {None}]
    /\ script \in [Applies -> Script]
    /\ pc \in [Procs -> {"start", "acquire", "await", "critical", "release",
                         "scan", "confirm", "remove", "done", "killed"}]
    /\ want \in [Procs -> SUBSET Targets]
    /\ held \in [Applies -> SUBSET Targets]
    /\ made \in [Applies -> SUBSET Targets]
    /\ err \in [Applies -> BOOLEAN]
    /\ call \in [Procs -> Call]
    /\ seen \in [Unlockers -> [Targets -> Applies \cup {None, Unreadable}]]
    /\ force \subseteq Unlockers
    /\ forced \subseteq Targets
    /\ faults \in 0..MaxFaults

Init ==
    /\ dir = Deployed /\ files = Deployed /\ torn = {}
    /\ lock = [t \in Targets |-> None]
    /\ script = [a \in Applies |-> NoScript]
    /\ pc = [p \in Procs |-> "start"]
    /\ want \in [Procs -> (SUBSET Targets) \ {{}}]
    /\ held = [a \in Applies |-> {}]
    /\ made = [a \in Applies |-> {}]
    /\ err = [a \in Applies |-> FALSE]
    /\ call = [p \in Procs |-> NoCall]
    /\ seen = [u \in Unlockers |-> [t \in Targets |-> None]]
    /\ force \in SUBSET Unlockers
    /\ forced = {}
    /\ faults = MaxFaults

\* One of the faults the bound allows happens in this step.
Fault   == faults > 0 /\ faults' = faults - 1
NoFault == faults' = faults

\* Mutant: every apply takes its targets in an order of its own.
AnyOrder(S, t) == t \in S

\* The first target of S in resolution order.
First(S, t) == t \in S /\ \A s \in S : t <= s

-----------------------------------------------------------------------------
(* The remote acquire script, buildAcquireScript with ensureDir.           *)

ScriptGoes(a, step) == script' = [script EXCEPT ![a].step = step]

\* `[ ! -d dir ]`
ScriptCheck(a) ==
    /\ script[a].step = "check"
    /\ ScriptGoes(a, IF script[a].t \in dir THEN "create" ELSE "mkdir")
    /\ UNCHANGED remote /\ NoFault

\* `mkdir -p dir || exit 1; created=1`; mkdir -p also succeeds on a directory
\* that somebody else created since the check.
ScriptMkdir(a) ==
    /\ script[a].step = "mkdir"
    /\ \/ /\ NoFault
          /\ dir' = dir \cup {script[a].t}
          /\ script' = [script EXCEPT ![a].step = "create", ![a].made = TRUE]
       \/ /\ Fault
          /\ ScriptGoes(a, "exit1")
          /\ UNCHANGED dir
    /\ UNCHANGED <<files, lock, torn>>

\* Mutant: the script redirects without `set -C` and overwrites a lock.
CreateClobbers(a) ==
    LET t == script[a].t IN
    /\ script[a].step = "create"
    /\ lock' = [lock EXCEPT ![t] = a]
    /\ torn' = torn \cup {t}
    /\ ScriptGoes(a, "write")
    /\ UNCHANGED <<dir, files>> /\ NoFault

\* `set -C; ... > lock` opens the file with O_EXCL: it fails on an existing
\* file and in a directory that is gone.
ScriptCreate(a) ==
    LET t == script[a].t IN
    /\ script[a].step = "create"
    /\ IF lock[t] = None /\ t \in dir
       THEN /\ lock' = [lock EXCEPT ![t] = a]
            /\ torn' = torn \cup {t}
            /\ ScriptGoes(a, "write")
       ELSE /\ ScriptGoes(a, "test")
            /\ UNCHANGED <<lock, torn>>
    /\ UNCHANGED <<dir, files>> /\ NoFault

\* `printf payload` into the file just opened, which a force-unlock may have
\* unlinked; a write that fails (a full disk) makes the `if` fail.
ScriptWrite(a) ==
    LET t == script[a].t IN
    /\ script[a].step = "write"
    /\ \/ /\ NoFault
          /\ torn' = IF lock[t] = a THEN torn \ {t} ELSE torn
          /\ ScriptGoes(a, "ok")
       \/ /\ Fault
          /\ ScriptGoes(a, "test")
          /\ UNCHANGED torn
    /\ UNCHANGED <<dir, files, lock>>

\* `elif [ -e lock ]; then echo HELD; else exit 1`
ScriptTest(a) ==
    /\ script[a].step = "test"
    /\ ScriptGoes(a, IF lock[script[a].t] = None THEN "exit1" ELSE "held")
    /\ UNCHANGED remote /\ NoFault

ScriptStep(a) ==
    /\ \/ ScriptCheck(a) \/ ScriptMkdir(a) \/ ScriptCreate(a)
       \/ ScriptWrite(a) \/ ScriptTest(a)
    /\ UNCHANGED <<pc, locals, err, call, forced>>

-----------------------------------------------------------------------------
(* cmt apply                                                               *)

Goes(p, where) == pc' = [pc EXCEPT ![p] = where]
Fails(a) == err' = [err EXCEPT ![a] = TRUE]

\* resolveLockTargets has produced the targets (want); the config is valid.
StartApply(a) ==
    /\ pc[a] = "start"
    /\ Goes(a, "acquire")
    /\ UNCHANGED <<remote, script, locals, err, call, forced>> /\ NoFault

\* The next turn of the loop in acquireRemoteLocks: Acquire connects and
\* starts the script, or the connection fails and what is held is released.
Acquire(a) ==
    /\ pc[a] = "acquire"
    /\ \E t \in Targets : First(want[a] \ held[a], t) /\
       \/ /\ NoFault
          /\ script' = [script EXCEPT ![a] =
                          [step |-> "check", t |-> t, made |-> FALSE]]
          /\ Goes(a, "await")
          /\ UNCHANGED err
       \/ /\ Fault
          /\ Fails(a)
          /\ Goes(a, "release")
          /\ UNCHANGED script
    /\ UNCHANGED <<remote, locals, call, forced>>

\* parseAcquireOutput: the answer says that the lock is acquired; it is one more
\* to release, with its directory if the script has created it.
Acquired(a) ==
    LET t == script[a].t IN
    /\ script[a].step = "ok"
    /\ held' = [held EXCEPT ![a] = @ \cup {t}]
    /\ made' = [made EXCEPT ![a] = IF script[a].made THEN @ \cup {t} ELSE @]
    /\ Goes(a, IF want[a] \ held[a] = {t} THEN "critical" ELSE "acquire")
    /\ script' = [script EXCEPT ![a] = NoScript]
    /\ UNCHANGED err

\* The lock is held, or the script failed: the apply fails and goes on at `to`.
TurnedAway(a, to) ==
    /\ script[a].step \in {"held", "exit1"}
    /\ Fails(a)
    /\ Goes(a, to)
    /\ script' = [script EXCEPT ![a] = NoScript]
    /\ UNCHANGED <<held, made>>

\* Mutant: the apply returns the error and keeps the locks it already holds.
ReplyKeepsLocks(a) ==
    /\ pc[a] = "await"
    /\ Acquired(a) \/ TurnedAway(a, "done")
    /\ UNCHANGED <<remote, want, seen, force, call, forced>> /\ NoFault

\* Mutant: the apply tries a held lock again until it is free.
ReplyRetries(a) ==
    /\ pc[a] = "await"
    /\ Acquired(a) \/ TurnedAway(a, "acquire")
    /\ UNCHANGED <<remote, want, seen, force, call, forced>> /\ NoFault

\* The script's output arrives.  With every target locked the apply goes on to
\* its plan; a held lock or an error makes it release.
AcquireReply(a) ==
    /\ pc[a] = "await"
    /\ Acquired(a) \/ TurnedAway(a, "release")
    /\ UNCHANGED <<remote, want, seen, force, call, forced>> /\ NoFault

\* The session breaks or the context is cancelled before the answer arrives;
\* the script, if it has started, goes on at the host.
AcquireLost(a) ==
    /\ pc[a] = "await"
    /\ Fault
    /\ Fails(a)
    /\ Goes(a, "release")
    /\ UNCHANGED <<remote, script, locals, call, forced>>

\* ApplyWithDeps writes below a project directory it has locked; WriteFile
\* does a mkdir -p first.
WriteProject(a) ==
    /\ pc[a] = "critical"
    /\ \E t \in want[a] : dir' = dir \cup {t} /\ files' = files \cup {t}
    /\ UNCHANGED <<lock, torn, script, pc, locals, err, call, forced>>
    /\ NoFault

\* Plan and apply are over: done, nothing to do, cancelled, or an error.
EndApply(a) ==
    /\ pc[a] = "critical"
    /\ \/ Fails(a) \/ UNCHANGED err
    /\ Goes(a, "release")
    /\ UNCHANGED <<remote, script, locals, call, forced>> /\ NoFault

\* The next turn of the loop in releaseFn, or its end.
NextRelease(a) ==
    /\ pc[a] = "release" /\ call[a] = NoCall
    /\ \/ /\ held[a] = {}
          /\ Goes(a, "done")
          /\ UNCHANGED call
       \/ \E t \in Targets :
          /\ First(held[a], t)
          /\ call' = [call EXCEPT ![a] = [op |-> "release", phase |-> "exists",
                                          t |-> t, id |-> a]]
          /\ UNCHANGED pc
    /\ UNCHANGED <<remote, script, locals, err, forced>> /\ NoFault

-----------------------------------------------------------------------------
(* cmt force-unlock.  The single form is the batch form with one target:   *)
(* they differ in the messages and the exit status, not in what they do to *)
(* a lock.                                                                 *)

StartUnlock(u) ==
    /\ pc[u] = "start"
    /\ Goes(u, "scan")
    /\ UNCHANGED <<remote, script, locals, err, call, forced>> /\ NoFault

\* The next turn of the loop in scanLockedTargets; after the last one, an
\* empty scan ends the command.
NextScan(u) ==
    /\ pc[u] = "scan" /\ call[u] = NoCall
    /\ \/ /\ want[u] = {}
          /\ Goes(u, IF \A t \in Targets : seen[u][t] = None
                     THEN "done" ELSE "confirm")
          /\ UNCHANGED call
       \/ \E t \in Targets :
          /\ First(want[u], t)
          /\ call' = [call EXCEPT ![u] = [op |-> "read", phase |-> "exists",
                                          t |-> t, id |-> None]]
          /\ UNCHANGED pc
    /\ UNCHANGED <<remote, script, locals, err, forced>> /\ NoFault

\* confirmForceUnlock, skipped by --force: the operator answers when he likes.
Confirm(u) ==
    /\ pc[u] = "confirm"
    /\ \/ Goes(u, "remove")
       \/ u \notin force /\ Goes(u, "done")
    /\ UNCHANGED <<remote, script, locals, err, call, forced>> /\ NoFault

\* Mutant: --force does not go on to the lock files it could not read.
UnlockReadable(u) ==
    LET known == {t \in Targets : seen[u][t] \in Applies} IN
    /\ pc[u] = "remove" /\ call[u] = NoCall
    /\ \/ \E t \in Targets :
          /\ First(known, t)
          /\ call' = [call EXCEPT ![u] = [op |-> "forceID", phase |-> "exists",
                                          t |-> t, id |-> seen[u][t]]]
          /\ UNCHANGED pc
       \/ /\ known = {}
          /\ Goes(u, "done")
          /\ UNCHANGED call
    /\ UNCHANGED <<remote, script, locals, err, forced>> /\ NoFault

\* The next turn of the loops in releaseScannedLocks: the locks that were read,
\* by ID, then with --force the unreadable ones, whatever they are.
NextUnlock(u) ==
    LET known  == {t \in Targets : seen[u][t] \in Applies}
        opaque == {t \in Targets : seen[u][t] = Unreadable /\ u \in force}
    IN
    /\ pc[u] = "remove" /\ call[u] = NoCall
    /\ \/ \E t \in Targets :
          /\ First(known, t)
          /\ call' = [call EXCEPT ![u] = [op |-> "forceID", phase |-> "exists",
                                          t |-> t, id |-> seen[u][t]]]
          /\ UNCHANGED pc
       \/ \E t \in Targets :
          /\ known = {} /\ First(opaque, t)
          /\ call' = [call EXCEPT ![u] = [op |-> "force", phase |-> "exists",
                                          t |-> t, id |-> None]]
          /\ UNCHANGED pc
       \/ /\ known = {} /\ opaque = {}
          /\ Goes(u, "done")
          /\ UNCHANGED call
    /\ UNCHANGED <<remote, script, locals, err, forced>> /\ NoFault

-----------------------------------------------------------------------------
(* The lock-file operations: Release, Read, ForceUnlockWithID, ForceUnlock *)
(* are sequences of the remote commands below, each with its own answer.   *)

\* Mutant: a failed release is logged and not returned.
ReleaseSilently(a, failed) ==
    LET t == call[a].t IN
    /\ held' = [held EXCEPT ![a] = @ \ {t}]
    /\ call' = [call EXCEPT ![a] = IF t \in made[a]
                                   THEN [@ EXCEPT !.phase = "rmdir"] ELSE NoCall]
    /\ UNCHANGED <<want, made, seen, force, err>>

\* Release ends with the lock gone or not its own, or with an error to report;
\* releaseAcquiredLock then rolls back a directory the acquisition created.
ReturnRelease(a, failed) ==
    LET t == call[a].t IN
    /\ held' = [held EXCEPT ![a] = @ \ {t}]
    /\ IF failed THEN Fails(a) ELSE UNCHANGED err
    /\ call' = [call EXCEPT ![a] = IF t \in made[a]
                                   THEN [@ EXCEPT !.phase = "rmdir"] ELSE NoCall]
    /\ UNCHANGED <<want, made, seen, force>>

\* Read returns to the scan with the lock ID, None or Unreadable.
ReturnRead(u, found) ==
    LET t == call[u].t IN
    /\ seen' = [seen EXCEPT ![u][t] = found]
    /\ want' = [want EXCEPT ![u] = @ \ {t}]
    /\ call' = [call EXCEPT ![u] = NoCall]
    /\ UNCHANGED <<held, made, force, err>>

\* ForceUnlock and ForceUnlockWithID return; the batch goes on either way.
ReturnForce(u) ==
    /\ seen' = [seen EXCEPT ![u][call[u].t] = None]
    /\ call' = [call EXCEPT ![u] = NoCall]
    /\ UNCHANGED <<want, held, made, force, err>>

\* The operation ends without having removed the lock: it is absent, or it
\* failed (the command, an unparsable file, another ID).
Return(p, found) ==
    \/ call[p].op = "release" /\ ReturnRelease(p, found = Unreadable)
    \/ call[p].op = "read" /\ ReturnRead(p, found)
    \/ call[p].op \in {"forceID", "force"} /\ ReturnForce(p)

ToPhase(p, phase) ==
    /\ call' = [call EXCEPT ![p].phase = phase]
    /\ UNCHANGED <<locals, err>>

\* existsWithClient
CheckExists(p) ==
    LET t == call[p].t IN
    /\ call[p].phase = "exists"
    /\ \/ /\ NoFault
          /\ IF lock[t] = None THEN Return(p, None)
             ELSE ToPhase(p, IF call[p].op = "force" THEN "rm" ELSE "cat")
       \/ Fault /\ Return(p, Unreadable)
    /\ UNCHANGED <<remote, forced>>

\* readWithClient after the check, and the comparison of the IDs.
CatLock(p) ==
    LET t == call[p].t
        id == IF lock[t] = None \/ t \in torn THEN Unreadable ELSE lock[t]
    IN
    /\ call[p].phase = "cat"
    /\ \/ /\ NoFault
          /\ CASE call[p].op = "read" -> Return(p, id)
               [] call[p].op # "read" /\ id = call[p].id -> ToPhase(p, "rm")
               [] OTHER -> Return(p, Unreadable)
       \/ Fault /\ Return(p, Unreadable)
    /\ UNCHANGED <<remote, forced>>

RemoveFile(t) ==
    /\ lock' = [lock EXCEPT ![t] = None]
    /\ torn' = torn \ {t}

\* client.Remove: `rm -f lock` removes whatever is there.  It may fail, and
\* its answer may be lost after it has removed the file.
RmLock(p) ==
    LET t == call[p].t IN
    /\ call[p].phase = "rm"
    /\ \/ /\ RemoveFile(t)
          /\ \/ NoFault /\ Return(p, None)
             \/ Fault /\ Return(p, Unreadable)
          /\ forced' = IF p \in Unlockers /\ lock[t] # None
                       THEN forced \cup {t} ELSE forced
       \/ /\ Fault /\ Return(p, Unreadable)
          /\ UNCHANGED <<lock, torn, forced>>
    /\ UNCHANGED <<dir, files>>

\* Mutant: the roll-back is an `rm -r`, whatever the directory holds by now.
RmDirTree(a) ==
    LET t == call[a].t IN
    /\ call[a].phase = "rmdir"
    /\ dir' = dir \ {t} /\ files' = files \ {t}
    /\ RemoveFile(t)
    /\ call' = [call EXCEPT ![a] = NoCall]
    /\ UNCHANGED <<locals, err, forced>> /\ NoFault

\* RemoveEmptyDir: rmdir succeeds on an empty directory only; a failure of it
\* or of its ssh command is ignored.
RmDir(a) ==
    LET t == call[a].t IN
    /\ call[a].phase = "rmdir"
    /\ \/ /\ NoFault
          /\ dir' = IF t \in files \/ lock[t] # None THEN dir ELSE dir \ {t}
       \/ Fault /\ UNCHANGED dir
    /\ call' = [call EXCEPT ![a] = NoCall]
    /\ UNCHANGED <<files, lock, torn, locals, err, forced>>

CallStep(p) ==
    /\ CheckExists(p) \/ CatLock(p) \/ RmLock(p) \/ RmDir(p)
    /\ UNCHANGED <<script, pc>>

-----------------------------------------------------------------------------
\* The process is killed; nothing it has left at the host is cleaned up.
Kill(p) ==
    /\ pc[p] \notin {"start", "done", "killed"}
    /\ Fault
    /\ Goes(p, "killed")
    /\ call' = [call EXCEPT ![p] = NoCall]
    /\ UNCHANGED <<remote, script, locals, err, forced>>

ApplyStep(a) ==
    \/ StartApply(a) \/ Acquire(a) \/ AcquireReply(a) \/ AcquireLost(a)
    \/ WriteProject(a) \/ EndApply(a) \/ NextRelease(a)

UnlockStep(u) ==
    StartUnlock(u) \/ NextScan(u) \/ Confirm(u) \/ NextUnlock(u)

Next ==
    \/ \E a \in Applies : ScriptStep(a) \/ ApplyStep(a)
    \/ \E u \in Unlockers : UnlockStep(u)
    \/ \E p \in Procs : CallStep(p) \/ Kill(p)

Spec == Init /\ [][Next]_vars

\* A running apply goes on, its plan and apply end, and the host answers or the
\* session breaks; so does a force-unlock that need not ask.  Nothing obliges
\* an operator to answer a prompt, an abandoned script to go on, or a fault to
\* happen.
FairApply(a) ==
    /\ WF_vars(StartApply(a) \/ Acquire(a) \/ AcquireReply(a) \/ NextRelease(a))
    /\ WF_vars(EndApply(a))
    /\ WF_vars(pc[a] = "await" /\ ScriptStep(a))
    /\ WF_vars(CallStep(a))

FairUnlock(u) ==
    /\ WF_vars(NextScan(u) \/ NextUnlock(u))
    /\ WF_vars(u \in force /\ Confirm(u))
    /\ WF_vars(CallStep(u))

FairSpec == /\ Spec
            /\ \A a \in Applies : FairApply(a)
            /\ \A u \in Unlockers : FairUnlock(u)

-----------------------------------------------------------------------------
(* Properties                                                              *)

\* README.md:361: applies on different machines exclude each other.  Two
\* applies never work on one project at the same time, unless an operator has
\* force-unlocked that project.
MutualExclusion ==
    \A a, b \in Applies :
        (a # b /\ pc[a] = "critical" /\ pc[b] = "critical") =>
            want[a] \cap want[b] \subseteq forced

\* The same as a refinement: taking the lock files one by one, over a session
\* that may break, implements reserving all projects of the apply at once.
busy == [a \in Applies |-> IF pc[a] = "critical" THEN want[a] ELSE {}]
Reservation == INSTANCE CmtReservation WITH broken <- forced
ReservationSpec == Reservation!Spec

\* cmd/lock.go:26: a leaked lock blocks later operations, so it is surfaced.
\* An apply that returns no error has left no lock of its own behind, whatever
\* failed on the way and whoever force-unlocked what.
LeakSurfaced ==
    \A a \in Applies : (pc[a] = "done" /\ ~err[a]) =>
        \A t \in Targets : lock[t] # a

\* As long as no fault has happened, an apply that was turned away at one of
\* its targets, or had its lock removed, leaves no lock file behind: when all
\* processes have ended, none is left.
CleanExit ==
    (faults = MaxFaults /\ \A p \in Procs : pc[p] \in {"start", "done"}) =>
        \A t \in Targets : lock[t] = None

\* A lock keeps its directory: whatever roll-backs of other applies run, the
\* directory of a project that an apply holds is there, unless the project was
\* force-unlocked.
HeldDirExists ==
    \A a \in Applies : held[a] \subseteq dir \cup forced

\* Behind MutualExclusion and LeakSurfaced: who has which lock.
Alive == {"write", "test", "ok", "held", "exit1"}

\* An apply owns what it has acquired, and what its script has just created.
Owns(a, t) ==
    t \in held[a] \/ (script[a].t = t /\ script[a].step \in {"write", "ok"})

\* Only a force-unlock takes a lock away from its owner.
OwnersLock == \A a \in Applies, t \in Targets :
    (Owns(a, t) /\ t \notin forced) => lock[t] = a

\* Releasing is the only lock-file operation of an apply, and what it may
\* remove is its own.
ReleasesOwn == \A a \in Applies : call[a] # NoCall =>
    /\ pc[a] = "release" /\ call[a].op = "release"
    /\ call[a].t \in Targets /\ call[a].id = a
    /\ call[a].phase \in {"exists", "cat", "rm", "rmdir"}
    /\ call[a].phase # "rmdir" => call[a].t \in held[a]

UnlockerCalls == \A u \in Unlockers : call[u] # NoCall =>
    /\ call[u].op \in {"read", "forceID", "force"}
    /\ call[u].t \in Targets
    /\ call[u].phase \in {"exists", "cat", "rm"}

\* A script works on a target its apply does not hold; one that nobody waits
\* for any more belongs to an apply that failed or was killed.
ScriptsApart == \A a \in Applies : script[a].step # "none" =>
    /\ script[a].t \in Targets \ held[a]
    /\ pc[a] \in {"await", "killed"} \/ err[a]

\* An apply at work holds all its targets, one that has ended holds none.
HeldByStage == \A a \in Applies :
    /\ pc[a] = "critical" => want[a] \subseteq held[a]
    /\ pc[a] = "done" => held[a] = {}

\* A lock is held, or being taken, or its apply has an error to report.
LockAccounted == \A a \in Applies, t \in Targets : lock[t] = a =>
    \/ t \in held[a] \/ err[a] \/ pc[a] = "killed"
    \/ pc[a] = "await" /\ script[a].t = t /\ script[a].step \in Alive

LockInv == /\ TypeOK /\ OwnersLock /\ ReleasesOwn /\ UnlockerCalls
           /\ ScriptsApart /\ HeldByStage /\ LockAccounted

\* Behind HeldDirExists: a lock file is in a directory.
LocksHaveDir == \A t \in Targets : lock[t] # None => t \in dir

\* Behind CleanExit: an apply that has not started holds nothing, and as long as
\* no fault has happened every script is waited for, and every lock file is held
\* and written, or the script of its apply has just created it.
LocksHeld ==
    /\ \A a \in Applies : pc[a] = "start" => held[a] = {}
    /\ faults = MaxFaults => \A a \in Applies :
         /\ script[a].step # "none" => pc[a] = "await"
         /\ \A t \in Targets : lock[t] = a =>
              \/ t \in held[a] \ torn
              \/ /\ script[a].t = t
                 /\ script[a].step = "write" \/ (script[a].step = "ok" /\ t \notin torn)

\* The inductive invariant behind the safety properties.
IInv == LockInv /\ LocksHaveDir /\ LocksHeld

\* No apply waits for a lock: every one of them ends, whatever the others
\* hold, leave behind or do at the same time.
EveryApplyEnds ==
    \A a \in Applies : <>(pc[a] \in {"done", "killed"})

\* All applies lock in one order, so contention alone never makes all of them
\* fail: unless a fault happens, at least one gets all its locks.
SomeApplyProceeds ==
    <>(faults # MaxFaults \/ \E a \in Applies : pc[a] = "critical")

\* README.md:365: the lock a killed apply leaves behind, written or torn, is
\* removed by a force-unlock --force that scans its project and meets no fault.
StaleLockRemoved ==
    \A u \in Unlockers, a \in Applies, t \in Targets :
        (/\ faults = 0 /\ u \in force /\ pc[u] = "scan" /\ t \in want[u]
         /\ call[u] = NoCall /\ pc[a] = "killed" /\ lock[t] = a)
            ~> (lock[t] # a)

\* lock.go:292-294: ForceUnlockWithID removes the lock only when its ID still
\* matches.
ForceUnlockMatchesID ==
    [][\A u \in Unlockers : LET t == call[u].t IN
        (call[u].op = "forceID" /\ call[u].phase = "rm" /\ call'[u] # call[u]
           /\ lock[t] # None /\ lock'[t] = None) => lock[t] = call[u].id]_vars

\* README.md:368-370: a directory that taking the lock created is rolled back
\* when nothing was written.
EmptyDirRolledBack ==
    (\A a \in Applies : pc[a] \in {"start", "done"}) => dir = files
=============================================================================
