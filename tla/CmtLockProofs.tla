---------------------------- MODULE CmtLockProofs ----------------------------
(* Proofs about the project locks, for any number of applies, force-unlocks, *)
(* targets and faults.                                                       *)
EXTENDS CmtLock, TLAPS

\* The states the program starts in satisfy the inductive invariant.
LEMMA InitInv == Init => LockInv
<1> SUFFICES ASSUME Init PROVE LockInv
  OBVIOUS
<1>2. TypeOK
  BY LockAssumption DEF Init, TypeOK, Script, ScriptSteps, Call, NoCall, NoScript, Procs
<1>3. OwnersLock /\ ReleasesOwn /\ UnlockerCalls /\ ScriptsApart /\ HeldByStage
  BY LockAssumption DEF Init, OwnersLock, Owns, ReleasesOwn, UnlockerCalls, ScriptsApart,
         HeldByStage, NoScript, Procs
<1>4. LockAccounted
  BY LockAssumption DEF Init, LockAccounted
<1>5. QED
  BY <1>2, <1>3, <1>4 DEF LockInv

\* A step of a remote acquire script.
LEMMA ScriptInv ==
    ASSUME LockInv, NEW a \in Applies, ScriptStep(a)
    PROVE  LockInv'
<1> USE LockAssumption DEF ScriptStep, ScriptGoes, remote, locals, Fault, NoFault
<1>1. TypeOK'
  <2> USE DEF LockInv, TypeOK, ScriptCheck, ScriptMkdir, ScriptCreate, ScriptWrite, ScriptTest
  <2>1. faults' \in 0..MaxFaults
    OBVIOUS
  <2>4. script' \in [Applies -> Script]
    <3>1. script[a] \in Script
      OBVIOUS
    <3>2. PICK s \in ScriptSteps, m \in BOOLEAN :
            script' = [script EXCEPT ![a] = [step |-> s, t |-> script[a].t, made |-> m]]
      BY <3>1 DEF Script, ScriptSteps
    <3>3. QED
      BY <3>1, <3>2 DEF Script
  <2>2. /\ dir' \subseteq Targets /\ torn' \subseteq Targets /\ files' \subseteq Targets
        /\ lock' \in [Targets -> Applies \cup {None}]
    BY DEF LockInv, TypeOK, Script, ScriptsApart, ScriptCheck, ScriptMkdir,
           ScriptCreate, ScriptWrite, ScriptTest
  <2>3. QED
    BY <2>1, <2>2, <2>4
<1>2. UNCHANGED <<pc, want, held, err, call, forced>>
  OBVIOUS
<1> DEFINE t == script[a].t
<1>3. /\ script[a] \in Script /\ script[a].step # "none"
      /\ t \in Targets /\ t \notin held[a]
      /\ pc[a] \in {"await", "killed"} \/ err[a]
  BY DEF LockInv, TypeOK, ScriptsApart, ScriptCheck, ScriptMkdir, ScriptCreate,
         ScriptWrite, ScriptTest
<1>4. PICK s \in ScriptSteps \ {"none"}, m \in BOOLEAN :
        script' = [script EXCEPT ![a] = [step |-> s, t |-> t, made |-> m]]
  BY <1>3 DEF LockInv, TypeOK, Script, ScriptSteps, ScriptCheck, ScriptMkdir,
              ScriptCreate, ScriptWrite, ScriptTest
<1>5. /\ \A b \in Applies \ {a} : script'[b] = script[b]
      /\ script'[a].step = s /\ script'[a].t = t
  BY <1>4 DEF LockInv, TypeOK
\* The moves of the script; the only lock file it touches is one that was absent.
<1>6. \/ script[a].step \in {"check", "mkdir"} /\ s \notin {"write", "ok"} /\ lock' = lock
      \/ script[a].step = "create" /\ s = "test" /\ lock' = lock
      \/ script[a].step = "create" /\ s = "write" /\ lock[t] = None
            /\ lock' = [lock EXCEPT ![t] = a]
      \/ script[a].step = "write" /\ s \in {"ok", "test"} /\ lock' = lock
      \/ script[a].step = "test" /\ s \in {"held", "exit1"} /\ lock' = lock
  <2> HIDE DEF LockInv
  <2> script \in [Applies -> Script] /\ script'[a].step = s /\ lock \in [Targets -> Applies \cup {None}]
    BY <1>5 DEF LockInv, TypeOK
  <2>1. CASE ScriptCheck(a)
    BY <2>1 DEF ScriptCheck
  <2>2. CASE ScriptMkdir(a)
    BY <1>3, <2>2 DEF ScriptMkdir, Script, ScriptSteps
  <2>3. CASE ScriptCreate(a)
    BY <1>3, <2>3 DEF ScriptCreate, Script, ScriptSteps
  <2>4. CASE ScriptWrite(a)
    BY <1>3, <2>4 DEF ScriptWrite, Script, ScriptSteps
  <2>5. CASE ScriptTest(a)
    BY <2>5 DEF ScriptTest
  <2>6. QED
    BY <2>1, <2>2, <2>3, <2>4, <2>5
<1>7. ReleasesOwn' /\ UnlockerCalls' /\ HeldByStage'
  BY <1>2 DEF LockInv, ReleasesOwn, UnlockerCalls, HeldByStage
<1>8. ScriptsApart'
  BY <1>2, <1>3, <1>5 DEF LockInv, ScriptsApart
<1>9. OwnersLock'
  <2> SUFFICES ASSUME NEW b \in Applies, NEW x \in Targets,
                      Owns(b, x)', x \notin forced'
               PROVE  lock'[x] = b
    BY DEF OwnersLock
  <2>1. CASE b = a /\ x = t /\ s = "write" /\ lock' # lock
    BY <1>6, <2>1 DEF LockInv, TypeOK
  <2>2. CASE ~(b = a /\ x = t /\ s = "write" /\ lock' # lock)
    <3>4. s = "write" => lock' # lock
      BY <1>3, <1>6 DEF LockInv, TypeOK
    <3>5. held'[b] = held[b]
      BY <1>2
    <3>1. Owns(b, x)
      BY <1>5, <1>6, <2>2, <3>4, <3>5 DEF Owns
    <3>2. lock[x] = b
      BY <1>2, <3>1 DEF LockInv, OwnersLock
    <3>3. QED
      BY <1>6, <3>2 DEF LockInv, TypeOK
  <2>3. QED
    BY <2>1, <2>2
<1>10. LockAccounted'
  <2> SUFFICES ASSUME NEW b \in Applies, NEW x \in Targets, lock'[x] = b
               PROVE  \/ x \in held[b] \/ err[b] \/ pc[b] = "killed"
                      \/ pc[b] = "await" /\ script'[b].t = x /\ script'[b].step \in Alive
    BY <1>2 DEF LockAccounted
  <2>1. CASE lock[x] = b /\ b # a
    BY <1>5, <2>1 DEF LockInv, LockAccounted
  <2>2. CASE lock[x] = b /\ b = a
    <3>1. script[a].step \in Alive => s \in Alive
      BY <1>6 DEF Alive
    <3>2. QED
      BY <1>5, <2>2, <3>1 DEF LockInv, LockAccounted
  <2>3. CASE lock[x] # b
    BY <1>3, <1>5, <1>6, <2>3 DEF LockInv, TypeOK, Alive
  <2>4. QED
    BY <2>1, <2>2, <2>3
<1>11. QED
  BY <1>1, <1>7, <1>8, <1>9, <1>10 DEF LockInv

\* A step of an apply between its remote commands.
LEMMA ApplyInv ==
    ASSUME LockInv, NEW a \in Applies, ApplyStep(a)
    PROVE  LockInv'
<1> USE LockAssumption DEF Goes, Fails, remote, locals, Fault, NoFault, Procs
<1>1. CASE StartApply(a)
  <2> USE <1>1 DEF StartApply
  <2>1. TypeOK'
    BY DEF LockInv, TypeOK
  <2>2. OwnersLock' /\ ReleasesOwn' /\ UnlockerCalls'
    BY DEF LockInv, TypeOK, OwnersLock, Owns, ReleasesOwn, UnlockerCalls
  <2>3. ScriptsApart' /\ HeldByStage' /\ LockAccounted'
    BY DEF LockInv, TypeOK, ScriptsApart, HeldByStage, LockAccounted
  <2>4. QED
    BY <2>1, <2>2, <2>3 DEF LockInv
<1>2. CASE Acquire(a)
  <2>1. PICK t \in want[a] \ held[a] :
          \/ /\ script' = [script EXCEPT ![a] =
                             [step |-> "check", t |-> t, made |-> FALSE]]
             /\ pc' = [pc EXCEPT ![a] = "await"] /\ err' = err
             /\ faults' = faults
          \/ /\ script' = script /\ err' = [err EXCEPT ![a] = TRUE]
             /\ pc' = [pc EXCEPT ![a] = "release"]
             /\ faults > 0 /\ faults' = faults - 1
    BY <1>2 DEF Acquire, First
  <2>2. pc[a] = "acquire" /\ UNCHANGED <<remote, locals, call, forced>>
    BY <1>2 DEF Acquire
  <2>3. t \in Targets
    BY <2>1 DEF LockInv, TypeOK
  <2>4. [step |-> "check", t |-> t, made |-> FALSE] \in Script
    BY <2>3 DEF Script, ScriptSteps
  <2>5. script' \in [Applies -> Script]
    BY <2>1, <2>4 DEF LockInv, TypeOK
  <2>6. TypeOK'
    <3>1. pc' \in [Procs -> {"start", "acquire", "await", "critical", "release",
                             "scan", "confirm", "remove", "done", "killed"}]
      BY <2>1 DEF LockInv, TypeOK
    <3>2. err' \in [Applies -> BOOLEAN]
      BY <2>1 DEF LockInv, TypeOK
    <3>3. faults' \in 0..MaxFaults
      BY <2>1 DEF LockInv, TypeOK
    <3>4. QED
      BY <2>2, <2>5, <3>1, <3>2, <3>3 DEF LockInv, TypeOK
  <2>7. OwnersLock' /\ ReleasesOwn' /\ UnlockerCalls'
    BY <2>1, <2>2 DEF LockInv, TypeOK, OwnersLock, Owns, ReleasesOwn, UnlockerCalls
  <2>8. ScriptsApart'
    <3> SUFFICES ASSUME NEW b \in Applies, script'[b].step # "none"
                 PROVE  /\ script'[b].t \in Targets \ held[b]
                        /\ pc'[b] \in {"await", "killed"} \/ err'[b]
      BY <2>2 DEF ScriptsApart
    <3>1. CASE b = a
      BY <2>1, <2>3, <3>1 DEF LockInv, TypeOK, ScriptsApart
    <3>2. CASE b # a
      BY <2>1, <3>2 DEF LockInv, TypeOK, ScriptsApart
    <3>3. QED
      BY <3>1, <3>2
  <2>9. HeldByStage'
    BY <2>1, <2>2 DEF LockInv, TypeOK, HeldByStage
  <2>10. LockAccounted'
    BY <2>1, <2>2 DEF LockInv, TypeOK, LockAccounted, Alive
  <2>11. QED
    BY <2>6, <2>7, <2>8, <2>9, <2>10 DEF LockInv
<1>3. CASE AcquireReply(a)
  <2> USE <1>3 DEF AcquireReply, Acquired, TurnedAway
  <2>1. /\ script[a].step \in {"ok", "held", "exit1"} /\ pc[a] = "await"
        /\ script[a].t \in Targets \ held[a]
        /\ script' = [script EXCEPT ![a] = NoScript]
    BY DEF LockInv, ScriptsApart
  <2>2. held' \in [Applies -> SUBSET Targets]
    BY <2>1 DEF LockInv, TypeOK
  <2>11. made' \in [Applies -> SUBSET Targets]
    BY <2>1 DEF LockInv, TypeOK
  <2>3. script' \in [Applies -> Script]
    BY <2>1 DEF LockInv, TypeOK, Script, ScriptSteps, NoScript
  <2>4. TypeOK'
    BY <2>2, <2>11, <2>3 DEF LockInv, TypeOK
  <2>5. OwnersLock'
    <3> SUFFICES ASSUME NEW b \in Applies, NEW x \in Targets,
                        Owns(b, x)', x \notin forced'
                 PROVE  lock'[x] = b
      BY DEF OwnersLock
    <3>1. Owns(b, x)
      BY <2>1 DEF LockInv, TypeOK, Owns, NoScript
    <3>2. QED
      BY <3>1 DEF LockInv, OwnersLock
  <2>6. ReleasesOwn' /\ UnlockerCalls'
    BY DEF LockInv, TypeOK, ReleasesOwn, UnlockerCalls
  <2>7. ScriptsApart'
    BY DEF LockInv, TypeOK, ScriptsApart, NoScript
  <2>8. HeldByStage'
    BY DEF LockInv, TypeOK, HeldByStage
  <2>9. LockAccounted'
    BY DEF LockInv, TypeOK, LockAccounted, Alive, NoScript
  <2>10. QED
    BY <2>4, <2>5, <2>6, <2>7, <2>8, <2>9 DEF LockInv
<1>4. CASE AcquireLost(a)
  <2> USE <1>4 DEF AcquireLost
  <2>1. TypeOK'
    BY DEF LockInv, TypeOK
  <2>2. OwnersLock' /\ ReleasesOwn' /\ UnlockerCalls'
    BY DEF LockInv, TypeOK, OwnersLock, Owns, ReleasesOwn, UnlockerCalls
  <2>3. ScriptsApart' /\ HeldByStage' /\ LockAccounted'
    BY DEF LockInv, TypeOK, ScriptsApart, HeldByStage, LockAccounted
  <2>4. QED
    BY <2>1, <2>2, <2>3 DEF LockInv
<1>5. CASE WriteProject(a)
  <2> USE <1>5 DEF WriteProject
  <2>1. TypeOK'
    BY DEF LockInv, TypeOK
  <2>2. OwnersLock' /\ ReleasesOwn' /\ UnlockerCalls'
    BY DEF LockInv, TypeOK, OwnersLock, Owns, ReleasesOwn, UnlockerCalls
  <2>3. ScriptsApart' /\ HeldByStage' /\ LockAccounted'
    BY DEF LockInv, TypeOK, ScriptsApart, HeldByStage, LockAccounted
  <2>4. QED
    BY <2>1, <2>2, <2>3 DEF LockInv
<1>6. CASE EndApply(a)
  <2> USE <1>6 DEF EndApply
  <2>1. TypeOK'
    BY DEF LockInv, TypeOK
  <2>2. OwnersLock' /\ ReleasesOwn' /\ UnlockerCalls'
    BY DEF LockInv, TypeOK, OwnersLock, Owns, ReleasesOwn, UnlockerCalls
  <2>3. ScriptsApart' /\ HeldByStage' /\ LockAccounted'
    BY DEF LockInv, TypeOK, ScriptsApart, HeldByStage, LockAccounted
  <2>4. QED
    BY <2>1, <2>2, <2>3 DEF LockInv
<1>7. CASE NextRelease(a)
  <2> USE <1>7 DEF NextRelease
  <2>1. call' \in [Procs -> Call]
    <3>1. CASE call' = call
      BY <3>1 DEF LockInv, TypeOK
    <3>2. ASSUME NEW t \in Targets,
                 call' = [call EXCEPT ![a] = [op |-> "release", phase |-> "exists",
                                              t |-> t, id |-> a]]
          PROVE  call' \in [Procs -> Call]
      BY <3>2 DEF LockInv, TypeOK, Call
    <3>3. QED
      BY <3>1, <3>2
  <2>2. TypeOK'
    BY <2>1 DEF LockInv, TypeOK
  <2>3. ReleasesOwn'
    BY DEF LockInv, TypeOK, First, NoCall, ReleasesOwn
  <2>4. OwnersLock' /\ UnlockerCalls'
    BY DEF LockInv, TypeOK, OwnersLock, Owns, UnlockerCalls
  <2>5. ScriptsApart' /\ HeldByStage' /\ LockAccounted'
    BY DEF LockInv, TypeOK, ScriptsApart, HeldByStage, LockAccounted
  <2>6. QED
    BY <2>2, <2>3, <2>4, <2>5 DEF LockInv
<1>8. QED
  BY <1>1, <1>2, <1>3, <1>4, <1>5, <1>6, <1>7 DEF ApplyStep

\* A step of a force-unlock between its remote commands, and a kill.
LEMMA UnlockInv ==
    ASSUME LockInv, NEW u \in Unlockers, UnlockStep(u)
    PROVE  LockInv'
<1> USE LockAssumption DEF Goes, remote, locals, NoFault, Procs
<1>1. /\ \A a \in Applies : pc'[a] = pc[a] /\ call'[a] = call[a]
      /\ UNCHANGED <<remote, script, locals, err, forced, faults>>
  BY DEF UnlockStep, StartUnlock, NextScan, Confirm, NextUnlock, LockInv, TypeOK
<1>2. pc' \in [Procs -> {"start", "acquire", "await", "critical", "release",
                         "scan", "confirm", "remove", "done", "killed"}]
  BY DEF UnlockStep, StartUnlock, NextScan, Confirm, NextUnlock, LockInv, TypeOK
<1>3. \/ call' = call
      \/ \E t \in Targets, op \in {"read", "forceID", "force"}, id \in Applies \cup {None} :
            call' = [call EXCEPT ![u] = [op |-> op, phase |-> "exists", t |-> t, id |-> id]]
  <2>1. CASE StartUnlock(u) \/ Confirm(u)
    BY <2>1 DEF StartUnlock, Confirm
  <2>2. CASE NextScan(u)
    BY <2>2 DEF NextScan
  <2>3. CASE NextUnlock(u)
    <3>1. ASSUME NEW t \in Targets, seen[u][t] \in Applies,
                 call' = [call EXCEPT ![u] = [op |-> "forceID", phase |-> "exists",
                                              t |-> t, id |-> seen[u][t]]]
          PROVE  \E s \in Targets, op \in {"read", "forceID", "force"}, id \in Applies \cup {None} :
            call' = [call EXCEPT ![u] = [op |-> op, phase |-> "exists", t |-> s, id |-> id]]
      BY <3>1
    <3>2. QED
      BY <2>3, <3>1 DEF NextUnlock, First
  <2>4. QED
    BY <2>1, <2>2, <2>3 DEF UnlockStep
<1>4. call' \in [Procs -> Call] /\ UnlockerCalls'
  <2>1. CASE call' = call
    BY <2>1 DEF LockInv, TypeOK, UnlockerCalls
  <2>2. ASSUME NEW t \in Targets, NEW op \in {"read", "forceID", "force"},
               NEW id \in Applies \cup {None},
               call' = [call EXCEPT ![u] = [op |-> op, phase |-> "exists", t |-> t, id |-> id]]
        PROVE  call' \in [Procs -> Call] /\ UnlockerCalls'
    BY <2>2 DEF LockInv, TypeOK, Call, UnlockerCalls
  <2>3. QED
    BY <1>3, <2>1, <2>2
<1>5. TypeOK'
  BY <1>1, <1>2, <1>4 DEF LockInv, TypeOK
<1>6. OwnersLock' /\ ReleasesOwn'
  BY <1>1 DEF LockInv, OwnersLock, Owns, ReleasesOwn
<1>7. ScriptsApart' /\ HeldByStage' /\ LockAccounted'
  BY <1>1 DEF LockInv, ScriptsApart, HeldByStage, LockAccounted
<1>8. QED
  BY <1>4, <1>5, <1>6, <1>7 DEF LockInv

LEMMA KillInv ==
    ASSUME LockInv, NEW p \in Procs, Kill(p)
    PROVE  LockInv'
<1> USE LockAssumption DEF Kill, Goes, remote, locals, Fault
<1>1. call' \in [Procs -> Call]
  BY DEF LockInv, TypeOK, Call, NoCall
<1>2. TypeOK'
  BY <1>1 DEF LockInv, TypeOK
<1>3. OwnersLock'
  BY DEF LockInv, OwnersLock, Owns
<1>4. ReleasesOwn' /\ UnlockerCalls'
  BY DEF LockInv, TypeOK, Procs, ReleasesOwn, UnlockerCalls
<1>5. ScriptsApart' /\ HeldByStage' /\ LockAccounted'
  BY DEF LockInv, TypeOK, Procs, ScriptsApart, HeldByStage, LockAccounted
<1>6. QED
  BY <1>2, <1>3, <1>4, <1>5 DEF LockInv

\* One remote command of a Release.
LEMMA ReleaseInv ==
    ASSUME LockInv, NEW a \in Applies, CallStep(a)
    PROVE  LockInv'
<1> USE LockAssumption
<1> DEFINE t == call[a].t
           after == IF t \in made[a] THEN [call[a] EXCEPT !.phase = "rmdir"] ELSE NoCall
<1>1. /\ call[a] # NoCall /\ pc[a] = "release" /\ call[a].op = "release"
      /\ t \in Targets /\ call[a].id = a /\ a \in Procs /\ call[a] \in Call
      /\ call[a].phase # "rmdir" => t \in held[a]
  BY DEF LockInv, TypeOK, ReleasesOwn, CallStep, CheckExists, CatLock, RmLock, RmDir, NoCall, Procs
<1>2. UNCHANGED <<script, pc, want, made, seen, force, files>>
  BY <1>1 DEF CallStep, CheckExists, CatLock, RmLock, RmDir, Return, ReturnRelease, ToPhase,
     remote, locals
<1>3. faults' \in 0..MaxFaults
  BY DEF CallStep, CheckExists, CatLock, RmLock, RmDir, Fault, NoFault, LockInv, TypeOK
\* The command leads to the next one ...
<1>4. CASE /\ \E ph \in {"cat", "rm"} : call' = [call EXCEPT ![a].phase = ph]
           /\ call[a].phase # "rmdir"
           /\ UNCHANGED <<held, err, lock, torn, dir, forced>>
  <2>1. PICK ph \in {"cat", "rm"} : call' = [call EXCEPT ![a].phase = ph]
    BY <1>4
  <2>2. call' \in [Procs -> Call]
    BY <1>1, <2>1 DEF LockInv, TypeOK, Call
  <2>3. TypeOK'
    BY <1>2, <1>3, <1>4, <2>2 DEF LockInv, TypeOK
  <2>4. ReleasesOwn'
    BY <1>1, <1>2, <1>4, <2>1 DEF LockInv, TypeOK, Call, ReleasesOwn
  <2>5. UnlockerCalls'
    BY <2>1 DEF LockInv, TypeOK, UnlockerCalls, Procs
  <2>6. OwnersLock' /\ ScriptsApart' /\ HeldByStage' /\ LockAccounted'
    BY <1>2, <1>4 DEF LockInv, OwnersLock, Owns, ScriptsApart, HeldByStage, LockAccounted
  <2>7. QED
    BY <2>3, <2>4, <2>5, <2>6 DEF LockInv
\* ... or ends the release with the lock gone, or with an error ...
<1>5. CASE /\ held' = [held EXCEPT ![a] = @ \ {t}]
           /\ err' = err \/ err' = [err EXCEPT ![a] = TRUE]
           /\ call' = [call EXCEPT ![a] = after]
           /\ lock' = lock \/ (lock' = [lock EXCEPT ![t] = None] /\ t \in held[a])
           /\ lock'[t] = None \/ err'[a]
           /\ torn' \subseteq torn
           /\ UNCHANGED <<dir, forced>>
  <2>1. after \in Call /\ (after = NoCall \/ (after.op = "release" /\ after.t = t
                             /\ after.id = a /\ after.phase = "rmdir"))
    BY <1>1 DEF Call, NoCall
  <2>2. TypeOK'
    <3>1. held' \in [Applies -> SUBSET Targets] /\ err' \in [Applies -> BOOLEAN]
      BY <1>5 DEF LockInv, TypeOK
    <3>2. lock' \in [Targets -> Applies \cup {None}] /\ torn' \subseteq Targets
      BY <1>5 DEF LockInv, TypeOK
    <3>3. call' \in [Procs -> Call]
      BY <1>5, <2>1 DEF LockInv, TypeOK
    <3>4. QED
      BY <1>2, <1>3, <1>5, <3>1, <3>2, <3>3 DEF LockInv, TypeOK
  <2>3. ReleasesOwn'
    <3> SUFFICES ASSUME NEW b \in Applies, call'[b] # NoCall
                 PROVE  /\ pc'[b] = "release" /\ call'[b].op = "release"
                        /\ call'[b].t \in Targets /\ call'[b].id = b
                        /\ call'[b].phase \in {"exists", "cat", "rm", "rmdir"}
                        /\ call'[b].phase # "rmdir" => call'[b].t \in held'[b]
      BY DEF ReleasesOwn
    <3>1. CASE b = a
      BY <1>1, <1>2, <1>5, <2>1, <3>1 DEF LockInv, TypeOK
    <3>2. CASE b # a
      BY <1>2, <1>5, <3>2 DEF LockInv, TypeOK, ReleasesOwn, Procs
    <3>3. QED
      BY <3>1, <3>2
  <2>4. UnlockerCalls'
    BY <1>5 DEF LockInv, TypeOK, UnlockerCalls, Procs
  <2>5. OwnersLock'
    <3> SUFFICES ASSUME NEW b \in Applies, NEW x \in Targets, Owns(b, x)', x \notin forced'
                 PROVE  lock'[x] = b
      BY DEF OwnersLock
    <3>1. Owns(b, x) /\ lock[x] = b
      BY <1>2, <1>5 DEF LockInv, TypeOK, OwnersLock, Owns
    <3>2. CASE lock' # lock /\ x = t
      <4>1. b = a /\ t \in held[a]
        BY <1>1, <1>5, <3>1, <3>2 DEF LockInv, OwnersLock, Owns
      <4>2. t \notin held'[a] /\ script'[a].t # t
        BY <1>2, <1>5, <4>1, <3>1, <3>2 DEF LockInv, TypeOK, ScriptsApart, Owns
      <4>3. QED
        BY <3>2, <4>1, <4>2 DEF Owns
    <3>3. CASE lock' = lock \/ x # t
      BY <1>5, <3>1, <3>3 DEF LockInv, TypeOK
    <3>4. QED
      BY <3>2, <3>3
  <2>6. ScriptsApart' /\ HeldByStage'
    BY <1>1, <1>2, <1>5 DEF LockInv, TypeOK, ScriptsApart, HeldByStage
  <2>7. LockAccounted'
    <3> SUFFICES ASSUME NEW b \in Applies, NEW x \in Targets, lock'[x] = b
                 PROVE  \/ x \in held'[b] \/ err'[b] \/ pc'[b] = "killed"
                        \/ pc'[b] = "await" /\ script'[b].t = x /\ script'[b].step \in Alive
      BY DEF LockAccounted
    <3>1. lock[x] = b
      BY <1>5 DEF LockInv, TypeOK
    <3>2. \/ x \in held[b] \/ err[b] \/ pc[b] = "killed"
          \/ pc[b] = "await" /\ script[b].t = x /\ script[b].step \in Alive
      BY <3>1 DEF LockInv, LockAccounted
    <3>3. CASE b = a /\ x = t
      BY <1>5, <3>3
    <3>4. CASE ~(b = a /\ x = t)
      BY <1>2, <1>5, <3>2, <3>4 DEF LockInv, TypeOK
    <3>5. QED
      BY <3>3, <3>4
  <2>8. QED
    BY <2>2, <2>3, <2>4, <2>5, <2>6, <2>7 DEF LockInv
\* ... or was the roll-back of the directory.
<1>6. CASE RmDir(a)
  <2>1. /\ call' = [call EXCEPT ![a] = NoCall] /\ dir' \subseteq dir
        /\ UNCHANGED <<held, err, lock, torn, forced>>
    BY <1>6 DEF RmDir, locals
  <2>2. call' \in [Procs -> Call]
    BY <2>1 DEF LockInv, TypeOK, Call, NoCall
  <2>3. TypeOK'
    BY <1>2, <1>3, <2>1, <2>2 DEF LockInv, TypeOK
  <2>4. ReleasesOwn' /\ UnlockerCalls'
    BY <1>2, <2>1 DEF LockInv, TypeOK, ReleasesOwn, UnlockerCalls, Procs
  <2>5. OwnersLock' /\ ScriptsApart' /\ HeldByStage' /\ LockAccounted'
    BY <1>2, <2>1 DEF LockInv, OwnersLock, Owns, ScriptsApart, HeldByStage, LockAccounted
  <2>6. QED
    BY <2>3, <2>4, <2>5 DEF LockInv
<1>7. CASE CheckExists(a)
  <2>1. CASE NoFault /\ lock[t] # None /\ ToPhase(a, "cat") /\ UNCHANGED <<remote, forced>>
    BY <1>4, <1>7, <2>1 DEF ToPhase, remote, locals, CheckExists
  <2>2. QED
    BY <1>1, <1>5, <1>7, <2>1 DEF CheckExists, Return, ReturnRelease, remote, LockInv, TypeOK, Fails
<1>8. CASE CatLock(a)
  <2>1. CASE ToPhase(a, "rm") /\ UNCHANGED <<remote, forced>>
    BY <1>4, <1>8, <2>1 DEF ToPhase, remote, locals, CatLock
  <2>2. CASE Return(a, Unreadable) /\ UNCHANGED <<remote, forced>>
    BY <1>1, <1>5, <2>2 DEF Return, ReturnRelease, remote, LockInv, TypeOK, Fails
  <2>3. QED
    BY <1>1, <1>8, <2>1, <2>2 DEF CatLock
<1>9. CASE RmLock(a)
  <2>1. /\ forced' = forced /\ dir' = dir /\ t \in held[a] /\ torn' \subseteq torn
        /\ lock' = lock \/ lock' = [lock EXCEPT ![t] = None]
    BY <1>1, <1>9 DEF RmLock, RemoveFile
  <2>2. CASE RemoveFile(t) /\ (Return(a, None) \/ Return(a, Unreadable))
    BY <1>1, <1>5, <2>1, <2>2 DEF RemoveFile, Return, ReturnRelease, LockInv, TypeOK, Fails
  <2>3. CASE Return(a, Unreadable) /\ UNCHANGED lock
    BY <1>1, <1>5, <2>1, <2>3 DEF Return, ReturnRelease, LockInv, TypeOK, Fails
  <2>4. QED
    BY <1>9, <2>2, <2>3 DEF RmLock
<1>10. QED
  BY <1>6, <1>7, <1>8, <1>9 DEF CallStep

\* One remote command of a force-unlock, of its scan or of its removals.
LEMMA ForceInv ==
    ASSUME LockInv, NEW u \in Unlockers, CallStep(u)
    PROVE  LockInv'
<1> USE LockAssumption
<1> DEFINE t == call[u].t
<1>1. /\ call[u] # NoCall /\ call[u].op \in {"read", "forceID", "force"}
      /\ t \in Targets /\ u \in Procs /\ u \notin Applies /\ call[u] \in Call
      /\ call[u].phase \in {"exists", "cat", "rm"}
  BY DEF LockInv, TypeOK, UnlockerCalls, CallStep, CheckExists, CatLock, RmLock, RmDir, NoCall, Procs
<1>2. /\ UNCHANGED <<script, pc, held, made, err, force, dir, files>>
      /\ \/ call' = [call EXCEPT ![u] = NoCall]
         \/ \E ph \in {"cat", "rm"} : call' = [call EXCEPT ![u].phase = ph]
  BY <1>1 DEF CallStep, CheckExists, CatLock, RmLock, RmDir, Return, ReturnRead, ReturnForce,
     ToPhase, remote, locals
<1>3. call' \in [Procs -> Call] /\ UnlockerCalls'
  <2>1. /\ call'[u] \in Call
        /\ call'[u] # NoCall =>
              /\ call'[u].op \in {"read", "forceID", "force"}
              /\ call'[u].t \in Targets
              /\ call'[u].phase \in {"exists", "cat", "rm"}
    <3>1. NoCall \in Call
      BY DEF Call, NoCall
    <3>2. CASE call' = [call EXCEPT ![u] = NoCall]
      BY <1>1, <3>1, <3>2 DEF LockInv, TypeOK
    <3>3. ASSUME NEW ph \in {"cat", "rm"}, call' = [call EXCEPT ![u].phase = ph]
          PROVE  /\ call'[u] \in Call /\ call'[u].op = call[u].op
                 /\ call'[u].t = t /\ call'[u].phase = ph
      BY <1>1, <3>3 DEF LockInv, TypeOK, Call
    <3>4. QED
      BY <1>1, <1>2, <3>2, <3>3
  <2>2. /\ call' = [call EXCEPT ![u] = call'[u]]
        /\ \A p \in Procs \ {u} : call'[p] = call[p]
    BY <1>1, <1>2 DEF LockInv, TypeOK
  <2>3. call' \in [Procs -> Call]
    BY <2>1, <2>2 DEF LockInv, TypeOK
  <2>4. QED
    BY <2>1, <2>2, <2>3 DEF LockInv, UnlockerCalls, Procs
<1>11. \A a \in Applies : call'[a] = call[a] /\ want'[a] = want[a]
  <2>1. want' = want \/ want' = [want EXCEPT ![u] = @ \ {t}]
    BY <1>1 DEF CallStep, CheckExists, CatLock, RmLock, RmDir, Return, ReturnRead, ReturnForce,
       ToPhase, locals
  <2>2. \A a \in Applies : want'[a] = want[a]
    BY <1>1, <2>1 DEF LockInv, TypeOK, Procs
  <2>3. \A a \in Applies : call'[a] = call[a]
    BY <1>1, <1>2 DEF LockInv, TypeOK, Procs
  <2>4. QED
    BY <2>2, <2>3
\* A lock that is removed was there, and its target is recorded as forced.
<1>4. \/ UNCHANGED <<lock, torn, forced>>
      \/ /\ lock' = [lock EXCEPT ![t] = None] /\ torn' \subseteq torn
         /\ forced' = IF lock[t] # None THEN forced \cup {t} ELSE forced
  <2>1. CASE CheckExists(u) \/ CatLock(u) \/ RmDir(u)
    BY <1>1, <2>1 DEF CheckExists, CatLock, RmDir, remote
  <2>2. CASE RmLock(u)
    BY <2>2 DEF RmLock, RemoveFile
  <2>3. QED
    BY <2>1, <2>2 DEF CallStep
<1>5. TypeOK'
  <2>1. faults' \in 0..MaxFaults
    BY DEF CallStep, CheckExists, CatLock, RmLock, RmDir, Fault, NoFault, LockInv, TypeOK
  <2>2. want' \in [Procs -> SUBSET Targets]
    <3>1. want' = want \/ want' = [want EXCEPT ![u] = @ \ {t}]
      BY <1>1 DEF CallStep, CheckExists, CatLock, RmLock, RmDir, Return, ReturnRead, ReturnForce,
         ToPhase, locals
    <3>2. QED
      BY <1>1, <3>1 DEF LockInv, TypeOK
  <2>3. seen' \in [Unlockers -> [Targets -> Applies \cup {None, Unreadable}]]
    <3>1. seen' = seen \/ \E x \in Applies \cup {None, Unreadable} :
                             seen' = [seen EXCEPT ![u][t] = x]
      <4>1. ASSUME NEW x \in Applies \cup {None, Unreadable}, Return(u, x)
            PROVE  seen' = seen \/ seen' = [seen EXCEPT ![u][t] = x]
                                \/ seen' = [seen EXCEPT ![u][t] = None]
        BY <1>1, <4>1 DEF Return, ReturnRead, ReturnForce
      <4>2. ASSUME NEW ph, ToPhase(u, ph) PROVE seen' = seen
        BY <4>2 DEF ToPhase, locals
      <4>3. lock[t] \in Applies \cup {None}
        BY <1>1 DEF LockInv, TypeOK
      <4>4. CASE CheckExists(u)
        BY <4>1, <4>2, <4>4 DEF CheckExists
      <4>5. CASE CatLock(u)
        BY <4>1, <4>2, <4>3, <4>5 DEF CatLock
      <4>6. CASE RmLock(u)
        BY <4>1, <4>6 DEF RmLock
      <4>7. QED
        BY <1>1, <4>4, <4>5, <4>6 DEF CallStep, RmDir
    <3>2. \A x \in Applies \cup {None, Unreadable} :
             [seen[u] EXCEPT ![t] = x] \in [Targets -> Applies \cup {None, Unreadable}]
      BY <1>1 DEF LockInv, TypeOK
    <3>3. ASSUME NEW x \in Applies \cup {None, Unreadable}, seen' = [seen EXCEPT ![u][t] = x]
          PROVE  seen' \in [Unlockers -> [Targets -> Applies \cup {None, Unreadable}]]
      <4>1. seen' = [seen EXCEPT ![u] = [seen[u] EXCEPT ![t] = x]]
        BY <3>3
      <4>2. QED
        BY <3>2, <4>1 DEF LockInv, TypeOK
    <3>4. QED
      BY <3>1, <3>3 DEF LockInv, TypeOK
  <2>4. lock' \in [Targets -> Applies \cup {None}] /\ torn' \subseteq Targets /\ forced' \subseteq Targets
    BY <1>1, <1>4 DEF LockInv, TypeOK
  <2>5. QED
    BY <1>2, <1>3, <2>1, <2>2, <2>3, <2>4 DEF LockInv, TypeOK
<1>6. ReleasesOwn'
  BY <1>2, <1>11 DEF LockInv, ReleasesOwn
<1>7. OwnersLock'
  BY <1>1, <1>2, <1>4 DEF LockInv, TypeOK, OwnersLock, Owns
<1>8. ScriptsApart' /\ HeldByStage'
  BY <1>2, <1>11 DEF LockInv, ScriptsApart, HeldByStage
<1>9. LockAccounted'
  BY <1>1, <1>2, <1>4 DEF LockInv, TypeOK, LockAccounted
<1>10. QED
  BY <1>3, <1>5, <1>6, <1>7, <1>8, <1>9 DEF LockInv

\* Every step of the system preserves the invariant.
LEMMA NextInv == LockInv /\ [Next]_vars => LockInv'
<1> SUFFICES ASSUME LockInv, [Next]_vars PROVE LockInv'
  OBVIOUS
<1>1. CASE UNCHANGED vars
  BY <1>1 DEF vars, remote, locals, LockInv, TypeOK, OwnersLock, Owns, ReleasesOwn,
     UnlockerCalls, ScriptsApart, HeldByStage, LockAccounted
<1>2. CASE Next
  BY <1>2, ScriptInv, ApplyInv, UnlockInv, KillInv, ReleaseInv, ForceInv DEF Next, Procs
<1>3. QED
  BY <1>1, <1>2

\* What is stored where, in every reachable state.
THEOREM TypeCorrect == Spec => []TypeOK
<1>1. LockInv => TypeOK
  BY DEF LockInv
<1>2. QED
  BY <1>1, InitInv, NextInv, PTL DEF Spec

\* No two applies at work share a project that was not force-unlocked, in
\* particular after a step.
LEMMA ExclusionInv == LockInv => MutualExclusion
<1> SUFFICES ASSUME LockInv, NEW a \in Applies, NEW b \in Applies, a # b,
                    pc[a] = "critical", pc[b] = "critical",
                    NEW t \in want[a] \cap want[b], t \notin forced
             PROVE  FALSE
  BY DEF MutualExclusion
<1>1. t \in Targets /\ t \in held[a] /\ t \in held[b]
  BY DEF LockInv, TypeOK, HeldByStage, Procs
<1>2. lock[t] = a /\ lock[t] = b
  BY <1>1 DEF LockInv, OwnersLock, Owns
<1>3. QED
  BY <1>2

\* Two applies never work on one project at the same time unless that project
\* was force-unlocked: for any number of machines, projects, ssh failures, lost
\* answers and kills.
THEOREM Exclusion == Spec => []MutualExclusion
BY InitInv, NextInv, ExclusionInv, PTL DEF Spec

\* An apply that reports success has left no lock of its own behind.
THEOREM NoSilentLeak == Spec => []LeakSurfaced
<1>1. LockInv => LeakSurfaced
  <2> SUFFICES ASSUME LockInv, NEW a \in Applies, pc[a] = "done", ~err[a],
                      NEW t \in Targets, lock[t] = a
               PROVE  FALSE
    BY DEF LeakSurfaced
  <2>1. t \in held[a]
    BY DEF LockInv, LockAccounted
  <2>2. QED
    BY <2>1 DEF LockInv, HeldByStage
<1>2. QED
  BY <1>1, InitInv, NextInv, PTL DEF Spec

\* Locks are created in directories, and a roll-back spares those with a lock.
LEMMA HaveDirStep ==
    ASSUME LockInv, LocksHaveDir, [Next]_vars
    PROVE  LocksHaveDir'
<1> USE LockAssumption DEF LocksHaveDir, remote, locals
<1>1. ASSUME lock' = lock, dir \subseteq dir' PROVE LocksHaveDir'
  BY <1>1
<1>2. CASE UNCHANGED vars
  BY <1>1, <1>2 DEF vars
<1>3. ASSUME NEW a \in Applies, ScriptStep(a) PROVE LocksHaveDir'
  <2>1. CASE ScriptCheck(a) \/ ScriptMkdir(a) \/ ScriptWrite(a) \/ ScriptTest(a)
    BY <1>1, <2>1 DEF ScriptCheck, ScriptMkdir, ScriptWrite, ScriptTest
  <2>2. CASE ScriptCreate(a)
    BY <2>2 DEF ScriptCreate, LockInv, TypeOK
  <2>3. QED
    BY <1>3, <2>1, <2>2 DEF ScriptStep
<1>4. ASSUME NEW a \in Applies, ApplyStep(a) PROVE LocksHaveDir'
  BY <1>1, <1>4 DEF ApplyStep, StartApply, Acquire, AcquireReply, AcquireLost,
     WriteProject, EndApply, NextRelease
<1>5. ASSUME NEW u \in Unlockers, UnlockStep(u) PROVE LocksHaveDir'
  BY <1>1, <1>5 DEF UnlockStep, StartUnlock, NextScan, Confirm, NextUnlock
<1>6. ASSUME NEW p \in Procs, CallStep(p) PROVE LocksHaveDir'
  <2>1. CASE CheckExists(p) \/ CatLock(p)
    BY <1>1, <2>1 DEF CheckExists, CatLock
  <2>2. CASE RmLock(p)
    BY <2>2 DEF RmLock, RemoveFile, LockInv, TypeOK
  <2>3. CASE RmDir(p)
    BY <2>3 DEF RmDir
  <2>4. QED
    BY <1>6, <2>1, <2>2, <2>3 DEF CallStep
<1>7. ASSUME NEW p \in Procs, Kill(p) PROVE LocksHaveDir'
  BY <1>1, <1>7 DEF Kill
<1>8. QED
  BY <1>2, <1>3, <1>4, <1>5, <1>6, <1>7 DEF Next

\* What LocksHeld says of one apply, and of the lock of one target.
Waited(a) == script[a].step # "none" => pc[a] = "await"
Accounted(a, t) ==
    \/ t \in held[a] \ torn
    \/ /\ script[a].t = t
       /\ script[a].step = "write" \/ (script[a].step = "ok" /\ t \notin torn)

\* Applies do not start again, and only a reply makes one hold a lock.
LEMMA StartStep ==
    ASSUME LockInv, LocksHeld, [Next]_vars, NEW a \in Applies, pc'[a] = "start"
    PROVE  held'[a] = {}
<1> USE LockAssumption DEF remote, locals
<1> DEFINE S == pc[a] = "start" /\ held'[a] \subseteq held[a]
<1>1. S => held'[a] = {}
  BY DEF LocksHeld
<1>2. CASE UNCHANGED vars
  BY <1>1, <1>2 DEF vars
<1>3. ASSUME NEW b \in Applies, ScriptStep(b) PROVE S
  BY <1>3 DEF ScriptStep
<1>4. ASSUME NEW b \in Applies, ApplyStep(b) PROVE S
  <2>1. CASE AcquireReply(b)
    BY <2>1 DEF AcquireReply, Acquired, TurnedAway, Goes, LockInv, TypeOK, Procs
  <2>2. CASE StartApply(b) \/ Acquire(b) \/ AcquireLost(b) \/ EndApply(b)
    BY <2>2 DEF StartApply, Acquire, AcquireLost, EndApply, Goes, LockInv, TypeOK, Procs
  <2>3. CASE WriteProject(b) \/ NextRelease(b)
    BY <2>3 DEF WriteProject, NextRelease, Goes, LockInv, TypeOK, Procs
  <2>4. QED
    BY <1>4, <2>1, <2>2, <2>3 DEF ApplyStep
<1>5. ASSUME NEW u \in Unlockers, UnlockStep(u) PROVE S
  <2>1. held' = held /\ u # a /\ a \in Procs
    BY <1>5 DEF UnlockStep, StartUnlock, NextScan, Confirm, NextUnlock, Procs
  <2>2. pc' = pc \/ \E w \in {"scan", "done", "confirm", "remove"} : pc' = [pc EXCEPT ![u] = w]
    BY <1>5 DEF UnlockStep, StartUnlock, NextScan, Confirm, NextUnlock, Goes
  <2>3. QED
    BY <2>1, <2>2 DEF LockInv, TypeOK
<1>6. ASSUME NEW p \in Procs, CallStep(p) PROVE S
  <2>1. pc' = pc
    BY <1>6 DEF CallStep
  <2>2. held' = held \/ \E t : held' = [held EXCEPT ![p] = @ \ {t}]
    BY <1>6 DEF CallStep, CheckExists, CatLock, RmLock, RmDir, Return, ReturnRelease,
       ReturnRead, ReturnForce, ToPhase
  <2>3. QED
    BY <2>1, <2>2 DEF LockInv, TypeOK
<1>7. ASSUME NEW p \in Procs, Kill(p) PROVE S
  BY <1>7 DEF Kill, Goes, LockInv, TypeOK, Procs
<1>8. QED
  BY <1>1, <1>2, <1>3, <1>4, <1>5, <1>6, <1>7 DEF Next

\* A step that is no fault.
LEMMA Faultless ==
    ASSUME LockInv, [Next]_vars, faults' = MaxFaults
    PROVE  faults = MaxFaults /\ ~Fault
<1>1. faults \in 0..MaxFaults /\ MaxFaults \in Nat
  BY LockAssumption DEF LockInv, TypeOK
<1>2. Fault => FALSE
  BY <1>1 DEF Fault
<1>3. faults' = faults \/ Fault
  BY DEF Next, vars, ScriptStep, ScriptCheck, ScriptMkdir, ScriptCreate, ScriptWrite,
     ScriptTest, ApplyStep, StartApply, Acquire, AcquireReply, AcquireLost, WriteProject,
     EndApply, NextRelease, UnlockStep, StartUnlock, NextScan, Confirm, NextUnlock,
     CallStep, CheckExists, CatLock, RmLock, RmDir, Kill, NoFault
<1>4. QED
  BY <1>2, <1>3

\* Without a fault, whoever leaves a lock file behind still has it.
LEMMA HeldStep ==
    ASSUME LockInv, LocksHeld, [Next]_vars, faults' = MaxFaults, NEW a \in Applies
    PROVE  Waited(a)' /\ \A t \in Targets : lock'[t] = a => Accounted(a, t)'
<1> USE LockAssumption DEF remote, locals
<1>1. faults' = faults /\ ~Fault
  BY Faultless
<1>2. Waited(a) /\ \A t \in Targets : lock[t] = a => Accounted(a, t)
  BY <1>1 DEF LocksHeld, Accounted, Waited
<1>3. \A t \in Targets : t \in held[a] => ~(script[a].t = t /\ script[a].step # "none")
  BY DEF LockInv, ScriptsApart
<1>4. /\ None # a /\ lock \in [Targets -> Applies \cup {None}] /\ torn \subseteq Targets
      /\ script \in [Applies -> Script] /\ held \in [Applies -> SUBSET Targets]
      /\ pc \in [Procs -> {"start", "acquire", "await", "critical", "release",
                           "scan", "confirm", "remove", "done", "killed"}]
  BY DEF LockInv, TypeOK
<1> DEFINE Holds == Waited(a)' /\ \A t \in Targets : lock'[t] = a => Accounted(a, t)'
<1>5. ASSUME lock' = lock, torn' = torn, held'[a] = held[a], pc'[a] = pc[a], script'[a] = script[a]
      PROVE  Holds
  BY <1>2, <1>5 DEF Accounted, Waited
<1>6. CASE UNCHANGED vars
  BY <1>5, <1>6 DEF vars
<1>7. ASSUME NEW b \in Applies, ScriptStep(b) PROVE Holds
  <2>1. pc' = pc /\ held' = held
    BY <1>7 DEF ScriptStep
  <2>2. script[b].step # "none" /\ \E s \in ScriptSteps, m \in BOOLEAN :
          script' = [script EXCEPT ![b] = [step |-> s, t |-> script[b].t, made |-> m]]
    BY <1>4, <1>7 DEF ScriptStep, ScriptCheck, ScriptMkdir, ScriptCreate, ScriptWrite,
       ScriptTest, ScriptGoes, Script, ScriptSteps
  <2>3. Waited(a)'
    BY <1>2, <1>4, <2>1, <2>2 DEF Waited
  <2> SUFFICES ASSUME NEW t \in Targets, lock'[t] = a PROVE Accounted(a, t)'
    BY <2>3
  <2>4. CASE ScriptCheck(b)
    BY <1>2, <1>4, <2>1, <2>4 DEF ScriptCheck, ScriptGoes, Accounted
  <2>5. CASE ScriptMkdir(b)
    BY <1>1, <1>2, <1>4, <2>1, <2>5 DEF ScriptMkdir, ScriptGoes, Accounted
  <2>6. CASE ScriptTest(b)
    BY <1>2, <1>4, <2>1, <2>6 DEF ScriptTest, ScriptGoes, Accounted
  <2>7. CASE ScriptCreate(b)
    <3>1. CASE lock' = lock
      BY <1>2, <1>4, <2>1, <2>7, <3>1 DEF ScriptCreate, ScriptGoes, Accounted
    <3>2. CASE lock' # lock /\ a = b /\ t = script[b].t
      BY <1>4, <2>7, <3>2 DEF ScriptCreate, ScriptGoes, Script, Accounted
    <3>3. CASE lock' # lock /\ ~(a = b /\ t = script[b].t)
      <4>1. lock[t] = a /\ t # script[b].t
        BY <1>4, <2>7, <3>3 DEF ScriptCreate
      <4>2. /\ torn' = torn \cup {script[b].t} /\ script' = [script EXCEPT ![b].step = "write"]
            /\ script[b].step = "create"
        BY <2>7, <3>3 DEF ScriptCreate, ScriptGoes
      <4>3. QED
        BY <1>2, <1>4, <2>1, <4>1, <4>2 DEF Accounted
    <3>4. QED
      BY <3>1, <3>2, <3>3
  <2>8. CASE ScriptWrite(b)
    <3>1. /\ lock' = lock /\ torn' \subseteq torn
          /\ torn' = IF lock[script[b].t] = b THEN torn \ {script[b].t} ELSE torn
          /\ script[b].step = "write" /\ script' = [script EXCEPT ![b].step = "ok"]
      BY <1>1, <2>8 DEF ScriptWrite, ScriptGoes
    <3>2. Accounted(a, t)
      BY <1>2, <3>1
    <3>3. CASE t \in held[a] \ torn
      BY <2>1, <3>1, <3>3 DEF Accounted
    <3>4. CASE a # b
      BY <1>4, <2>1, <3>1, <3>2, <3>4 DEF Accounted
    <3>5. CASE a = b /\ script[a].t = t
      <4>1. t \notin torn' /\ script'[a].step = "ok" /\ script'[a].t = t
        BY <1>4, <3>1, <3>5
      <4>2. QED
        BY <4>1 DEF Accounted
    <3>6. QED
      BY <3>2, <3>3, <3>4, <3>5 DEF Accounted
  <2>9. QED
    BY <1>7, <2>4, <2>5, <2>6, <2>7, <2>8 DEF ScriptStep
<1>8. ASSUME NEW b \in Applies, ApplyStep(b) PROVE Holds
  <2>1. CASE StartApply(b) \/ WriteProject(b) \/ EndApply(b) \/ NextRelease(b)
    <3>1. /\ UNCHANGED <<lock, torn, held, script>> /\ pc[b] # "await"
          /\ \/ pc' = pc
             \/ \E w \in {"acquire", "release", "done"} : pc' = [pc EXCEPT ![b] = w]
      BY <2>1 DEF StartApply, WriteProject, EndApply, NextRelease, Goes
    <3>2. QED
      BY <1>2, <1>4, <3>1 DEF Accounted, Waited, Procs
  <2>2. CASE Acquire(b)
    <3>1. PICK t \in Targets : script' = [script EXCEPT ![b] =
                                 [step |-> "check", t |-> t, made |-> FALSE]]
      BY <1>1, <2>2 DEF Acquire
    <3>2. /\ UNCHANGED <<lock, torn, held>> /\ pc[b] = "acquire"
          /\ pc' = [pc EXCEPT ![b] = "await"]
      BY <1>1, <2>2 DEF Acquire, Goes
    <3>3. QED
      BY <1>2, <1>4, <3>1, <3>2 DEF Accounted, Waited, Procs
  <2>3. CASE AcquireReply(b) /\ Acquired(b)
    <3>1. /\ UNCHANGED <<lock, torn>> /\ script[b].step = "ok"
          /\ script' = [script EXCEPT ![b] = NoScript]
          /\ held' = [held EXCEPT ![b] = @ \cup {script[b].t}]
          /\ \E w : pc' = [pc EXCEPT ![b] = w]
      BY <2>3 DEF AcquireReply, Acquired, Goes
    <3>2. QED
      BY <1>2, <1>4, <3>1 DEF Accounted, Waited, Procs, NoScript
  <2>4. CASE AcquireReply(b) /\ TurnedAway(b, "release")
    <3>1. /\ UNCHANGED <<lock, torn, held>> /\ script[b].step \in {"held", "exit1"}
          /\ script' = [script EXCEPT ![b] = NoScript]
          /\ pc' = [pc EXCEPT ![b] = "release"]
      BY <2>4 DEF AcquireReply, TurnedAway, Goes
    <3>2. QED
      BY <1>2, <1>4, <3>1 DEF Accounted, Waited, Procs, NoScript
  <2>5. QED
    BY <1>1, <1>8, <2>1, <2>2, <2>3, <2>4 DEF ApplyStep, AcquireReply, AcquireLost
<1>9. ASSUME NEW u \in Unlockers, UnlockStep(u) PROVE Holds
  <2>1. UNCHANGED <<lock, torn, held, script>> /\ u # a /\ a \in Procs
    BY <1>9 DEF UnlockStep, StartUnlock, NextScan, Confirm, NextUnlock, Procs
  <2>2. pc' = pc \/ \E w : pc' = [pc EXCEPT ![u] = w]
    BY <1>9 DEF UnlockStep, StartUnlock, NextScan, Confirm, NextUnlock, Goes
  <2>3. QED
    BY <1>4, <1>5, <2>1, <2>2
\* A release that meets no fault returns when the lock is gone or not its own.
<1>10. ASSUME NEW b \in Applies, CallStep(b) PROVE Holds
  <2> DEFINE x == call[b].t
  <2>1. /\ script' = script /\ pc' = pc /\ call[b].op = "release" /\ x \in Targets
        /\ call[b].id = b /\ (call[b].phase # "rmdir" => x \in held[b])
    BY <1>10 DEF CallStep, CheckExists, CatLock, RmLock, RmDir, LockInv, ReleasesOwn, NoCall
  <2>2. Waited(a)'
    BY <1>2, <2>1 DEF Waited
  <2>3. ASSUME UNCHANGED <<lock, torn, held>> PROVE Holds
    BY <1>5, <2>1, <2>3
  <2>4. ASSUME held' = [held EXCEPT ![b] = @ \ {x}], lock'[x] # b, torn' \subseteq torn,
               \A t \in Targets \ {x} : lock'[t] = lock[t], lock'[x] \in {lock[x], None}
        PROVE  Holds
    <3> SUFFICES ASSUME NEW t \in Targets, lock'[t] = a PROVE Accounted(a, t)'
      BY <2>2
    <3>1. lock[t] = a /\ ~(t = x /\ a = b)
      BY <1>4, <2>4
    <3>2. QED
      BY <1>2, <1>4, <2>1, <2>4, <3>1 DEF Accounted
  <2>5. CASE CheckExists(b)
    <3>1. UNCHANGED remote
      BY <2>5 DEF CheckExists
    <3>2. CASE lock[x] = None
      <4>1. held' = [held EXCEPT ![b] = @ \ {x}]
        BY <1>1, <2>1, <2>5, <3>2 DEF CheckExists, Return, ReturnRelease
      <4>2. QED
        BY <2>4, <3>1, <3>2, <4>1, <1>4
    <3>3. CASE lock[x] # None
      BY <1>1, <2>3, <2>5, <3>1, <3>3 DEF CheckExists, ToPhase
    <3>4. QED
      BY <3>2, <3>3
  <2>6. CASE CatLock(b)
    <3>1. UNCHANGED remote /\ x \in held[b]
      BY <2>1, <2>6 DEF CatLock
    <3>2. CASE lock[x] = b
      <4>1. x \notin torn
        BY <1>1, <1>3, <2>1, <3>1, <3>2 DEF LocksHeld, LockInv, ScriptsApart
      <4>2. b # None
        BY DEF LockInv
      <4>3. ToPhase(b, "rm")
        BY <1>1, <2>1, <2>6, <3>2, <4>1, <4>2 DEF CatLock
      <4>4. QED
        BY <2>3, <3>1, <4>3 DEF ToPhase
    <3>3. CASE lock[x] # b
      <4>1. b # Unreadable
        OBVIOUS
      <4>2. Return(b, Unreadable)
        BY <1>1, <2>1, <2>6, <3>3, <4>1 DEF CatLock
      <4>3. held' = [held EXCEPT ![b] = @ \ {x}]
        BY <2>1, <4>2 DEF Return, ReturnRelease
      <4>4. QED
        BY <2>4, <3>1, <3>3, <4>3
    <3>4. QED
      BY <3>2, <3>3
  <2>7. CASE RmLock(b)
    <3>1. lock' = [lock EXCEPT ![x] = None] /\ torn' = torn \ {x} /\ Return(b, None)
      BY <1>1, <2>7 DEF RmLock, RemoveFile
    <3>2. held' = [held EXCEPT ![b] = @ \ {x}]
      BY <2>1, <3>1 DEF Return, ReturnRelease
    <3>3. b # None
      OBVIOUS
    <3>4. QED
      BY <1>4, <2>1, <2>4, <3>1, <3>2, <3>3
  <2>8. CASE RmDir(b)
    BY <2>3, <2>8 DEF RmDir
  <2>9. QED
    BY <1>10, <2>5, <2>6, <2>7, <2>8 DEF CallStep
<1>11. ASSUME NEW u \in Unlockers, CallStep(u) PROVE Holds
  <2>1. call[u].op \in {"read", "forceID", "force"} /\ call[u].t \in Targets
    BY <1>11 DEF CallStep, CheckExists, CatLock, RmLock, RmDir, LockInv, UnlockerCalls, NoCall
  <2>2. /\ script' = script /\ pc' = pc /\ held' = held
        /\ \/ UNCHANGED <<lock, torn>>
           \/ lock' = [lock EXCEPT ![call[u].t] = None] /\ torn' = torn \ {call[u].t}
    BY <1>11, <2>1 DEF CallStep, CheckExists, CatLock, RmLock, RmDir, RemoveFile,
       Return, ReturnRead, ReturnForce, ToPhase
  <2>3. QED
    BY <1>2, <1>4, <2>1, <2>2 DEF Accounted, Waited
<1>12. QED
  BY <1>1, <1>6, <1>7, <1>8, <1>9, <1>10, <1>11 DEF Next, Kill, Procs

\* The invariant behind the safety properties holds in every reachable state.
THEOREM Inductive == Spec => []IInv
<1>1. Init => LocksHaveDir /\ LocksHeld
  BY LockAssumption DEF Init, LocksHaveDir, LocksHeld, NoScript, Procs
<1>2. LockInv /\ LocksHeld /\ [Next]_vars => LocksHeld'
  BY StartStep, HeldStep DEF LocksHeld, Waited, Accounted
<1>3. IInv /\ [Next]_vars => IInv'
  BY <1>2, NextInv, HaveDirStep DEF IInv
<1>4. Init => IInv
  BY <1>1, InitInv DEF IInv
<1>5. QED
  BY <1>3, <1>4, PTL DEF Spec

\* The directory of a project that an apply holds is there, unless the project was
\* force-unlocked: no roll-back takes it away.
THEOREM DirectoryKept == Spec => []HeldDirExists
<1>1. IInv => HeldDirExists
  <2> SUFFICES ASSUME IInv, NEW a \in Applies, NEW t \in held[a], t \notin forced
               PROVE  t \in dir
    BY DEF HeldDirExists
  <2>1. t \in Targets /\ a # None
    BY LockAssumption DEF IInv, LockInv, TypeOK
  <2>2. lock[t] = a
    BY <2>1 DEF IInv, LockInv, OwnersLock, Owns
  <2>3. QED
    BY <2>1, <2>2 DEF IInv, LocksHaveDir
<1>2. QED
  BY <1>1, Inductive, PTL

\* When every process has ended and no fault has happened, no lock is left.
THEOREM NothingLeft == Spec => []CleanExit
<1>1. IInv => CleanExit
  <2> SUFFICES ASSUME IInv, faults = MaxFaults, \A p \in Procs : pc[p] \in {"start", "done"},
                      NEW t \in Targets, lock[t] # None
               PROVE  FALSE
    BY DEF CleanExit
  <2>1. PICK a \in Applies : lock[t] = a
    BY DEF IInv, LockInv, TypeOK
  <2>2. pc[a] \in {"start", "done"}
    BY DEF Procs
  <2>3. held[a] = {} /\ script[a].step = "none"
    BY <2>2 DEF IInv, LockInv, HeldByStage, LocksHeld
  <2>4. QED
    BY <2>1, <2>3 DEF IInv, LocksHeld
<1>2. QED
  BY <1>1, Inductive, PTL

\* A step of the locks is a step of the reservation, or none.
LEMMA StepRefines ==
    ASSUME LockInv, LockInv', Next
    PROVE  Reservation!Next \/ UNCHANGED <<busy, forced>>
<1> USE LockAssumption DEF Goes, remote, locals
\* One apply enters or leaves its work, the others do not.
<1>1. ASSUME NEW a \in Applies, pc[a] # "critical", pc'[a] = "critical",
             \A b \in Applies \ {a} : pc'[b] = pc[b], want' = want, forced' = forced
      PROVE  Reservation!Next
  <2>1. /\ busy[a] = {} /\ want[a] \in SUBSET Targets
        /\ busy' = [busy EXCEPT ![a] = want[a]]
    BY <1>1 DEF busy, LockInv, TypeOK, Procs
  <2>2. \A b \in Applies \ {a} : busy[b] \cap want[a] \subseteq forced
    <3>1. MutualExclusion'
      BY ExclusionInv, PTL
    <3>2. QED
      BY <1>1, <3>1 DEF busy, MutualExclusion
  <2>3. QED
    BY <1>1, <2>1, <2>2 DEF Reservation!Next, Reservation!Reserve
<1>2. ASSUME NEW a \in Applies, pc'[a] # "critical",
             \A b \in Applies \ {a} : pc'[b] = pc[b], want' = want, forced' = forced
      PROVE  Reservation!Next
  <2>1. busy' = [busy EXCEPT ![a] = {}]
    BY <1>2 DEF busy
  <2>2. QED
    BY <1>2, <2>1 DEF Reservation!Next, Reservation!GiveBack
\* An operator takes locks away or just looks at them.
<1>3. ASSUME \A a \in Applies : pc'[a] = pc[a] /\ want'[a] = want[a],
             forced' = forced \/ \E t \in Targets : forced' = forced \cup {t}
      PROVE  Reservation!Next \/ UNCHANGED <<busy, forced>>
  <2>1. busy' = busy
    BY <1>3 DEF busy
  <2>2. QED
    BY <1>3, <2>1 DEF Reservation!Next, Reservation!Break
<1>4. ASSUME NEW a \in Applies, ScriptStep(a)
      PROVE  Reservation!Next \/ UNCHANGED <<busy, forced>>
  BY <1>3, <1>4 DEF ScriptStep
<1>5. ASSUME NEW a \in Applies, ApplyStep(a)
      PROVE  Reservation!Next \/ UNCHANGED <<busy, forced>>
  <2>1. /\ want' = want /\ forced' = forced
        /\ \A b \in Applies \ {a} : pc'[b] = pc[b]
        /\ pc' = pc \/ pc'[a] # "critical" \/ pc[a] # "critical"
    BY <1>5 DEF ApplyStep, StartApply, Acquire, AcquireReply, Acquired, TurnedAway, AcquireLost,
       WriteProject, EndApply, NextRelease, LockInv, TypeOK, Procs
  <2>2. QED
    BY <1>1, <1>2, <1>3, <2>1
<1>6. ASSUME NEW u \in Unlockers, UnlockStep(u)
      PROVE  Reservation!Next \/ UNCHANGED <<busy, forced>>
  <2>1. want' = want /\ forced' = forced
    BY <1>6 DEF UnlockStep, StartUnlock, NextScan, Confirm, NextUnlock
  <2>2. pc \in [Procs -> {"start", "acquire", "await", "critical", "release",
                          "scan", "confirm", "remove", "done", "killed"}]
    BY DEF LockInv, TypeOK
  <2>3. ASSUME NEW a \in Applies PROVE pc'[a] = pc[a]
    <3>1. a # u /\ a \in Procs
      BY DEF Procs
    <3>2. CASE StartUnlock(u) \/ Confirm(u)
      BY <2>2, <3>1, <3>2 DEF StartUnlock, Confirm
    <3>3. CASE NextScan(u) \/ NextUnlock(u)
      BY <2>2, <3>1, <3>3 DEF NextScan, NextUnlock
    <3>4. QED
      BY <1>6, <3>2, <3>3 DEF UnlockStep
  <2>4. QED
    BY <1>3, <2>1, <2>3
<1>7. ASSUME NEW p \in Procs, CallStep(p)
      PROVE  Reservation!Next \/ UNCHANGED <<busy, forced>>
  <2>1. call[p] # NoCall /\ call[p].t \in Targets /\ (p \in Applies => call[p].op = "release")
    BY <1>7 DEF CallStep, CheckExists, CatLock, RmLock, RmDir, NoCall, LockInv,
       ReleasesOwn, UnlockerCalls, Procs
  <2>2. pc' = pc
    BY <1>7 DEF CallStep
  <2>3. \A a \in Applies : want'[a] = want[a]
    <3>1. want' = want \/ (p \notin Applies /\ want' = [want EXCEPT ![p] = @ \ {call[p].t}])
      BY <1>7, <2>1 DEF CallStep, CheckExists, CatLock, RmLock, RmDir, Return,
         ReturnRelease, ReturnRead, ReturnForce, ToPhase
    <3>2. QED
      BY <3>1 DEF LockInv, TypeOK, Procs
  <2>4. forced' = forced \/ forced' = forced \cup {call[p].t}
    BY <1>7 DEF CallStep, CheckExists, CatLock, RmLock, RmDir
  <2>5. QED
    BY <1>3, <2>1, <2>2, <2>3, <2>4
<1>8. ASSUME NEW p \in Procs, Kill(p)
      PROVE  Reservation!Next \/ UNCHANGED <<busy, forced>>
  <2>1. /\ want' = want /\ forced' = forced /\ pc' = [pc EXCEPT ![p] = "killed"]
    BY <1>8 DEF Kill
  <2>2. CASE p \in Applies
    BY <1>2, <2>1, <2>2 DEF LockInv, TypeOK, Procs
  <2>3. CASE p \notin Applies
    BY <1>3, <2>1, <2>3 DEF LockInv, TypeOK, Procs
  <2>4. QED
    BY <2>2, <2>3
<1>9. QED
  BY <1>4, <1>5, <1>6, <1>7, <1>8 DEF Next

\* Taking the lock files one by one implements reserving all of an apply's
\* projects in one step.
THEOREM Refinement == Spec => ReservationSpec
<1>1. Init => Reservation!Init
  BY DEF Init, Reservation!Init, busy, Procs
<1>2. LockInv /\ LockInv' /\ [Next]_vars => [Reservation!Next]_<<busy, forced>>
  <2> SUFFICES ASSUME LockInv, LockInv', [Next]_vars
               PROVE  [Reservation!Next]_<<busy, forced>>
    OBVIOUS
  <2>1. CASE UNCHANGED vars
    BY <2>1 DEF vars, locals, busy
  <2>2. CASE Next
    BY <2>2, StepRefines
  <2>3. QED
    BY <2>1, <2>2
<1>3. QED
  BY <1>1, <1>2, InitInv, NextInv, PTL DEF Spec, ReservationSpec, Reservation!Spec

=============================================================================
