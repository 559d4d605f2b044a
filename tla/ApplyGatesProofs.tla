------------------------- MODULE ApplyGatesProofs -------------------------
(***************************************************************************)
(* For any number of runs, people, files and contents: what a run writes   *)
(* is what was approved for it.                                            *)
(***************************************************************************)
EXTENDS ApplyGates, TLAPS

USE GatesAssumption DEF Runs, Appliers

\* The initial state satisfies the invariant.
LEMMA InitInv == Init => WriteInv
  BY DEF Init, WriteInv, TypeOK, Stages, Events, WriterHoldsLock, CheckedOut, WritesWhatWasApproved

\* What the end of run r changes: the run and its place in the group only.
Ended(r) ==
         /\ stage' \in [Appliers -> Stages] /\ stage' = [stage EXCEPT ![r] = "end"]
         /\ wants' \in [Appliers -> Contents \cup {None}]
         /\ wants' = [wants EXCEPT ![r] = None]
         /\ result' \in [Runs -> {"none", "success", "failure"}]
         /\ seen' \in [Runs -> [Files -> Contents] \cup {None}]
         /\ seen' = [seen EXCEPT ![r] = None]
         /\ approved' \subseteq Runs
         /\ waiting' \in Runs \cup {None} /\ running' \in Runs \cup {None}
         /\ event' = event /\ branch' = branch

\* Ending a run does that.
LEMMA EndRunType ==
  ASSUME TypeOK, NEW r \in Runs, NEW res \in {"success", "failure"}, EndRun(r, res)
  PROVE  Ended(r)
  BY DEF EndRun, EndOf, Goto, TypeOK, Stages, Ended

\* Steps that write nothing keep the invariant when every applier is over, is before
\* its plan with a checkout, or is where it was with what it had.
LEMMA Quiet ==
  ASSUME WriteInv, TypeOK', host' = host,
         \A q \in Appliers :
            \/ stage'[q] \in {"none", "end"}
            \/ /\ stage'[q] \in {"cancel", "plan", "queue", "check", "recheck", "verify", "lock"}
               /\ wants'[q] \in Contents
            \/ /\ stage'[q] = stage[q] /\ wants'[q] = wants[q] /\ left'[q] = left[q]
               /\ holder = q => holder' = q
               /\ q \in Runs => seen'[q] = seen[q]
  PROVE  WriteInv'
<1>1. WriterHoldsLock'
  BY DEF WriteInv, WriterHoldsLock
<1>2. CheckedOut'
  BY DEF WriteInv, CheckedOut
<1>3. WritesWhatWasApproved'
  BY DEF WriteInv, WritesWhatWasApproved
<1>4. QED
  BY <1>1, <1>2, <1>3 DEF WriteInv

\* The end of a run, with nothing else, keeps the invariant.
LEMMA EndsQuietly ==
  ASSUME WriteInv, NEW r \in Runs, NEW res \in {"success", "failure"}, EndRun(r, res),
         UNCHANGED <<cmt, kills, hist>>
  PROVE  WriteInv'
<1> TypeOK
  BY DEF WriteInv
<1> Ended(r)
  BY EndRunType
<1>1. TypeOK'
  BY DEF Ended, TypeOK, cmt, hist
<1>2. \A q \in Appliers : 
         \/ stage'[q] \in {"none", "end"}
         \/ /\ stage'[q] = stage[q] /\ wants'[q] = wants[q]
            /\ q \in Runs => seen'[q] = seen[q]
  BY DEF TypeOK, Ended
<1>3. QED
  BY <1>1, <1>2, Quiet DEF cmt

\* So does a run that goes on to a stage before its plan and changes nothing that is
\* kept about others.
LEMMA GoesOn ==
  ASSUME WriteInv, NEW p \in Appliers,
         NEW s \in {"cancel", "plan", "queue", "check", "recheck", "verify", "lock"},
         Goto(p, s), TypeOK', host' = host, holder' = holder, left' = left,
         wants'[p] \in Contents,
         \A q \in Appliers : q # p => wants'[q] = wants[q],
         \A q \in Runs : q # p => seen'[q] = seen[q]
  PROVE  WriteInv'
  BY Quiet DEF Goto, WriteInv, TypeOK

\* Each action of a run outside `cmt apply` keeps the invariant.
LEMMA RunJobs ==
  ASSUME WriteInv, NEW r \in Runs,
         \/ Trigger(r) \/ CancelStaleRuns(r) \/ PlanChanges(r) \/ PlanClean(r)
         \/ EnterFree(r) \/ EnterQueue(r) \/ Admit(r) \/ Approve(r) \/ Reject(r)
         \/ StartApplyJob(r) \/ CheckRunLatest(r) \/ VerifyApprovedPlan(r)
  PROVE  WriteInv'
<1> r \in Appliers
  OBVIOUS
<1> TypeOK /\ CheckedOut
  BY DEF WriteInv
<1>1. CASE Trigger(r)
  <2>1. PICK e \in Events, c \in Contents : /\ event' = [event EXCEPT ![r] = e]
                                            /\ wants' = [wants EXCEPT ![r] = c]
    BY <1>1 DEF Trigger
  <2>2. full' \subseteq Runs /\ branch' \in [Runs -> Branches \cup {None}]
    BY <1>1 DEF Trigger, TypeOK
  <2>3. TypeOK'
    BY <1>1, <2>1, <2>2 DEF Trigger, TypeOK, Goto, Stages, group, cmt
  <2>4. QED
    BY <1>1, <2>1, <2>3, GoesOn DEF Trigger, TypeOK, cmt
<1>2. CASE CancelStaleRuns(r)
  <2>1. PICK S \in SUBSET Runs : 
          /\ stage[r] = "cancel"
          /\ stage' = [q \in Appliers |-> IF q = r THEN "plan"
                                          ELSE IF q \in S THEN "end" ELSE stage[q]]
          /\ result' = [q \in Runs |-> IF q \in S THEN "failure" ELSE result[q]]
          /\ waiting' = IF waiting \in S THEN None ELSE waiting
          /\ running' = IF running \in S THEN None ELSE running
          /\ approved' = approved \ S
          /\ wants' = [q \in Appliers |-> IF q \in S THEN None ELSE wants[q]]
          /\ seen' = [q \in Runs |-> IF q \in S THEN None ELSE seen[q]]
          /\ r \notin S
    BY <1>2 DEF CancelStaleRuns, StaleRuns
  <2>2. UNCHANGED <<event, branch, left, holder, host, kills, wrote, full>>
    BY <1>2 DEF CancelStaleRuns, cmt, hist
  <2>3. TypeOK'
    BY <2>1, <2>2 DEF TypeOK, Stages
  <2>4. wants'[r] \in Contents
    BY <2>1 DEF CheckedOut
  <2>5. QED
    BY <2>1, <2>2, <2>3, <2>4, Quiet
<1>3. CASE PlanChanges(r)
  <2>1. TypeOK'
    BY <1>3 DEF PlanChanges, TypeOK, Goto, Stages, group, cmt, hist
  <2>2. wants'[r] \in Contents
    BY <1>3 DEF PlanChanges, CheckedOut
  <2>3. QED
    BY <1>3, <2>1, <2>2, GoesOn DEF PlanChanges, TypeOK, cmt
<1>4. CASE PlanClean(r)
  BY <1>4, EndsQuietly DEF PlanClean
<1>5. CASE EnterFree(r)
  <2>1. TypeOK'
    BY <1>5 DEF EnterFree, TypeOK, jobs, cmt, hist
  <2>2. QED
    BY <1>5, <2>1, Quiet DEF EnterFree, jobs, cmt
<1>6. CASE EnterQueue(r)
  <2>1. CASE waiting = None
    <3>1. TypeOK'
      BY <1>6, <2>1 DEF EnterQueue, TypeOK, jobs, cmt, hist
    <3>2. QED
      BY <1>6, <2>1, <3>1, Quiet DEF EnterQueue, jobs, cmt
  <2>2. CASE waiting # None
    <3>1. waiting \in Runs /\ waiting \in Appliers
      BY <2>2 DEF TypeOK
    <3>2. /\ stage' = [stage EXCEPT ![waiting] = "end"]
          /\ wants' = [wants EXCEPT ![waiting] = None]
          /\ seen' = [seen EXCEPT ![waiting] = None]
          /\ result' = [result EXCEPT ![waiting] = "failure"]
          /\ approved' \subseteq Runs /\ waiting' = r
          /\ UNCHANGED <<event, branch, running, left, holder, host, kills, wrote, full>>
      BY <1>6, <2>2 DEF EnterQueue, EndOf, Goto, cmt, hist, TypeOK
    <3>3. TypeOK'
      BY <3>1, <3>2 DEF TypeOK, Stages
    <3>4. \A q \in Appliers : 
            \/ stage'[q] \in {"none", "end"}
            \/ /\ stage'[q] = stage[q] /\ wants'[q] = wants[q]
               /\ q \in Runs => seen'[q] = seen[q]
      BY <3>1, <3>2 DEF TypeOK
    <3>5. QED
      BY <3>2, <3>3, <3>4, Quiet
  <2>3. QED
    BY <2>1, <2>2
<1>7. CASE Admit(r)
  <2>1. TypeOK'
    BY <1>7 DEF Admit, TypeOK, jobs, cmt, hist
  <2>2. QED
    BY <1>7, <2>1, Quiet DEF Admit, jobs, cmt
<1>8. CASE Approve(r)
  <2>1. TypeOK'
    BY <1>8 DEF Approve, TypeOK, jobs, cmt, hist
  <2>2. QED
    BY <1>8, <2>1, Quiet DEF Approve, jobs, cmt
<1>9. CASE Reject(r)
  BY <1>9, EndsQuietly DEF Reject
<1>10. CASE StartApplyJob(r)
  <2>1. TypeOK'
    BY <1>10 DEF StartApplyJob, TypeOK, Goto, Stages, jobs, group, cmt, hist
  <2>2. wants'[r] \in Contents
    BY <1>10 DEF StartApplyJob, CheckedOut, jobs
  <2>3. QED
    BY <1>10, <2>1, <2>2, GoesOn DEF StartApplyJob, jobs, cmt
<1>11. CASE CheckRunLatest(r)
  <2>1. CASE Newer(r) # {}
    BY <1>11, <2>1, EndsQuietly DEF CheckRunLatest
  <2>2. CASE Newer(r) = {}
    <3>1. PICK s \in {"recheck", "verify"} : Goto(r, s)
      BY <1>11, <2>2 DEF CheckRunLatest
    <3>2. TypeOK'
      BY <1>11, <2>2, <3>1 DEF CheckRunLatest, TypeOK, Goto, Stages, jobs, group, cmt, hist
    <3>3. wants'[r] \in Contents
      BY <1>11, <2>2 DEF CheckRunLatest, CheckedOut, jobs
    <3>4. QED
      BY <1>11, <2>2, <3>1, <3>2, <3>3, GoesOn DEF CheckRunLatest, jobs, cmt
  <2>3. QED
    BY <2>1, <2>2
<1>12. CASE VerifyApprovedPlan(r)
  <2>1. CASE Changes(r, host) # {} /\ SameDigest(r, host, seen[r])
    <3>1. TypeOK'
      BY <1>12, <2>1 DEF VerifyApprovedPlan, TypeOK, Goto, Stages, jobs, group, cmt, hist
    <3>2. wants'[r] \in Contents
      BY <1>12, <2>1 DEF VerifyApprovedPlan, CheckedOut, jobs
    <3>3. QED
      BY <1>12, <2>1, <3>1, <3>2, GoesOn DEF VerifyApprovedPlan, jobs, cmt
  <2>2. CASE ~(Changes(r, host) # {} /\ SameDigest(r, host, seen[r]))
    BY <1>12, <2>2, EndsQuietly DEF VerifyApprovedPlan
  <2>3. QED
    BY <2>1, <2>2
<1>13. QED
  BY <1>1, <1>2, <1>3, <1>4, <1>5, <1>6, <1>7, <1>8, <1>9, <1>10, <1>11, <1>12

\* An apply that returns keeps the invariant, whatever becomes of its own lock.
LEMMA Returns ==
  ASSUME WriteInv, NEW p \in Appliers, NEW res \in {"success", "failure"},
         Return(p, res),
         holder' \in Appliers \cup {None},
         \A q \in Appliers : q # p /\ holder = q => holder' = q,
         left' \in [Appliers -> SUBSET Files],
         \A q \in Appliers : q # p => left'[q] = left[q],
         kills' \in 0 .. MaxKills, UNCHANGED <<host, hist>>
  PROVE  WriteInv'
<1> TypeOK
  BY DEF WriteInv
<1>1. /\ TypeOK'
      /\ \A q \in Appliers : \/ stage'[q] \in {"none", "end"}
                             \/ /\ q # p /\ stage'[q] = stage[q] /\ wants'[q] = wants[q]
                                /\ q \in Runs => seen'[q] = seen[q]
  <2>1. CASE p \in Runs
    <3>1. EndRun(p, res)
      BY <2>1 DEF Return
    <3>2. Ended(p)
      BY <2>1, <3>1, EndRunType
    <3>3. QED
      BY <2>1, <3>2 DEF TypeOK, Ended, hist
  <2>2. CASE p \notin Runs
    <3>1. /\ stage' = [stage EXCEPT ![p] = "end"] /\ wants' = [wants EXCEPT ![p] = None]
          /\ UNCHANGED <<event, branch, result, seen, approved, waiting, running>>
      BY <2>2 DEF Return, EndOf, Goto, group
    <3>2. TypeOK'
      BY <3>1 DEF TypeOK, Stages, hist
    <3>3. QED
      BY <2>2, <3>1, <3>2 DEF TypeOK
  <2>3. QED
    BY <2>1, <2>2
<1>2. QED
  BY <1>1, Quiet

\* Each action of `cmt apply` keeps the invariant, and so does breaking a lock.
LEMMA CmtActions ==
  ASSUME WriteInv, NEW p \in Appliers,
         \/ CmtStep(p) \/ Kill(p)
         \/ p \in Laptops /\ (StartLaptop(p) \/ \E yes \in BOOLEAN : AnswerPrompt(p, yes))
         \/ ForceUnlock
  PROVE  WriteInv'
<1> TypeOK /\ CheckedOut /\ WriterHoldsLock /\ WritesWhatWasApproved
  BY DEF WriteInv
<1>1. CASE AcquireApplyLocks(p)
  <2>1. CASE holder = None
    <3>0. /\ holder' = p /\ stage' = [stage EXCEPT ![p] = "replan"]
          /\ UNCHANGED <<jobs, group, left, host, kills, hist>>
      BY <1>1, <2>1 DEF AcquireApplyLocks, Goto
    <3>1. TypeOK'
      BY <3>0 DEF TypeOK, Stages, jobs, group, hist
    <3>2. WriterHoldsLock'
      BY <2>1, <3>0 DEF TypeOK, WriterHoldsLock
    <3>3. CheckedOut' /\ WritesWhatWasApproved'
      BY <1>1, <3>0 DEF AcquireApplyLocks, TypeOK, CheckedOut, WritesWhatWasApproved, jobs
    <3>4. QED
      BY <3>1, <3>2, <3>3 DEF WriteInv
  <2>2. CASE holder # None
    <3>1. Return(p, "failure") /\ UNCHANGED <<holder, left, host, kills, hist>>
      BY <1>1, <2>2 DEF AcquireApplyLocks
    <3>2. QED
      BY <3>1, Returns DEF TypeOK
  <2>3. QED
    BY <2>1, <2>2
<1>2. CASE BuildPlan(p)
  <2>1. CASE VerifyExpectedPlan(p, host) /\ Changes(p, host) # {}
    <3>1. /\ stage[p] = "replan" /\ holder = p
          /\ left' = [left EXCEPT ![p] = Changes(p, host)]
          /\ UNCHANGED <<jobs, group, holder, host, kills, hist>>
      BY <1>2, <2>1 DEF BuildPlan, WriterHoldsLock
    <3>2. PICK s \in {"write", "prompt"} : stage' = [stage EXCEPT ![p] = s]
      BY <1>2, <2>1 DEF BuildPlan, Goto
    <3>3. TypeOK'
      BY <3>1, <3>2 DEF TypeOK, Stages, jobs, group, Changes, hist
    <3>4. WriterHoldsLock' /\ CheckedOut'
      BY <3>1, <3>2 DEF TypeOK, WriterHoldsLock, CheckedOut, jobs
    <3>5. ASSUME NEW r \in Runs, stage'[r] = "write", NEW f \in Files
          PROVE  host'[f] = IF f \in left'[r] THEN seen'[r][f] ELSE wants'[r]
      <4>1. r = p /\ left'[r] = Changes(p, host)
        BY <3>1, <3>2, <3>5 DEF TypeOK, WriterHoldsLock
      <4>2. host = seen[r]
        BY <4>1, <2>1 DEF VerifyExpectedPlan, SameDigest
      <4>3. QED
        BY <3>1, <4>1, <4>2 DEF Changes, jobs
    <3>6. QED
      BY <3>3, <3>4, <3>5 DEF WriteInv, WritesWhatWasApproved
  <2>2. CASE ~(VerifyExpectedPlan(p, host) /\ Changes(p, host) # {})
    <3>1. PICK res \in {"success", "failure"} : Return(p, res)
      BY <1>2, <2>2 DEF BuildPlan
    <3>2. holder = p /\ holder' = None /\ UNCHANGED <<left, host, kills, hist>>
      BY <1>2, <2>2 DEF BuildPlan, WriterHoldsLock
    <3>3. left' \in [Appliers -> SUBSET Files] /\ kills' \in 0 .. MaxKills
      BY <3>2 DEF TypeOK
    <3>4. QED
      BY <3>1, <3>2, <3>3, Returns
  <2>3. QED
    BY <2>1, <2>2
<1>3. CASE FinishApply(p)
  <2>1. holder = p /\ holder' = None /\ Return(p, "success")
        /\ UNCHANGED <<left, host, kills, hist>>
    BY <1>3 DEF FinishApply, WriterHoldsLock
  <2>2. QED
    BY <2>1, Returns DEF TypeOK
<1>4. ASSUME NEW f \in Files, WriteFile(p, f)
      PROVE  WriteInv'
  <2>1. /\ stage[p] = "write" /\ f \in left[p] /\ wants[p] \in Contents /\ holder = p
        /\ host' = [host EXCEPT ![f] = wants[p]]
        /\ left' = [left EXCEPT ![p] = left[p] \ {f}]
        /\ UNCHANGED <<jobs, stage, group, holder, kills>>
    BY <1>4 DEF WriteFile, CheckedOut, WriterHoldsLock
  <2>2. wrote' \subseteq Runs /\ full' \subseteq Runs
    BY <1>4 DEF WriteFile, TypeOK, Created
  <2>3. TypeOK'
    BY <2>1, <2>2 DEF TypeOK, jobs, group
  <2>4. WriterHoldsLock' /\ CheckedOut'
    BY <2>1 DEF WriterHoldsLock, CheckedOut, jobs
  <2>5. ASSUME NEW r \in Runs, stage'[r] = "write", NEW g \in Files
        PROVE  host'[g] = IF g \in left'[r] THEN seen'[r][g] ELSE wants'[r]
    <3>1. r = p
      BY <2>1, <2>5 DEF WriterHoldsLock
    <3>2. host[g] = IF g \in left[p] THEN seen[p][g] ELSE wants[p]
      BY <2>1, <2>5, <3>1 DEF WritesWhatWasApproved
    <3>3. QED
      BY <2>1, <3>1, <3>2 DEF TypeOK, jobs
  <2>6. QED
    BY <2>3, <2>4, <2>5 DEF WriteInv, WritesWhatWasApproved
<1>5. CASE Kill(p)
  <2>1. /\ Return(p, "failure") /\ UNCHANGED <<host, hist>>
        /\ left' = [left EXCEPT ![p] = {}]
        /\ holder' \in {holder, IF holder = p THEN None ELSE holder}
        /\ kills' = kills + 1 /\ kills < MaxKills
    BY <1>5 DEF Kill
  <2>2. kills' \in 0 .. MaxKills
    BY <2>1 DEF TypeOK
  <2>3. /\ left' \in [Appliers -> SUBSET Files]
        /\ \A q \in Appliers : q # p => left'[q] = left[q]
        /\ holder' \in Appliers \cup {None}
        /\ \A q \in Appliers : q # p /\ holder = q => holder' = q
    BY <2>1 DEF TypeOK
  <2>4. QED
    BY <2>1, <2>2, <2>3, Returns
<1>6. CASE p \in Laptops /\ StartLaptop(p)
  <2>1. PICK c \in Contents : wants' = [wants EXCEPT ![p] = c]
    BY <1>6 DEF StartLaptop
  <2>2. TypeOK'
    BY <1>6, <2>1 DEF StartLaptop, TypeOK, Goto, Stages, group, cmt, hist
  <2>3. QED
    BY <1>6, <2>1, <2>2, GoesOn DEF StartLaptop, TypeOK, cmt
<1>7. ASSUME p \in Laptops, NEW yes \in BOOLEAN, AnswerPrompt(p, yes)
      PROVE  WriteInv'
  <2>1. CASE yes
    <3>1. /\ stage[p] = "prompt" /\ stage' = [stage EXCEPT ![p] = "write"]
          /\ UNCHANGED <<jobs, group, left, holder, host, kills, hist>>
      BY <1>7, <2>1 DEF AnswerPrompt, Goto
    <3>2. p \notin Runs
      BY <1>7
    <3>3. TypeOK'
      BY <3>1 DEF TypeOK, Stages, jobs, group, hist
    <3>4. WriterHoldsLock' /\ CheckedOut'
      BY <3>1 DEF TypeOK, WriterHoldsLock, CheckedOut, jobs
    <3>5. WritesWhatWasApproved'
      BY <3>1, <3>2 DEF TypeOK, WritesWhatWasApproved, jobs
    <3>6. QED
      BY <3>3, <3>4, <3>5 DEF WriteInv
  <2>2. CASE ~yes
    <3>1. /\ stage[p] = "prompt" /\ Return(p, "success") /\ UNCHANGED <<host, kills, hist>>
          /\ left' = [left EXCEPT ![p] = {}] /\ holder' = None
      BY <1>7, <2>2 DEF AnswerPrompt
    <3>2. holder = p
      BY <3>1 DEF WriterHoldsLock
    <3>3. /\ left' \in [Appliers -> SUBSET Files]
          /\ \A q \in Appliers : q # p => left'[q] = left[q]
      BY <3>1 DEF TypeOK
    <3>4. QED
      BY <3>1, <3>2, <3>3, Returns DEF TypeOK
  <2>3. QED
    BY <2>1, <2>2
<1>8. CASE ForceUnlock
  <2>1. /\ holder \in Appliers /\ stage[holder] = "end" /\ holder' = None
        /\ UNCHANGED <<jobs, stage, group, left, host, kills, hist>>
    BY <1>8 DEF ForceUnlock, TypeOK
  <2>2. TypeOK'
    BY <2>1 DEF TypeOK, jobs, group, hist
  <2>3. WriterHoldsLock'
    BY <2>1 DEF WriterHoldsLock
  <2>4. CheckedOut' /\ WritesWhatWasApproved'
    BY <2>1 DEF CheckedOut, WritesWhatWasApproved, jobs
  <2>5. QED
    BY <2>2, <2>3, <2>4 DEF WriteInv
<1>9. QED
  BY <1>1, <1>2, <1>3, <1>4, <1>5, <1>6, <1>7, <1>8 DEF CmtStep

\* Every step keeps the invariant.
LEMMA StepInv == WriteInv /\ [Next]_vars => WriteInv'
<1> SUFFICES ASSUME WriteInv, [Next]_vars
             PROVE  WriteInv'
  OBVIOUS
<1>1. CASE UNCHANGED vars
  BY <1>1 DEF vars, jobs, group, cmt, hist, WriteInv, TypeOK, WriterHoldsLock, CheckedOut,
              WritesWhatWasApproved
<1>2. ASSUME NEW r \in Runs, Trigger(r) \/ RunStep(r) \/ Decide(r)
      PROVE  WriteInv'
  BY <1>2, RunJobs DEF RunStep, Decide
<1>3. ASSUME NEW p \in Appliers, CmtStep(p) \/ Kill(p)
      PROVE  WriteInv'
  BY <1>3, CmtActions
<1>4. ASSUME NEW p \in Laptops, StartLaptop(p) \/ \E yes \in BOOLEAN : AnswerPrompt(p, yes)
      PROVE  WriteInv'
  BY <1>4, CmtActions
<1>5. CASE ForceUnlock
  BY <1>5, CmtActions DEF ForceUnlock, WriteInv, TypeOK
<1>6. QED
  BY <1>1, <1>2, <1>3, <1>4, <1>5 DEF Next

\* The invariant holds, and with it: what a run writes is what the approved plan saw
\* and what was approved (WritesWhatWasApproved).
THEOREM ApprovedOnly == Spec => []WriteInv
  BY InitInv, StepInv, PTL DEF Spec

\* The stages behind the checks for newer runs.
PastChecks == {"verify", "lock", "replan", "write"}

\* A step in which no run is triggered or writes keeps the order, when every run ends,
\* stays, or goes on, with the group if it is in its apply job and past its checks only
\* when there is no newer run.
LEMMA OrderQuiet ==
  ASSUME WriteInv, OrderInv, UNCHANGED <<event, branch>>, wrote' = wrote,
         \A q \in Runs :
            \/ stage'[q] = "end"
            \/ stage'[q] = stage[q] /\ (running = q => running' = q)
            \/ /\ stage[q] \notin {"none", "end"} /\ stage'[q] # "none"
               /\ stage'[q] \in ApplyJob => running' = q
               /\ stage'[q] \in PastChecks => stage[q] \in PastChecks \/ Newer(q) = {}
  PROVE  OrderInv' /\ wrote' = wrote
<1>1. \A q \in Runs : Newer(q)' = Newer(q)
  BY DEF Newer, Listed, Created
<1>2. \A q \in Runs : stage[q] \in PastChecks => wrote \cap Newer(q) = {}
  BY DEF OrderInv, PastChecks
<1>3. \A q \in Runs : stage'[q] \in PastChecks =>
                        stage[q] \in PastChecks \/ Newer(q) = {}
  BY DEF PastChecks
<1>4. \A q \in Runs : stage'[q] \in PastChecks =>
                        wrote \cap Newer(q) = {}
  BY <1>2, <1>3
<1>5. \A q \in Runs : stage'[q] \in ApplyJob => running' = q
  BY DEF OrderInv, ApplyJob
<1>6. \A q \in Runs : /\ stage'[q] = "none" => event'[q] = None
                      /\ event'[q] = None => stage'[q] \in {"none", "end"}
  BY DEF OrderInv, Active
<1>7. wrote' \subseteq Created'
  BY DEF OrderInv, Created
<1>8. QED
  BY <1>1, <1>4, <1>5, <1>6, <1>7 DEF OrderInv, PastChecks, Active

\* The end of a run keeps the order.
LEMMA OrderEnds ==
  ASSUME WriteInv, OrderInv, NEW r \in Runs, NEW res \in {"success", "failure"},
         EndRun(r, res), wrote' = wrote
  PROVE  OrderInv' /\ wrote' = wrote
<1>1. \A q \in Runs : \/ stage'[q] = "end"
                      \/ stage'[q] = stage[q] /\ (running = q => running' = q)
  BY DEF WriteInv, TypeOK, EndRun, EndOf, Goto
<1>2. UNCHANGED <<event, branch>>
  BY DEF EndRun
<1>3. QED
  BY <1>1, <1>2, OrderQuiet

\* So does the return of an apply.
LEMMA OrderReturns ==
  ASSUME WriteInv, OrderInv, NEW p \in Appliers, NEW res \in {"success", "failure"},
         Return(p, res), wrote' = wrote
  PROVE  OrderInv' /\ wrote' = wrote
<1>1. CASE p \in Runs
  <2>1. EndRun(p, res)
    BY <1>1 DEF Return
  <2>2. QED
    BY <1>1, <2>1, OrderEnds
<1>2. CASE p \notin Runs
  <2>1. stage' = [stage EXCEPT ![p] = "end"] /\ UNCHANGED <<event, branch>> /\ running' = running
    BY <1>2 DEF Return, EndOf, Goto, group
  <2>2. \A q \in Runs : stage'[q] = stage[q] /\ running' = running
    BY <1>2, <2>1 DEF WriteInv, TypeOK
  <2>3. QED
    BY <2>1, <2>2, OrderQuiet
<1>3. QED
  BY <1>1, <1>2

\* And so does a step of p to a stage where it needs the group no more than before.
LEMMA OrderGoes ==
  ASSUME WriteInv, OrderInv, NEW p \in Appliers, NEW s \in Stages \ {"none"},
         stage' = [stage EXCEPT ![p] = s], UNCHANGED <<event, branch>>, wrote' = wrote, running' = running,
         p \in Runs => s = "end" \/ stage[p] \notin {"none", "end"},
         p \in Runs /\ s \in ApplyJob => stage[p] \in ApplyJob \/ running = p,
         p \in Runs /\ s \in PastChecks => stage[p] \in PastChecks \/ Newer(p) = {}
  PROVE  OrderInv' /\ wrote' = wrote
<1>1. p \in Runs /\ s \in ApplyJob => running' = p
  BY DEF OrderInv
<1>2. \A q \in Appliers : q # p => stage'[q] = stage[q]
  BY DEF WriteInv, TypeOK
<1>3. stage'[p] = s
  BY DEF WriteInv, TypeOK
<1>4. QED
  BY <1>1, <1>2, <1>3, OrderQuiet

\* The steps of the runs' jobs keep the order.
LEMMA OrderJobs ==
  ASSUME WriteInv, OrderInv, NEW r \in Runs,
         \/ Trigger(r) \/ CancelStaleRuns(r) \/ PlanChanges(r) \/ PlanClean(r)
         \/ EnterFree(r) \/ EnterQueue(r) \/ Admit(r) \/ Approve(r) \/ Reject(r)
         \/ StartApplyJob(r) \/ CheckRunLatest(r) \/ VerifyApprovedPlan(r)
  PROVE  OrderInv' /\ wrote' = wrote
<1> r \in Appliers
  OBVIOUS
<1>1. CASE Trigger(r)
  <2>1. PICK e \in Events : event' = [event EXCEPT ![r] = e]
    BY <1>1 DEF Trigger
  <2>2. /\ stage[r] = "none" /\ stage' = [stage EXCEPT ![r] = "cancel"]
        /\ wrote' = wrote /\ running' = running
    BY <1>1 DEF Trigger, Goto, group
  <2>3. e # None /\ event[r] = None /\ r \notin wrote
    BY <2>2 DEF Events, OrderInv, Created
  <2>4. \A q \in Runs : q # r => stage'[q] = stage[q] /\ event'[q] = event[q]
    BY <2>1, <2>2 DEF WriteInv, TypeOK
  <2>5. stage'[r] = "cancel" /\ event'[r] = e
    BY <2>1, <2>2 DEF WriteInv, TypeOK
  <2>6. wrote \subseteq Runs
    BY DEF WriteInv, TypeOK
  <2>7. \A q \in Runs : /\ stage'[q] = "none" => event'[q] = None
                        /\ event'[q] = None => stage'[q] \in {"none", "end"}
    BY <2>3, <2>4, <2>5 DEF OrderInv, Active
  <2>8. \A q \in Runs : stage'[q] \in ApplyJob => running' = q
    BY <2>2, <2>4, <2>5 DEF OrderInv, ApplyJob
  <2>9. wrote' \subseteq Created'
    BY <2>2, <2>3, <2>4, <2>6 DEF OrderInv, Created
  <2>10. \A q \in Runs : stage'[q] \in {"verify", "lock", "replan", "write"} =>
            wrote' \cap Newer(q)' = {}
    <3>1. \A q \in Runs : q # r => branch'[q] = branch[q]
      BY <1>1 DEF Trigger, WriteInv, TypeOK
    <3>2. ASSUME NEW q \in Runs, stage'[q] \in {"verify", "lock", "replan", "write"},
                 NEW t \in wrote', t \in Newer(q)'
          PROVE  FALSE
      <4>1. q # r /\ t # r /\ t \in Runs /\ t \in wrote
        BY <2>2, <2>3, <2>5, <2>6, <3>2
      <4>2. t \in Newer(q)
        BY <2>4, <2>6, <3>1, <3>2, <4>1 DEF Newer, Listed, Created, OrderInv
      <4>3. QED
        BY <2>4, <3>2, <4>1, <4>2 DEF OrderInv
    <3>3. QED
      BY <3>2
  <2>11. QED
    BY <2>2, <2>7, <2>8, <2>9, <2>10 DEF OrderInv, Active
<1>2. CASE CancelStaleRuns(r)
  <2> DEFINE S == IF event[r] = "workflow_dispatch" THEN StaleRuns(r) ELSE {}
  <2>1. /\ stage[r] = "cancel"
        /\ stage' = [q \in Appliers |-> IF q = r THEN "plan"
                                        ELSE IF q \in S THEN "end" ELSE stage[q]]
        /\ running' = IF running \in S THEN None ELSE running
        /\ UNCHANGED <<event, branch>> /\ wrote' = wrote
    BY <1>2 DEF CancelStaleRuns, hist
  <2> HIDE DEF S
  <2>2. \A q \in Runs : q # r => stage'[q] = IF q \in S THEN "end" ELSE stage[q]
    BY <2>1
  <2>3. \A q \in Runs : q \notin S => (running = q => running' = q)
    BY <2>1
  <2>4. stage'[r] = "plan"
    BY <2>1
  <2>5. QED
    BY <2>1, <2>2, <2>3, <2>4, OrderQuiet DEF ApplyJob, PastChecks
<1>3. CASE PlanChanges(r)
  BY <1>3, OrderGoes DEF PlanChanges, Goto, group, hist, Stages, ApplyJob, PastChecks
<1>4. CASE PlanClean(r)
  BY <1>4, OrderEnds DEF PlanClean, hist
<1>5. CASE EnterFree(r)
  <2>1. /\ stage' = stage /\ UNCHANGED <<event, branch>> /\ wrote' = wrote /\ running = None
    BY <1>5 DEF EnterFree, jobs, hist
  <2>2. QED
    BY <2>1, OrderQuiet
<1>6. CASE EnterQueue(r)
  <2>1. UNCHANGED <<event, branch>> /\ wrote' = wrote /\ running' = running
    BY <1>6 DEF EnterQueue, jobs, hist
  <2>2. CASE waiting = None
    <3>1. stage' = stage
      BY <1>6, <2>2 DEF EnterQueue
    <3>2. QED
      BY <2>1, <3>1, OrderQuiet
  <2>3. CASE waiting # None
    <3>1. stage' = [stage EXCEPT ![waiting] = "end"] /\ waiting \in Runs
      BY <1>6, <2>3 DEF EnterQueue, EndOf, Goto, WriteInv, TypeOK
    <3>2. QED
      BY <2>1, <2>3, <3>1, OrderGoes DEF Stages, ApplyJob, PastChecks
  <2>4. QED
    BY <2>2, <2>3
<1>7. CASE Admit(r)
  <2>1. /\ stage' = stage /\ UNCHANGED <<event, branch>> /\ wrote' = wrote /\ running = None
    BY <1>7 DEF Admit, jobs, hist
  <2>2. QED
    BY <2>1, OrderQuiet
<1>8. CASE Approve(r)
  <2>1. /\ stage' = stage /\ UNCHANGED <<event, branch>> /\ wrote' = wrote /\ running' = running
    BY <1>8 DEF Approve, jobs, hist
  <2>2. QED
    BY <2>1, OrderQuiet
<1>9. CASE Reject(r)
  BY <1>9, OrderEnds DEF Reject, hist
<1>10. CASE StartApplyJob(r)
  BY <1>10, OrderGoes DEF StartApplyJob, Goto, jobs, group, hist, Stages, ApplyJob, PastChecks
<1>11. CASE CheckRunLatest(r)
  <2>1. CASE Newer(r) # {}
    BY <1>11, <2>1, OrderEnds DEF CheckRunLatest, hist
  <2>2. CASE Newer(r) = {}
    <3>1. PICK s \in {"recheck", "verify"} : stage' = [stage EXCEPT ![r] = s]
      BY <1>11, <2>2 DEF CheckRunLatest, Goto
    <3>2. /\ stage[r] \in {"check", "recheck"} /\ UNCHANGED <<event, branch>> /\ wrote' = wrote
          /\ running' = running
      BY <1>11, <2>2 DEF CheckRunLatest, jobs, group, hist
    <3>3. QED
      BY <2>2, <3>1, <3>2, OrderGoes DEF Stages, ApplyJob
  <2>3. QED
    BY <2>1, <2>2
<1>12. CASE VerifyApprovedPlan(r)
  <2>1. CASE Changes(r, host) # {} /\ SameDigest(r, host, seen[r])
    BY <1>12, <2>1, OrderGoes
       DEF VerifyApprovedPlan, Goto, jobs, group, hist, Stages, ApplyJob, PastChecks
  <2>2. CASE ~(Changes(r, host) # {} /\ SameDigest(r, host, seen[r]))
    BY <1>12, <2>2, OrderEnds DEF VerifyApprovedPlan, hist
  <2>3. QED
    BY <2>1, <2>2
<1>13. QED
  BY <1>1, <1>2, <1>3, <1>4, <1>5, <1>6, <1>7, <1>8, <1>9, <1>10, <1>11, <1>12

\* What NeverOlderAfterNewer says of one step, in the terms of the check.
FirstWrites == \A r \in Runs : r \in wrote' \ wrote => wrote \cap Newer(r) = {}

\* The steps of `cmt apply` keep the order, and a run that writes for the first time
\* is older than no listed run that has written.
LEMMA OrderCmt ==
  ASSUME WriteInv, OrderInv, NEW p \in Appliers,
         \/ CmtStep(p) \/ Kill(p)
         \/ p \in Laptops /\ (StartLaptop(p) \/ \E yes \in BOOLEAN : AnswerPrompt(p, yes))
         \/ ForceUnlock
  PROVE  OrderInv' /\ FirstWrites
<1>0. ASSUME OrderInv' /\ wrote' = wrote
      PROVE  OrderInv' /\ FirstWrites
  BY <1>0 DEF FirstWrites
<1>1. CASE AcquireApplyLocks(p)
  <2>1. CASE holder = None
    BY <1>1, <2>1, OrderGoes, <1>0
       DEF AcquireApplyLocks, Goto, jobs, group, hist, Stages, ApplyJob, PastChecks
  <2>2. CASE holder # None
    BY <1>1, <2>2, OrderReturns, <1>0 DEF AcquireApplyLocks, hist
  <2>3. QED
    BY <2>1, <2>2
<1>2. CASE BuildPlan(p)
  <2>1. CASE VerifyExpectedPlan(p, host) /\ Changes(p, host) # {}
    <3>1. CASE p \in Runs
      BY <1>2, <2>1, <3>1, OrderGoes, <1>0
         DEF BuildPlan, Goto, jobs, group, hist, Stages, ApplyJob, PastChecks
    <3>2. CASE p \notin Runs
      BY <1>2, <2>1, <3>2, OrderGoes, <1>0
         DEF BuildPlan, Goto, jobs, group, hist, Stages, ApplyJob, PastChecks
    <3>3. QED
      BY <3>1, <3>2
  <2>2. CASE ~(VerifyExpectedPlan(p, host) /\ Changes(p, host) # {})
    <3>1. PICK res \in {"success", "failure"} : Return(p, res)
      BY <1>2, <2>2 DEF BuildPlan
    <3>2. stage[p] = "replan" /\ wrote' = wrote
      BY <1>2 DEF BuildPlan, hist
    <3>3. QED
      BY <3>1, <3>2, OrderReturns, <1>0
  <2>3. QED
    BY <2>1, <2>2
<1>3. CASE FinishApply(p)
  BY <1>3, OrderReturns, <1>0 DEF FinishApply, hist
<1>4. ASSUME NEW f \in Files, WriteFile(p, f)
      PROVE  OrderInv' /\ FirstWrites
  <2>1. /\ stage[p] = "write" /\ wrote' = wrote \cup ({p} \cap Runs)
        /\ UNCHANGED <<event, branch, stage, running>>
    BY <1>4 DEF WriteFile, jobs, group
  <2>2. CASE p \in Runs
    <3>1. /\ wrote' = wrote \cup {p} /\ p \in Created
          /\ wrote \cap Newer(p) = {}
      BY <2>1, <2>2 DEF OrderInv, Created, Active
    <3>2. \A r \in Runs : stage[r] \in PastChecks => r = p
      BY <2>1, <2>2 DEF OrderInv, ApplyJob, PastChecks
    <3>3. p \notin Newer(p) /\ \A q \in Runs : Newer(q)' = Newer(q)
      BY <2>1, <2>2 DEF Newer, Listed, Created
    <3>4. OrderInv'
      BY <2>1, <3>1, <3>2, <3>3 DEF OrderInv, Created, PastChecks, Active
    <3>5. FirstWrites
      BY <3>1, <3>3 DEF FirstWrites
    <3>6. QED
      BY <3>4, <3>5
  <2>3. CASE p \notin Runs
    BY <2>1, <2>3, OrderQuiet, <1>0
  <2>4. QED
    BY <2>2, <2>3
<1>5. CASE Kill(p)
  BY <1>5, OrderReturns, <1>0 DEF Kill, hist
<1>6. CASE p \in Laptops /\ StartLaptop(p)
  <2>1. p \notin Runs
    BY <1>6
  <2>2. QED
    BY <1>6, <2>1, OrderGoes, <1>0 DEF StartLaptop, Goto, group, hist, Stages
<1>7. ASSUME p \in Laptops, NEW yes \in BOOLEAN, AnswerPrompt(p, yes)
      PROVE  OrderInv' /\ FirstWrites
  <2>1. CASE yes
    BY <1>7, <2>1, OrderGoes, <1>0 DEF AnswerPrompt, Goto, jobs, group, hist, Stages
  <2>2. CASE ~yes
    BY <1>7, <2>2, OrderReturns, <1>0 DEF AnswerPrompt, hist
  <2>3. QED
    BY <2>1, <2>2
<1>8. CASE ForceUnlock
  <2>1. UNCHANGED <<event, branch>> /\ stage' = stage /\ running' = running /\ wrote' = wrote
    BY <1>8 DEF ForceUnlock, jobs, group, hist
  <2>2. QED
    BY <2>1, OrderQuiet, <1>0
<1>9. QED
  BY <1>1, <1>2, <1>3, <1>4, <1>5, <1>6, <1>7, <1>8 DEF CmtStep

\* Every step keeps the order.
LEMMA OrderStep == WriteInv /\ OrderInv /\ [Next]_vars => OrderInv' /\ FirstWrites
<1> SUFFICES ASSUME WriteInv, OrderInv, [Next]_vars
             PROVE  OrderInv' /\ FirstWrites
  OBVIOUS
<1>0. ASSUME OrderInv' /\ wrote' = wrote
      PROVE  OrderInv' /\ FirstWrites
  BY <1>0 DEF FirstWrites
<1>1. CASE UNCHANGED vars
  <2>1. UNCHANGED <<event, branch>> /\ stage' = stage /\ running' = running /\ wrote' = wrote
    BY <1>1 DEF vars, jobs, group, hist
  <2>2. QED
    BY <2>1, OrderQuiet, <1>0
<1>2. ASSUME NEW r \in Runs, Trigger(r) \/ RunStep(r) \/ Decide(r)
      PROVE  OrderInv' /\ FirstWrites
  BY <1>2, <1>0, OrderJobs DEF RunStep, Decide
<1>3. ASSUME NEW p \in Appliers, CmtStep(p) \/ Kill(p)
      PROVE  OrderInv' /\ FirstWrites
  BY <1>3, OrderCmt
<1>4. ASSUME NEW p \in Laptops, StartLaptop(p) \/ \E yes \in BOOLEAN : AnswerPrompt(p, yes)
      PROVE  OrderInv' /\ FirstWrites
  BY <1>4, OrderCmt
<1>5. CASE ForceUnlock
  BY <1>5, OrderCmt DEF ForceUnlock, WriteInv, TypeOK
<1>6. QED
  BY <1>1, <1>2, <1>3, <1>4, <1>5 DEF Next

\* No run begins to write after a newer one that its check lists: of its event and, when
\* dispatched, of its branch (NeverOlderAfterNewer).
THEOREM InOrder == Spec => NeverOlderAfterNewer
<1> DEFINE A == \A r \in Runs : r \in wrote' \ wrote =>
                  \A q \in wrote : <<event[q], branch[q]>> = <<event[r], branch[r]>> => q < r
<1>1. Init => OrderInv
  BY DEF Init, OrderInv, ApplyJob, Created, Active
<1>2. OrderInv /\ FirstWrites => [A]_vars
  <2> SUFFICES ASSUME OrderInv, FirstWrites, NEW r \in Runs, r \in wrote' \ wrote,
                      NEW q \in wrote, <<event[q], branch[q]>> = <<event[r], branch[r]>>
               PROVE  q < r
    OBVIOUS
  <2>1. q \in Listed(r) /\ q \notin Newer(r) /\ q # r
    BY DEF OrderInv, FirstWrites, Listed
  <2>2. q \in Nat /\ r \in Nat
    BY <2>1, GatesAssumption DEF Listed, Created, Runs
  <2>3. QED
    BY <2>1, <2>2 DEF Newer
<1>3. QED
  BY <1>1, <1>2, OrderStep, ApprovedOnly, PTL DEF Spec, NeverOlderAfterNewer

-----------------------------------------------------------------------------
\* A step that keeps the files at the host keeps the record of what is deployed, when
\* runs end or stay active with their checkout, and only a merge group whose content
\* is complete ends in success.
LEMMA DeployQuiet ==
  ASSUME DeployInv, event' = event, host' = host, full' = full,
         \A q \in Runs :
            /\ \/ stage'[q] \in {"none", "end"}
               \/ Active(q) /\ wants'[q] = wants[q]
            /\ \/ result'[q] = result[q] \/ result'[q] = "failure"
               \/ /\ event[q] # None
                  /\ event[q] = "merge_group" => Active(q) /\ Complete(q, host)
  PROVE  DeployInv'
<1>1. \A q \in Runs : Active(q)' /\ Complete(q, host)' => q \in full'
  BY DEF DeployInv, Active, Complete
<1>2. \A q \in Runs : event'[q] = None => result'[q] # "success"
  BY DEF DeployInv
<1>3. MergedIsDeployed'
  BY DEF DeployInv, MergedIsDeployed
<1>4. QED
  BY <1>1, <1>2, <1>3 DEF DeployInv

\* The end of a run is such a step.
LEMMA DeployEnds ==
  ASSUME WriteInv, OrderInv, DeployInv, NEW r \in Runs, NEW res \in {"success", "failure"},
         EndRun(r, res), host' = host, full' = full, Active(r),
         res = "success" /\ event[r] = "merge_group" => Complete(r, host)
  PROVE  DeployInv'
<1>1. /\ stage' = [stage EXCEPT ![r] = "end"] /\ wants' = [wants EXCEPT ![r] = None]
      /\ result' = [result EXCEPT ![r] = res] /\ event' = event
  BY DEF EndRun, EndOf, Goto
<1>2. \A q \in Runs : q # r => /\ stage'[q] = stage[q] /\ wants'[q] = wants[q]
                              /\ result'[q] = result[q]
  BY <1>1 DEF WriteInv, TypeOK
<1>3. stage'[r] = "end" /\ result'[r] = res
  BY <1>1 DEF WriteInv, TypeOK
<1>4. event[r] # None
  BY DEF OrderInv
<1>5. QED
  BY <1>1, <1>2, <1>3, <1>4, DeployQuiet DEF Active

\* So is the return of an apply.
LEMMA DeployReturns ==
  ASSUME WriteInv, OrderInv, DeployInv, NEW p \in Appliers, NEW res \in {"success", "failure"},
         Return(p, res), host' = host, full' = full, Active(p),
         p \in Runs /\ res = "success" /\ event[p] = "merge_group" => Complete(p, host)
  PROVE  DeployInv'
<1>1. CASE p \in Runs
  BY <1>1, DeployEnds DEF Return
<1>2. CASE p \notin Runs
  <2>1. /\ stage' = [stage EXCEPT ![p] = "end"] /\ wants' = [wants EXCEPT ![p] = None]
        /\ event' = event /\ result' = result
    BY <1>2 DEF Return, EndOf, Goto
  <2>2. \A q \in Runs : stage'[q] = stage[q] /\ wants'[q] = wants[q]
    BY <1>2, <2>1 DEF WriteInv, TypeOK
  <2>3. QED
    BY <2>1, <2>2, DeployQuiet DEF Active
<1>3. QED
  BY <1>1, <1>2

\* And so is a step of an active applier, or of a laptop, to another stage.
LEMMA DeployGoes ==
  ASSUME WriteInv, DeployInv, NEW p \in Appliers, NEW s \in Stages,
         stage' = [stage EXCEPT ![p] = s], host' = host, full' = full,
         event' = event, result' = result,
         p \in Runs => Active(p), \A q \in Runs : wants'[q] = wants[q]
  PROVE  DeployInv'
<1>1. \A q \in Runs : q # p => stage'[q] = stage[q]
  BY DEF WriteInv, TypeOK
<1>2. QED
  BY <1>1, DeployQuiet DEF Active

\* The steps of the runs' jobs keep the record.
LEMMA DeployJobs ==
  ASSUME WriteInv, OrderInv, DeployInv, NEW r \in Runs,
         \/ Trigger(r) \/ CancelStaleRuns(r) \/ PlanChanges(r) \/ PlanClean(r)
         \/ EnterFree(r) \/ EnterQueue(r) \/ Admit(r) \/ Approve(r) \/ Reject(r)
         \/ StartApplyJob(r) \/ CheckRunLatest(r) \/ VerifyApprovedPlan(r)
  PROVE  DeployInv'
<1> r \in Appliers
  OBVIOUS
<1>1. CASE Trigger(r)
  <2>1. PICK e \in Events, c \in Contents :
          /\ event' = [event EXCEPT ![r] = e]
          /\ wants' = [wants EXCEPT ![r] = c]
          /\ full' = IF \A f \in Files : host[f] = c THEN full \cup {r} ELSE full
    BY <1>1 DEF Trigger
  <2>2. /\ stage[r] = "none" /\ stage' = [stage EXCEPT ![r] = "cancel"]
        /\ host' = host /\ result' = result
    BY <1>1 DEF Trigger, Goto, cmt
  <2>3. event[r] = None /\ result[r] # "success"
    BY <2>2 DEF OrderInv, DeployInv
  <2>4. \A q \in Runs : q # r => /\ stage'[q] = stage[q] /\ wants'[q] = wants[q]
                                /\ event'[q] = event[q]
    BY <2>1, <2>2 DEF WriteInv, TypeOK
  <2>5. wants'[r] = c /\ event'[r] = e /\ e # None
    BY <2>1 DEF WriteInv, TypeOK, Events
  <2>6. \A q \in Runs : Active(q)' /\ Complete(q, host)' => q \in full'
    BY <2>1, <2>2, <2>4, <2>5 DEF DeployInv, Active, Complete
  <2>7. \A q \in Runs : event'[q] = None => result'[q] # "success"
    BY <2>2, <2>4, <2>5 DEF DeployInv
  <2>8. MergedIsDeployed'
    BY <2>1, <2>2, <2>3, <2>4 DEF DeployInv, MergedIsDeployed
  <2>9. QED
    BY <2>6, <2>7, <2>8 DEF DeployInv
<1>2. CASE CancelStaleRuns(r)
  <2> DEFINE S == IF event[r] = "workflow_dispatch" THEN StaleRuns(r) ELSE {}
  <2>1. /\ stage[r] = "cancel"
        /\ stage' = [q \in Appliers |-> IF q = r THEN "plan"
                                        ELSE IF q \in S THEN "end" ELSE stage[q]]
        /\ result' = [q \in Runs |-> IF q \in S THEN "failure" ELSE result[q]]
        /\ wants' = [q \in Appliers |-> IF q \in S THEN None ELSE wants[q]]
        /\ event' = event /\ host' = host /\ full' = full
    BY <1>2 DEF CancelStaleRuns, hist, cmt
  <2>2. r \notin S
    BY DEF StaleRuns
  <2> HIDE DEF S
  <2>3. \A q \in Runs : \/ stage'[q] = "end" /\ result'[q] = "failure"
                        \/ /\ wants'[q] = wants[q] /\ result'[q] = result[q]
                           /\ q # r => stage'[q] = stage[q]
    BY <2>1, <2>2
  <2>4. QED
    BY <2>1, <2>3, DeployQuiet DEF Active
<1>3. CASE PlanChanges(r)
  BY <1>3, DeployGoes DEF PlanChanges, Goto, cmt, hist, Stages, Active
<1>4. CASE PlanClean(r)
  <2>1. Complete(r, host) /\ Active(r)
    BY <1>4 DEF PlanClean, Changes, Complete, Active
  <2>2. QED
    BY <1>4, <2>1, DeployEnds DEF PlanClean, cmt, hist
<1>5. CASE EnterFree(r)
  <2>1. UNCHANGED <<event, wants, result, stage, host, full>>
    BY <1>5 DEF EnterFree, jobs, cmt, hist
  <2>2. QED
    BY <2>1, DeployQuiet DEF Active
<1>6. CASE EnterQueue(r)
  <2>1. event' = event /\ host' = host /\ full' = full
    BY <1>6 DEF EnterQueue, jobs, cmt, hist
  <2>2. CASE waiting = None
    <3>1. UNCHANGED <<wants, result, stage>>
      BY <1>6, <2>2 DEF EnterQueue, jobs
    <3>2. QED
      BY <2>1, <3>1, DeployQuiet DEF Active
  <2>3. CASE waiting # None
    <3>1. /\ stage' = [stage EXCEPT ![waiting] = "end"] /\ waiting \in Runs
          /\ wants' = [wants EXCEPT ![waiting] = None]
          /\ result' = [result EXCEPT ![waiting] = "failure"]
      BY <1>6, <2>3 DEF EnterQueue, EndOf, Goto, WriteInv, TypeOK
    <3>2. \A q \in Runs : \/ stage'[q] = "end" /\ result'[q] = "failure"
                          \/ UNCHANGED <<wants[q], result[q], stage[q]>>
      BY <3>1 DEF WriteInv, TypeOK
    <3>3. QED
      BY <2>1, <3>2, DeployQuiet DEF Active
  <2>4. QED
    BY <2>2, <2>3
<1>7. CASE Admit(r)
  <2>1. UNCHANGED <<event, wants, result, stage, host, full>>
    BY <1>7 DEF Admit, jobs, cmt, hist
  <2>2. QED
    BY <2>1, DeployQuiet DEF Active
<1>8. CASE Approve(r)
  <2>1. UNCHANGED <<event, wants, result, stage, host, full>>
    BY <1>8 DEF Approve, jobs, cmt, hist
  <2>2. QED
    BY <2>1, DeployQuiet DEF Active
<1>9. CASE Reject(r)
  BY <1>9, DeployEnds DEF Reject, cmt, hist, Active
<1>10. CASE StartApplyJob(r)
  BY <1>10, DeployGoes DEF StartApplyJob, Goto, jobs, cmt, hist, Stages, Active
<1>11. CASE CheckRunLatest(r)
  <2>1. CASE Newer(r) # {}
    <3>1. Active(r) /\ host' = host /\ full' = full
      BY <1>11 DEF CheckRunLatest, cmt, hist, Active
    <3>2. CASE event[r] = "merge_group"
      BY <1>11, <2>1, <3>1, <3>2, DeployEnds DEF CheckRunLatest
    <3>3. CASE event[r] # "merge_group"
      BY <1>11, <2>1, <3>1, <3>3, DeployEnds DEF CheckRunLatest
    <3>4. QED
      BY <3>2, <3>3
  <2>2. CASE Newer(r) = {}
    BY <1>11, <2>2, DeployGoes DEF CheckRunLatest, Goto, jobs, cmt, hist, Stages, Active
  <2>3. QED
    BY <2>1, <2>2
<1>12. CASE VerifyApprovedPlan(r)
  <2>1. CASE Changes(r, host) # {} /\ SameDigest(r, host, seen[r])
    BY <1>12, <2>1, DeployGoes DEF VerifyApprovedPlan, Goto, jobs, cmt, hist, Stages, Active
  <2>2. CASE ~(Changes(r, host) # {} /\ SameDigest(r, host, seen[r]))
    BY <1>12, <2>2, DeployEnds DEF VerifyApprovedPlan, cmt, hist, Active
  <2>3. QED
    BY <2>1, <2>2
<1>13. QED
  BY <1>1, <1>2, <1>3, <1>4, <1>5, <1>6, <1>7, <1>8, <1>9, <1>10, <1>11, <1>12

\* So do those of `cmt apply`: a run returns with success when it found nothing to
\* change, or wrote all of it.
LEMMA DeployCmt ==
  ASSUME WriteInv, OrderInv, DeployInv, NEW p \in Appliers,
         \/ CmtStep(p) \/ Kill(p)
         \/ p \in Laptops /\ (StartLaptop(p) \/ \E yes \in BOOLEAN : AnswerPrompt(p, yes))
         \/ ForceUnlock
  PROVE  DeployInv'
<1>1. CASE AcquireApplyLocks(p)
  <2>1. CASE holder = None
    BY <1>1, <2>1, DeployGoes DEF AcquireApplyLocks, Goto, jobs, hist, Stages, Active
  <2>2. CASE holder # None
    BY <1>1, <2>2, DeployReturns DEF AcquireApplyLocks, hist, Active
  <2>3. QED
    BY <2>1, <2>2
<1>2. CASE BuildPlan(p)
  <2>1. CASE VerifyExpectedPlan(p, host) /\ Changes(p, host) # {}
    <3>1. PICK s \in {"write", "prompt"} : stage' = [stage EXCEPT ![p] = s]
      BY <1>2, <2>1 DEF BuildPlan, Goto
    <3>2. UNCHANGED <<event, wants, result, host, full>> /\ Active(p)
      BY <1>2, <2>1 DEF BuildPlan, jobs, hist, Active
    <3>3. QED
      BY <3>1, <3>2, DeployGoes DEF Stages
  <2>2. CASE ~VerifyExpectedPlan(p, host)
    BY <1>2, <2>2, DeployReturns DEF BuildPlan, hist, Active
  <2>3. CASE VerifyExpectedPlan(p, host) /\ Changes(p, host) = {}
    <3>1. Complete(p, host)
      BY <2>3 DEF Changes, Complete
    <3>2. QED
      BY <1>2, <2>3, <3>1, DeployReturns DEF BuildPlan, hist, Active
  <2>4. QED
    BY <2>1, <2>2, <2>3
<1>3. CASE FinishApply(p)
  <2>1. p \in Runs => Complete(p, host)
    BY <1>3 DEF FinishApply, WriteInv, WritesWhatWasApproved, Complete
  <2>2. QED
    BY <1>3, <2>1, DeployReturns DEF FinishApply, hist, Active
<1>4. ASSUME NEW f \in Files, WriteFile(p, f)
      PROVE  DeployInv'
  <2>1. /\ UNCHANGED <<event, wants, result, stage>>
        /\ full' = full \cup {r \in Created : Active(r) /\ Complete(r, host')}
    BY <1>4 DEF WriteFile, jobs
  <2>2. \A q \in Runs : Active(q)' /\ Complete(q, host)' => q \in full'
    BY <2>1 DEF OrderInv, Created, Active, Complete
  <2>3. QED
    BY <2>1, <2>2 DEF DeployInv, MergedIsDeployed
<1>5. CASE Kill(p)
  BY <1>5, DeployReturns DEF Kill, hist, Active
<1>6. CASE p \in Laptops /\ StartLaptop(p)
  <2>1. PICK c \in Contents : wants' = [wants EXCEPT ![p] = c]
    BY <1>6 DEF StartLaptop
  <2>2. p \notin Runs
    BY <1>6
  <2>3. \A q \in Runs : wants'[q] = wants[q]
    BY <2>1, <2>2 DEF WriteInv, TypeOK
  <2>4. QED
    BY <1>6, <2>2, <2>3, DeployGoes DEF StartLaptop, Goto, cmt, hist, Stages
<1>7. ASSUME p \in Laptops, NEW yes \in BOOLEAN, AnswerPrompt(p, yes)
      PROVE  DeployInv'
  <2>1. p \notin Runs
    BY <1>7
  <2>2. CASE yes
    BY <1>7, <2>1, <2>2, DeployGoes DEF AnswerPrompt, Goto, jobs, hist, Stages
  <2>3. CASE ~yes
    BY <1>7, <2>1, <2>3, DeployReturns DEF AnswerPrompt, hist, Active
  <2>4. QED
    BY <2>2, <2>3
<1>8. CASE ForceUnlock
  <2>1. UNCHANGED <<event, wants, result, stage, host, full>>
    BY <1>8 DEF ForceUnlock, jobs, hist
  <2>2. QED
    BY <2>1, DeployQuiet DEF Active
<1>9. QED
  BY <1>1, <1>2, <1>3, <1>4, <1>5, <1>6, <1>7, <1>8 DEF CmtStep

\* Every step keeps the record.
LEMMA DeployStep == WriteInv /\ OrderInv /\ DeployInv /\ [Next]_vars => DeployInv'
<1> SUFFICES ASSUME WriteInv, OrderInv, DeployInv, [Next]_vars
             PROVE  DeployInv'
  OBVIOUS
<1>1. CASE UNCHANGED vars
  <2>1. UNCHANGED <<event, wants, result, stage, host, full>>
    BY <1>1 DEF vars, jobs, group, cmt, hist
  <2>2. QED
    BY <2>1, DeployQuiet DEF Active
<1>2. ASSUME NEW r \in Runs, Trigger(r) \/ RunStep(r) \/ Decide(r)
      PROVE  DeployInv'
  BY <1>2, DeployJobs DEF RunStep, Decide
<1>3. ASSUME NEW p \in Appliers, CmtStep(p) \/ Kill(p)
      PROVE  DeployInv'
  BY <1>3, DeployCmt
<1>4. ASSUME NEW p \in Laptops, StartLaptop(p) \/ \E yes \in BOOLEAN : AnswerPrompt(p, yes)
      PROVE  DeployInv'
  BY <1>4, DeployCmt
<1>5. CASE ForceUnlock
  BY <1>5, DeployCmt DEF ForceUnlock, WriteInv, TypeOK
<1>6. QED
  BY <1>1, <1>2, <1>3, <1>4, <1>5 DEF Next

\* A merge group whose status check passes has been complete at the host
\* (MergedIsDeployed).
THEOREM Deployed == Spec => []MergedIsDeployed
<1>1. Init => OrderInv
  BY DEF Init, OrderInv, ApplyJob, Created, Active
<1>2. Init => DeployInv
  BY DEF Init, DeployInv, MergedIsDeployed, Active
<1>3. DeployInv => MergedIsDeployed
  BY DEF DeployInv
<1>4. QED
  BY <1>1, <1>2, <1>3, OrderStep, DeployStep, ApprovedOnly, PTL DEF Spec

=============================================================================
