---------------------------- MODULE ApplyGates ----------------------------
(***************************************************************************)
(* The approved deployment of compose projects: runs of the workflow       *)
(* cmt-apply.yml with their plan, approval, queue, checks and `cmt apply`, *)
(* beside somebody who runs `cmt apply` from another machine.              *)
(* What GitHub does (approvals, the concurrency group, the list of runs)   *)
(* is external.  A run is its run number.                                  *)
(***************************************************************************)
EXTENDS Naturals, FiniteSets

CONSTANTS
    MaxRuns,      \* runs that are triggered
    Laptops,      \* people who run `cmt apply` themselves
    Files,        \* files of the host's projects
    Contents,     \* what a commit may want in all of them
    Branches,     \* branches the workflow may be dispatched on
    MaxKills,     \* cancellations, timeouts and failing jobs
    None

Runs == 1 .. MaxRuns
Appliers == Runs \cup Laptops

Events == {"merge_group", "workflow_dispatch"}

ASSUME GatesAssumption == /\ MaxRuns \in Nat
                          /\ MaxKills \in Nat
                          /\ Contents # {}
                          /\ Laptops \cap Nat = {}
                          /\ None \notin Appliers \cup Contents \cup Branches
                          /\ None \notin Events

VARIABLES
    event,        \* event[r]: what triggered run r, None before that
    branch,       \* branch[r]: where r was dispatched; a merge group has a ref of its own, None
    wants,        \* wants[p]: the content of p's checkout, None before there is one
    stage,        \* stage[p]: where p is
    result,       \* result[r]: what the status check of run r says at the end
    seen,         \* seen[r]: the host as the plan that is approved read it
    approved,     \* the runs whose production deployment is approved
    waiting,      \* the apply job that is pending in the concurrency group
    running,      \* the apply job that has the concurrency group
    left,         \* left[p]: files of the plan of p's `cmt apply` that are not written yet
    holder,       \* who holds the lock of the projects
    host,         \* the files at the host
    kills,
    wrote,        \* history: the runs that have begun to write
    full          \* history: the runs whose content was complete at the host since

jobs  == <<event, branch, wants, result, seen>>
group == <<approved, waiting, running>>
cmt   == <<left, holder, host>>
hist  == <<wrote, full>>
vars  == <<jobs, stage, group, cmt, kills, hist>>

\* "cancel", "plan", "queue" are jobs of a run; "check" to "verify" are steps of
\* its apply job; "lock" to "write" are inside `cmt apply`
Stages == {"none", "cancel", "plan", "queue", "check", "recheck", "verify",
           "lock", "replan", "prompt", "write", "end"}
ApplyJob == {"check", "recheck", "verify", "lock", "replan", "write"}

TypeOK ==
    /\ event \in [Runs -> Events \cup {None}]
    /\ branch \in [Runs -> Branches \cup {None}]
    /\ wants \in [Appliers -> Contents \cup {None}]
    /\ stage \in [Appliers -> Stages]
    /\ result \in [Runs -> {"none", "success", "failure"}]
    /\ seen \in [Runs -> [Files -> Contents] \cup {None}]
    /\ approved \subseteq Runs
    /\ waiting \in Runs \cup {None}
    /\ running \in Runs \cup {None}
    /\ left \in [Appliers -> SUBSET Files]
    /\ holder \in Appliers \cup {None}
    /\ host \in [Files -> Contents]
    /\ kills \in 0 .. MaxKills
    /\ wrote \subseteq Runs /\ full \subseteq Runs

Init ==
    /\ event = [r \in Runs |-> None]
    /\ branch = [r \in Runs |-> None]
    /\ wants = [p \in Appliers |-> None]
    /\ stage = [p \in Appliers |-> "none"]
    /\ result = [r \in Runs |-> "none"]
    /\ seen = [r \in Runs |-> None]
    /\ approved = {} /\ waiting = None /\ running = None
    /\ left = [p \in Appliers |-> {}]
    /\ holder = None
    /\ host = [f \in Files |-> CHOOSE c \in Contents : TRUE]   \* contents differ in name only
    /\ kills = 0
    /\ wrote = {} /\ full = {}

-----------------------------------------------------------------------------
Created == {r \in Runs : event[r] # None}
Active(r) == stage[r] \notin {"none", "end"}
Started(r) == stage[r] \in ApplyJob
Complete(r, h) == \A f \in Files : h[f] = wants[r]

\* The files a plan of p changes when it reads h; a plan without any has no changes.
Changes(p, h) == {f \in Files : h[f] # wants[p]}

\* The digest has, of every file, what the repository and what the host says, so
\* two plans of one checkout have the same digest when they have read the same.
SameDigest(p, h, g) == <<wants[p], h>> = <<wants[p], g>>

Goto(p, s) == stage' = [stage EXCEPT ![p] = s]

\* p is over, and nobody needs what it has checked out any more.
EndOf(p) == Goto(p, "end") /\ wants' = [wants EXCEPT ![p] = None]

\* The run is over: its apply job leaves the group, the status check reports.
EndRun(r, res) ==
    /\ EndOf(r)
    /\ result' = [result EXCEPT ![r] = res]
    /\ seen' = [seen EXCEPT ![r] = None]
    /\ approved' = approved \ {r}
    /\ running' = IF running = r THEN None ELSE running
    /\ waiting' = IF waiting = r THEN None ELSE waiting
    /\ UNCHANGED <<event, branch>>

\* An applier's `cmt apply` returns.
Return(p, res) ==
    IF p \in Runs THEN EndRun(p, res)
                  ELSE EndOf(p) /\ UNCHANGED <<event, branch, result, seen, group>>

-----------------------------------------------------------------------------
(* The jobs of a run *)

\* A merge group asks for its checks, or somebody dispatches the workflow, on any
\* branch: nothing restricts it to one.
Trigger(r) ==
    /\ stage[r] = "none"
    /\ \A q \in 1 .. r - 1 : event[q] # None
    /\ \E e \in Events, c \in Contents :
         /\ event' = [event EXCEPT ![r] = e]
         /\ \E b \in IF e = "workflow_dispatch" THEN Branches ELSE {None} :
              branch' = [branch EXCEPT ![r] = b]
         /\ wants' = [wants EXCEPT ![r] = c]
         /\ full' = IF \A f \in Files : host[f] = c THEN full \cup {r} ELSE full
    /\ Goto(r, "cancel")
    /\ UNCHANGED <<result, seen, group, cmt, kills, wrote>>

\* The older runs a dispatched run finds.  The list it asks for is that of the
\* event "push" on its branch.
StaleRuns(r) == {q \in Runs : /\ q < r
                              /\ Active(q)
                              /\ event[q] = "push" /\ branch[q] = branch[r]
                              /\ ~Started(q)}

CancelStaleRuns(r) ==
    LET stale == IF event[r] = "workflow_dispatch" THEN StaleRuns(r) ELSE {}
    IN  /\ stage[r] = "cancel"
        /\ stage' = [q \in Appliers |-> IF q = r THEN "plan"
                                        ELSE IF q \in stale THEN "end" ELSE stage[q]]
        /\ result' = [q \in Runs |-> IF q \in stale THEN "failure" ELSE result[q]]
        /\ waiting' = IF waiting \in stale THEN None ELSE waiting
        /\ running' = IF running \in stale THEN None ELSE running
        /\ approved' = approved \ stale
        /\ wants' = [q \in Appliers |-> IF q \in stale THEN None ELSE wants[q]]
        /\ seen' = [q \in Runs |-> IF q \in stale THEN None ELSE seen[q]]
        /\ UNCHANGED <<event, branch, cmt, kills, hist>>

\* `cmt plan` reads the host without a lock.  A plan without changes skips the
\* apply job, and a skipped job passes the status check.
PlanChanges(r) ==
    /\ stage[r] = "plan"
    /\ Changes(r, host) # {}
    /\ seen' = [seen EXCEPT ![r] = host]
    /\ Goto(r, "queue")
    /\ UNCHANGED <<event, branch, wants, result, group, cmt, kills, hist>>

PlanClean(r) ==
    /\ stage[r] = "plan"
    /\ Changes(r, host) = {}
    /\ EndRun(r, "success")
    /\ UNCHANGED <<cmt, kills, hist>>

\* The apply job asks for the concurrency group.  A free group takes it at once; else
\* it becomes the pending one, and the one that was pending is cancelled.
EnterFree(r) ==
    /\ stage[r] = "queue"
    /\ running = None /\ waiting = None
    /\ running' = r
    /\ UNCHANGED <<jobs, stage, approved, waiting, cmt, kills, hist>>

EnterQueue(r) ==
    /\ stage[r] = "queue" /\ r \notin {waiting, running}
    /\ {waiting, running} # {None}
    /\ waiting' = r
    /\ IF waiting = None
         THEN UNCHANGED <<jobs, stage, approved>>
         ELSE /\ EndOf(waiting)
              /\ result' = [result EXCEPT ![waiting] = "failure"]
              /\ seen' = [seen EXCEPT ![waiting] = None]
              /\ approved' = approved \ {waiting}
              /\ UNCHANGED <<event, branch>>
    /\ UNCHANGED <<running, cmt, kills, hist>>

Admit(r) ==
    /\ waiting = r /\ running = None
    /\ running' = r
    /\ waiting' = None
    /\ UNCHANGED <<jobs, stage, approved, cmt, kills, hist>>

\* The environment's reviewers decide, before or after the group admits the job;
\* without a decision the job fails in the end.
Approve(r) ==
    /\ stage[r] = "queue" /\ r \notin approved
    /\ approved' = approved \cup {r}
    /\ UNCHANGED <<jobs, stage, waiting, running, cmt, kills, hist>>

Reject(r) ==
    /\ stage[r] = "queue" /\ r \notin approved
    /\ EndRun(r, "failure")
    /\ UNCHANGED <<cmt, kills, hist>>

StartApplyJob(r) ==
    /\ stage[r] = "queue" /\ r \in approved /\ running = r
    /\ Goto(r, "check")
    /\ UNCHANGED <<jobs, group, cmt, kills, hist>>

-----------------------------------------------------------------------------
(* The steps of the apply job *)

\* Mutant: the list of newer runs is that of the event "push".
NewerPushes(r) == {q \in Created : q > r /\ event[q] = "push"}

\* The runs that r's check asks GitHub for: those of its event and, when it was
\* dispatched, of its branch.
Listed(r) == {q \in Created : /\ event[q] = event[r]
                              /\ event[r] = "workflow_dispatch" => branch[q] = branch[r]}

\* Any listed run with a higher number counts, whatever became of it.
Newer(r) == {q \in Listed(r) : q > r}

\* Mutant: a stale merge group skips its steps, as a dispatched run does.
SkipStale(r) ==
    /\ stage[r] \in {"check", "recheck"}
    /\ IF Newer(r) # {}
         THEN EndRun(r, "success")
         ELSE /\ Goto(r, IF stage[r] = "check" THEN "recheck" ELSE "verify")
              /\ UNCHANGED <<jobs, group>>
    /\ UNCHANGED <<cmt, kills, hist>>

\* A stale merge group fails; a stale dispatched run skips its other steps.
CheckRunLatest(r) ==
    /\ stage[r] \in {"check", "recheck"}
    /\ IF Newer(r) # {}
         THEN EndRun(r, IF event[r] = "merge_group" THEN "failure" ELSE "success")
         ELSE /\ Goto(r, IF stage[r] = "check" THEN "recheck" ELSE "verify")
              /\ UNCHANGED <<jobs, group>>
    /\ UNCHANGED <<cmt, kills, hist>>

\* A second `cmt plan`, still without a lock, must have the approved digest.
VerifyApprovedPlan(r) ==
    /\ stage[r] = "verify"
    /\ IF Changes(r, host) # {} /\ SameDigest(r, host, seen[r])
         THEN Goto(r, "lock") /\ UNCHANGED <<jobs, group>>
         ELSE EndRun(r, "failure")
    /\ UNCHANGED <<cmt, kills, hist>>

-----------------------------------------------------------------------------
(* cmt apply, with --auto-approve and --expected-plan-sha256 in a run and with
   neither on a laptop *)

StartLaptop(p) ==
    /\ stage[p] = "none"
    /\ \E c \in Contents : wants' = [wants EXCEPT ![p] = c]
    /\ Goto(p, "lock")
    /\ UNCHANGED <<event, branch, result, seen, group, cmt, kills, hist>>

\* Mutant: the apply waits for a lock that is held.
WaitForLocks(p) ==
    /\ stage[p] = "lock"
    /\ holder = None
    /\ holder' = p /\ Goto(p, "replan")
    /\ UNCHANGED <<jobs, group, left, host, kills, hist>>

\* The locks are taken before the plan is made; a lock that is held fails the apply.
AcquireApplyLocks(p) ==
    /\ stage[p] = "lock"
    /\ IF holder = None
         THEN holder' = p /\ Goto(p, "replan") /\ UNCHANGED <<jobs, group>>
         ELSE Return(p, "failure") /\ UNCHANGED holder
    /\ UNCHANGED <<left, host, kills, hist>>

\* Mutant: the digest was checked in the workflow, and cmt does not check it again.
VerifiedBefore(p, h) == TRUE

\* The digest a run expects is that of the plan that was approved.
VerifyExpectedPlan(p, h) == p \in Runs => SameDigest(p, h, seen[p])

BuildPlan(p) ==
    /\ stage[p] = "replan"
    /\ IF VerifyExpectedPlan(p, host) /\ Changes(p, host) # {}
         THEN /\ left' = [left EXCEPT ![p] = Changes(p, host)]
              /\ Goto(p, IF p \in Runs THEN "write" ELSE "prompt")
              /\ UNCHANGED <<jobs, group, holder>>
         ELSE /\ holder' = None
              /\ Return(p, IF VerifyExpectedPlan(p, host) THEN "success" ELSE "failure")
              /\ UNCHANGED left
    /\ UNCHANGED <<host, kills, hist>>

AnswerPrompt(p, yes) ==
    /\ stage[p] = "prompt"
    /\ IF yes THEN Goto(p, "write") /\ UNCHANGED <<jobs, group, left, holder>>
              ELSE /\ Return(p, "success")
                   /\ left' = [left EXCEPT ![p] = {}]
                   /\ holder' = None
    /\ UNCHANGED <<host, kills, hist>>

\* One file of the plan, in any order: `cmt plan` reads the files one by one too,
\* and what it may read while an apply writes is a host between two of these.
WriteFile(p, f) ==
    /\ stage[p] = "write" /\ f \in left[p]
    /\ host' = [host EXCEPT ![f] = wants[p]]
    /\ left' = [left EXCEPT ![p] = @ \ {f}]
    /\ wrote' = wrote \cup ({p} \cap Runs)
    /\ full' = full \cup {r \in Created : Active(r) /\ Complete(r, host')}
    /\ UNCHANGED <<jobs, stage, group, holder, kills>>

FinishApply(p) ==
    /\ stage[p] = "write" /\ left[p] = {}
    /\ holder' = None
    /\ Return(p, "success")
    /\ UNCHANGED <<left, host, kills, hist>>

-----------------------------------------------------------------------------
(* Failures *)

\* A job or a step fails, is cancelled or times out; a cmt that is interrupted
\* releases its lock, and one that is killed leaves it.
Kill(p) ==
    /\ kills < MaxKills
    /\ stage[p] \notin {"none", "end"}
    /\ kills' = kills + 1
    /\ Return(p, "failure")
    /\ left' = [left EXCEPT ![p] = {}]
    /\ holder' \in {holder, IF holder = p THEN None ELSE holder}
    /\ UNCHANGED <<host, hist>>

\* Somebody removes the lock of an apply that is over.
ForceUnlock ==
    /\ holder # None
    /\ stage[holder] = "end"
    /\ holder' = None
    /\ UNCHANGED <<jobs, stage, group, left, host, kills, hist>>

-----------------------------------------------------------------------------
RunStep(r) ==
    \/ CancelStaleRuns(r) \/ PlanChanges(r) \/ PlanClean(r)
    \/ EnterFree(r) \/ EnterQueue(r) \/ Admit(r) \/ StartApplyJob(r)
    \/ CheckRunLatest(r) \/ VerifyApprovedPlan(r)
Decide(r) == Approve(r) \/ Reject(r)
CmtStep(p) == AcquireApplyLocks(p) \/ BuildPlan(p) \/ FinishApply(p)
              \/ \E f \in Files : WriteFile(p, f)

Next ==
    \/ \E r \in Runs : Trigger(r) \/ RunStep(r) \/ Decide(r)
    \/ \E p \in Laptops : StartLaptop(p) \/ \E yes \in BOOLEAN : AnswerPrompt(p, yes)
    \/ \E p \in Appliers : CmtStep(p) \/ Kill(p)
    \/ ForceUnlock

Spec == Init /\ [][Next]_vars

\* Jobs and steps that are not waiting for anybody go on, the group admits a job
\* when it is free, and a deployment is approved, rejected or, after 30 days,
\* failed by GitHub.  Nobody is obliged to trigger, to answer a prompt, to kill
\* or to unlock.
FairSpec ==
    /\ Spec
    /\ \A r \in Runs : WF_vars(RunStep(r)) /\ WF_vars(Decide(r))
    /\ \A p \in Appliers : WF_vars(CmtStep(p))
-----------------------------------------------------------------------------
(* Properties *)

\* While a run writes, every file of the host is what the approved plan saw there
\* or what it was approved to become: from the approver's plan, made without a lock,
\* to the last file no other apply gets in between.
WritesWhatWasApproved ==
    \A r \in Runs : stage[r] = "write" =>
        \A f \in Files : host[f] = IF f \in left[r] THEN seen[r][f] ELSE wants[r]

\* The inductive invariant behind it: whoever is past taking the locks has them, and
\* whoever is at work has a checkout.
WriterHoldsLock ==
    \A p \in Appliers : stage[p] \in {"replan", "prompt", "write"} => holder = p
CheckedOut == \A p \in Appliers : stage[p] \notin {"none", "end"} => wants[p] \in Contents

WriteInv == TypeOK /\ WriterHoldsLock /\ CheckedOut /\ WritesWhatWasApproved

\* A run never begins to write when a newer run of its event and, if dispatched, of its
\* branch (those its check lists) has written already, although the check for newer runs
\* and the writing are steps apart.
NeverOlderAfterNewer ==
    [][\A r \in Runs : r \in wrote' \ wrote =>
          \A q \in wrote : <<event[q], branch[q]>> = <<event[r], branch[r]>> => q < r]_vars

\* The invariant behind it: the apply job has the group, and a run that is past its
\* checks is older than no listed run that has written.
OrderInv ==
    /\ \A r \in Runs : /\ stage[r] = "none" => event[r] = None
                       /\ event[r] = None => ~Active(r)
    /\ \A r \in Runs : stage[r] \in ApplyJob => running = r
    /\ wrote \subseteq Created
    /\ \A r \in Runs : stage[r] \in {"verify", "lock", "replan", "write"} =>
          wrote \cap Newer(r) = {}

\* A merge group whose status check passes, so that it is merged, has had its
\* content complete at the host while it ran: applied, or found there.
MergedIsDeployed ==
    \A r \in Runs : event[r] = "merge_group" /\ result[r] = "success" => r \in full

\* The invariant behind it: a run that is under way while its content is complete at
\* the host is recorded, and no run succeeds before it is triggered.
DeployInv ==
    /\ \A r \in Runs : Active(r) /\ Complete(r, host) => r \in full
    /\ \A r \in Runs : event[r] = None => result[r] # "success"
    /\ MergedIsDeployed

\* Every run ends, whoever holds the group or the lock and whoever was killed with it:
\* a run that is triggered does not stay active, and no run is triggered twice.
EveryRunEnds == \A r \in Runs : []<>~Active(r)

\* "On workflow_dispatch, cancel older active runs of this workflow whose apply job
\* has not started yet."
StaleRunsCancelled ==
    [][\A r \in Runs :
          /\ event[r] = "workflow_dispatch" /\ stage[r] = "cancel" /\ stage'[r] = "plan"
          => \A q \in 1 .. r - 1 : Active(q) /\ ~Started(q) => stage'[q] = "end"]_vars

\* "Detect whether a newer run of this workflow exists": no run begins to write after a
\* newer one, of whichever event and branch; they share the group and the host.
NeverOlderOfWorkflow ==
    [][\A r \in Runs : r \in wrote' \ wrote => \A q \in wrote : q < r]_vars

\* A newer run that waits for the group is not dropped for the sake of an older one,
\* which will be skipped as stale.
NewestNotDropped ==
    [][\A r \in Runs : waiting = r /\ stage'[r] = "end" /\ kills' = kills /\ r \in approved
          => waiting' = None \/ waiting' > r]_vars

=============================================================================
