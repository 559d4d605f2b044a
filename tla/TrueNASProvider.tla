--------------------------- MODULE TrueNASProvider ---------------------------
(***************************************************************************)
(* The TrueNAS provider (terraform/provider): the life of its resources     *)
(* over runs of `terraform apply`.                                         *)
(*                                                                         *)
(* A run reads every resource in the state, compares with the              *)
(* configuration and carries out the differences concurrently.  Plain       *)
(* resources (datasets and SMB shares) are one request; apps, settings,     *)
(* permissions and ACLs are requests that mostly start a job at TrueNAS,      *)
(* which the provider polls.  A request may fail before or after its effect, and a job *)
(* goes on when the poll has failed.  Terraform and TrueNAS are external,    *)
(* modelled as far as the provider and its tests rely on them.               *)
(***************************************************************************)
EXTENDS Integers, FiniteSets, SequencesExt

CONSTANTS
    Plain,        \* truenas_dataset and truenas_smb_share_copy
    Apps,         \* truenas_custom_app
    Settings,     \* truenas_apps_config, truenas_app_config: always there
    Paths,        \* permissions, permission copies and ACLs of paths, which exist
    Parent,       \* the parent dataset of each plain resource, or None
    Parts,        \* the objects at TrueNAS that make up a resource, in order
    Direct,       \* of these, the ones whose requests TrueNAS answers when they are
                  \* done, without a job (the catalog of the provider's tests)
    Values, None,
    Families,     \* the resources that one configuration may have: a bound
    MaxAttempts,  \* createDatasetParentRetryAttempts
    MaxEdits,     \* how many edits of the configuration happen
    MaxFaults     \* how many requests fail or run into their timeout

Lasting   == Settings \cup Paths   \* what is never created or deleted at TrueNAS
Resources == Plain \cup Apps \cup Lasting
Objects   == UNION {ToSet(Parts[r]) : r \in Resources}

ASSUME ProviderAssumption ==
    /\ MaxAttempts \in Nat /\ MaxEdits \in Nat /\ MaxFaults \in Nat
    /\ None \notin Values /\ Families \subseteq SUBSET Resources
    /\ \A r \in Plain \cup Apps \cup Paths : Parts[r] = <<r>>
    /\ \A r \in Settings : Parts[r] \in Seq(ToSet(Parts[r])) \ {<<>>}
    /\ \A r \in Resources : None \notin [DOMAIN Parts[r] -> Values]
    /\ Direct \subseteq Objects
    /\ \A r, s \in Resources : r # s => ToSet(Parts[r]) \cap ToSet(Parts[s]) = {}

VARIABLES
    config,  \* the value the configuration wants of each resource, or None
    tf,      \* the Terraform state: the values of a resource's parts, or None
    real,    \* the objects at TrueNAS
    run,     \* the Terraform run: idle, refresh, apply
    todo,    \* the resources it still has to read
    op,      \* the CRUD call of each resource
    stray,   \* the jobs nobody waits for any more
    edits, faults

vars == <<config, tf, real, run, todo, op, stray, edits, faults>>

NoOp == [kind |-> "none", step |-> "none", k |-> 0, tries |-> 0, job |-> "none"]
Call(kind) == [NoOp EXCEPT !.kind = kind, !.step = "request", !.k = 1]

\* A resource all of whose parts have the value v.
All(r, v) == [k \in DOMAIN Parts[r] |-> v]
Fact(r)   == [k \in DOMAIN Parts[r] |-> real[Parts[r][k]]]
Object(r) == Parts[r][op[r].k]
Exists(r) == \A k \in DOMAIN Parts[r] : real[Parts[r][k]] # None

TypeOK ==
    /\ config \in [Resources -> Values \cup {None}]
    /\ tf \in [Resources -> {None} \cup UNION {[DOMAIN Parts[r] -> Values] : r \in Resources}]
    /\ \A r \in Resources :
        /\ tf[r] = None \/ tf[r] \in [DOMAIN Parts[r] -> Values]
        /\ op[r].k \in 0..Len(Parts[r])
    /\ real \in [Objects -> Values \cup {None}]
    /\ run \in {"idle", "refresh", "apply"}
    /\ todo \subseteq {r \in Resources : tf[r] # None}
    /\ op \in [Resources ->
         [kind : {"none", "create", "update", "delete"},
          step : {"none", "request", "wait", "back"}, k : Nat, tries : 0..MaxAttempts,
          job : {"none", "running", "success", "failed"}]]
    /\ stray \subseteq [object : Objects, value : Values \cup {None},
                       creates : BOOLEAN]
    /\ edits \in 0..MaxEdits /\ faults \in 0..MaxFaults

\* What the configuration may be: a dataset comes with its parent, and settings and
\* permissions, where the configuration is about them, stay.
Valid(c) ==
    /\ \A r \in Plain : c[r] # None /\ Parent[r] # None => c[Parent[r]] # None
    /\ \E R \in Families : /\ \A r \in Resources \ R : c[r] = None
                          /\ \A r \in R \cap Lasting : c[r] # None

Children(r) == {c \in Plain : Parent[c] = r}

\* The configuration may name resources no run has created yet.
Init ==
    /\ config \in {c \in [Resources -> Values \cup {None}] : Valid(c)}
    /\ \E new \in SUBSET {r \in Resources : config[r] # None}, w \in Values :
         /\ \A r \in new : Children(r) \subseteq new \cup {c \in Plain : config[c] = None}
         /\ tf = [r \in Resources |-> IF config[r] = None \/ r \in new THEN None
                                     ELSE All(r, config[r])]
         /\ real = [o \in Objects |->
                LET r == CHOOSE r \in Resources : o \in ToSet(Parts[r])
                IN  IF r \notin new THEN config[r] ELSE IF r \in Lasting THEN w ELSE None]
    /\ run = "idle" /\ todo = {} /\ stray = {}
    /\ op = [r \in Resources |-> NoOp]
    /\ edits = MaxEdits /\ faults = MaxFaults

Fault   == faults > 0 /\ faults' = faults - 1
NoFault == UNCHANGED faults

Step(r, o) == op' = [op EXCEPT ![r] = o]
\* The call returns; whether with an error makes no difference to Terraform's
\* state beyond what the call has set.
Returns(r) == Step(r, NoOp)
SetState(r, v) == tf' = [tf EXCEPT ![r] = v]

-----------------------------------------------------------------------------
(* Terraform, external.                                                    *)

Edit(r, v) ==
    /\ run = "idle" /\ edits > 0 /\ edits' = edits - 1
    /\ config' = [config EXCEPT ![r] = v] /\ config' # config /\ Valid(config')
    /\ r \in Lasting => config[r] # None /\ v # None
    /\ UNCHANGED <<tf, real, run, todo, op, stray, faults>>

StartRun ==
    /\ run = "idle" /\ run' = "refresh"
    /\ todo' = {r \in Resources : tf[r] # None}
    /\ UNCHANGED <<config, tf, real, op, stray, edits, faults>>

\* A replacement, which is a delete and a create, is not modelled.
Difference(r) ==
    IF tf[r] = None /\ config[r] # None THEN Call("create")
    ELSE IF tf[r] # None /\ config[r] = None THEN Call("delete")
    ELSE IF tf[r] # None /\ tf[r] # All(r, config[r]) THEN Call("update")
    ELSE NoOp

PlanRun ==
    /\ run = "refresh" /\ todo = {} /\ run' = "apply"
    /\ op' = [r \in Resources |-> Difference(r)]
    /\ UNCHANGED <<config, tf, real, todo, stray, edits, faults>>

EndRun ==
    /\ run = "apply" /\ (\A r \in Resources : op[r] = NoOp) /\ run' = "idle"
    /\ UNCHANGED <<config, tf, real, todo, op, stray, edits, faults>>

-----------------------------------------------------------------------------
(* Read.                                                                   *)

\* Mutant: the state keeps what it has when TrueNAS has something else.
KeepsState(r) ==
    /\ run = "refresh" /\ r \in todo /\ Exists(r) /\ NoFault
    /\ todo' = todo \ {r} /\ UNCHANGED tf
    /\ UNCHANGED <<config, real, run, op, stray, edits>>

ReadFinds(r) ==
    /\ run = "refresh" /\ r \in todo /\ Exists(r) /\ NoFault
    /\ SetState(r, Fact(r)) /\ todo' = todo \ {r}
    /\ UNCHANGED <<config, real, run, op, stray, edits>>

\* IsNotFound drops a custom app from the state.
ReadMissesApp(r) ==
    /\ run = "refresh" /\ r \in todo \cap Apps /\ ~Exists(r) /\ NoFault
    /\ SetState(r, None) /\ todo' = todo \ {r}
    /\ UNCHANGED <<config, real, run, op, stray, edits>>

\* Any other failure of a Read fails the run.
ReadFails(r) ==
    /\ run = "refresh" /\ r \in todo
    /\ IF ~Exists(r) /\ r \notin Apps THEN NoFault ELSE Fault
    /\ run' = "idle" /\ todo' = {}
    /\ UNCHANGED <<config, tf, real, op, stray, edits>>

-----------------------------------------------------------------------------
(* Requests: Client.do and the calls built on it.                          *)

Requests(r)      == run = "apply" /\ op[r].step = "request"
Creates(r)       == op[r].kind = "create" /\ r \notin Lasting
ParentMissing(r) == r \in Plain /\ Parent[r] # None /\ real[Parent[r]] = None

\* What TrueNAS accepts: nothing is created twice or without its parent, and a
\* dataset with children is not deleted.
Accepted(r) ==
    IF Creates(r) THEN real[r] = None /\ ~ParentMissing(r)
    ELSE /\ real[Object(r)] # None
         /\ op[r].kind = "delete" => \A c \in Children(r) : real[c] = None

\* The value the call makes its object have, and its effect.
Asked(r)  == IF op[r].kind = "delete" THEN None ELSE config[r]
Effect(r) == real' = [real EXCEPT ![Object(r)] = Asked(r)]

\* A call that goes well leaves in the state what it has asked for.
SetAsked(r) == SetState(r, IF Asked(r) = None THEN None ELSE All(r, Asked(r)))

\* A plain resource is changed and the answer arrives.
PlainDone(r) ==
    /\ Requests(r) /\ r \in Plain /\ Accepted(r) /\ NoFault
    /\ Effect(r) /\ SetAsked(r) /\ Returns(r)
    /\ UNCHANGED <<config, run, todo, stray, edits>>

\* The request does the work itself.
AtOnce(r) == r \in Plain \/ Object(r) \in Direct

\* It is done and the answer, or the read an empty answer asks for, is lost.
AnswerLost(r) ==
    /\ Requests(r) /\ AtOnce(r) /\ Accepted(r) /\ Fault
    /\ Effect(r) /\ Returns(r)
    /\ UNCHANGED <<config, tf, run, todo, stray, edits>>

\* It is refused, or fails before it reaches TrueNAS.
RequestFails(r) ==
    /\ Requests(r) /\ Returns(r)
    /\ \/ ~Accepted(r) /\ NoFault
          /\ ~(Creates(r) /\ ParentMissing(r) /\ op[r].tries < MaxAttempts)
       \/ Fault
    /\ UNCHANGED <<config, tf, real, run, todo, stray, edits>>

\* Mutant: one attempt too many.
RetryOnceMore(r) ==
    /\ Requests(r) /\ Creates(r) /\ ParentMissing(r) /\ op[r].tries <= MaxAttempts
    /\ Step(r, [op[r] EXCEPT !.tries = @ + 1]) /\ NoFault
    /\ UNCHANGED <<config, tf, real, run, todo, stray, edits>>

\* CreateDataset tries again while the parent dataset is missing.
RetryParent(r) ==
    /\ Requests(r) /\ Creates(r) /\ ParentMissing(r) /\ op[r].tries < MaxAttempts
    /\ Step(r, [op[r] EXCEPT !.tries = @ + 1]) /\ NoFault
    /\ UNCHANGED <<config, tf, real, run, todo, stray, edits>>

-----------------------------------------------------------------------------
(* Jobs: waitForJobResponse and waitForJob.                                *)

\* The request starts a job, and its answer is the job's ID.
StartJob(r) ==
    /\ Requests(r) /\ ~AtOnce(r) /\ Accepted(r) /\ NoFault
    /\ Step(r, [op[r] EXCEPT !.step = "wait", !.job = "running"])
    /\ UNCHANGED <<config, tf, real, run, todo, stray, edits>>

\* An answer without a job's ID ends the wait at once: the call goes on as it does when
\* a job has succeeded.
AnsweredDone(r) ==
    /\ Requests(r) /\ r \notin Plain /\ AtOnce(r) /\ Accepted(r) /\ NoFault
    /\ Effect(r) /\ Step(r, [op[r] EXCEPT !.step = "wait", !.job = "success"])
    /\ UNCHANGED <<config, tf, run, todo, stray, edits>>

\* The job of this call, when nobody waits for it any more.
Abandoned(r) == stray' = stray \cup {[object |-> Object(r), value |-> Asked(r),
                                      creates |-> Creates(r)]}

\* The job is started and the answer is lost.
StartLost(r) ==
    /\ Requests(r) /\ ~AtOnce(r) /\ Accepted(r) /\ Fault
    /\ Abandoned(r) /\ Returns(r)
    /\ UNCHANGED <<config, tf, real, run, todo, edits>>

\* TrueNAS runs the jobs of one object one after another, in their order.
Runs(r) == op[r].job = "running" /\ \A j \in stray : j.object # Object(r)

\* The job ends, at TrueNAS.
JobSucceeds(r) ==
    /\ Runs(r) /\ Accepted(r) /\ NoFault
    /\ Effect(r) /\ Step(r, [op[r] EXCEPT !.job = "success"])
    /\ UNCHANGED <<config, tf, run, todo, stray, edits>>

JobFails(r) ==
    /\ Runs(r) /\ (IF Accepted(r) THEN Fault ELSE NoFault)
    /\ Step(r, [op[r] EXCEPT !.job = "failed"])
    /\ UNCHANGED <<config, tf, real, run, todo, stray, edits>>

StrayEnds(j) ==
    /\ j \in stray /\ stray' = stray \ {j}
    /\ real' = IF j.creates <=> real[j.object] = None
               THEN [real EXCEPT ![j.object] = j.value] ELSE real
    /\ UNCHANGED <<config, tf, run, todo, op, edits, faults>>

\* Mutant: the wait is over when the job is there, not when it has succeeded.
PollAny(r, state) == op[r].step = "wait"

\* A poll that finds the job in this state.
Poll(r, state) == op[r].step = "wait" /\ op[r].job = state

\* UpdateAppsConfig goes on with the catalog after docker.
NextPart(r) ==
    /\ Poll(r, "success") /\ op[r].k < Len(Parts[r]) /\ NoFault
    /\ Step(r, [Call(op[r].kind) EXCEPT !.k = op[r].k + 1])
    /\ UNCHANGED <<config, tf, real, run, todo, stray, edits>>

\* The last job has succeeded.  A custom app is put in the state before it is
\* read back, and taken out of it when it was deleted.  Permissions and ACLs are
\* not read back: the state gets what was asked for.
JobsDone(r) ==
    /\ Poll(r, "success") /\ op[r].k = Len(Parts[r]) /\ NoFault
    /\ IF r \in Paths \/ (r \in Apps /\ op[r].kind # "update") THEN SetAsked(r)
       ELSE UNCHANGED tf
    /\ IF r \in Paths \/ op[r].kind = "delete" THEN Returns(r)
       ELSE Step(r, [op[r] EXCEPT !.step = "back", !.job = "none"])
    /\ UNCHANGED <<config, real, run, todo, stray, edits>>

\* A failed job is an error.
JobError(r) ==
    /\ Poll(r, "failed") /\ Returns(r) /\ NoFault
    /\ UNCHANGED <<config, tf, real, run, todo, stray, edits>>

\* The poll fails or the wait runs into its timeout; the job goes on.
PollBreaks(r) ==
    /\ op[r].step = "wait" /\ Object(r) \notin Direct /\ Fault /\ Returns(r)
    /\ IF op[r].job = "running" THEN Abandoned(r) ELSE UNCHANGED stray
    /\ UNCHANGED <<config, tf, real, run, todo, edits>>

ReadBack(r) ==
    /\ op[r].step = "back" /\ Returns(r)
    /\ \/ Exists(r) /\ NoFault /\ SetState(r, Fact(r))
       \/ (IF Exists(r) THEN Fault ELSE NoFault) /\ UNCHANGED tf
    /\ UNCHANGED <<config, real, run, todo, stray, edits>>

Read(r) == ReadFinds(r) \/ ReadMissesApp(r) \/ ReadFails(r)
Crud(r) == \/ PlainDone(r) \/ AnswerLost(r) \/ RequestFails(r) \/ RetryParent(r)
           \/ StartJob(r) \/ AnsweredDone(r) \/ StartLost(r) \/ NextPart(r)
           \/ JobsDone(r) \/ JobError(r) \/ PollBreaks(r) \/ ReadBack(r)
Job(r)  == JobSucceeds(r) \/ JobFails(r)
Terraform == StartRun \/ PlanRun \/ EndRun

Next ==
    \/ Terraform
    \/ \E r \in Resources, v \in Values \cup {None} : Edit(r, v)
    \/ \E r \in Resources : Read(r) \/ Crud(r) \/ Job(r)
    \/ \E j \in stray : StrayEnds(j)

Spec == Init /\ [][Next]_vars

\* Somebody keeps running terraform apply; calls and jobs end.
FairSpec ==
    /\ Spec /\ WF_vars(Terraform) /\ WF_vars(\E j \in stray : StrayEnds(j))
    /\ \A r \in Resources : WF_vars(Read(r)) /\ WF_vars(Crud(r)) /\ WF_vars(Job(r))

-----------------------------------------------------------------------------
(* Properties                                                              *)

\* A resource comes into the Terraform state only when all of it exists at
\* TrueNAS: no call returns before its job has done its work.
InStateExists ==
    [][\A r \in Resources : tf[r] = None /\ tf'[r] # None =>
           \A k \in DOMAIN Parts[r] : real'[Parts[r][k]] # None]_vars

\* Nothing is forgotten while it exists: a resource leaves the state only when
\* TrueNAS has no such object any more, whatever failed and whichever jobs are
\* still running.
ForgottenIsGone ==
    [][\A r \in Resources : tf[r] # None /\ tf'[r] = None =>
           real'[Parts[r][1]] = None]_vars

\* The inductive invariant behind these two.  Calls are under way only while the run
\* applies its plan, each for a part of its resource, and only a call that waits has a
\* job (an answer without one counts as a job that has succeeded), as only an object
\* whose requests start jobs has one left behind; and as long as a call waits for a job
\* that has succeeded, its object is as the call asked for and no job left behind by an
\* earlier call can change it.
Serving ==
    /\ run # "refresh" => todo = {}
    /\ \A r \in Resources :
         /\ op[r].step # "none" => run = "apply" /\ op[r].k \in DOMAIN Parts[r]
         /\ op[r].job # "none" => op[r].step = "wait"
    /\ \A j \in stray : j.object \notin Direct

Obtained ==
    \A r \in Resources : op[r].job = "success" =>
        /\ real[Object(r)] = Asked(r)
        /\ \A j \in stray : j.object # Object(r)

IInv == TypeOK /\ Serving /\ Obtained

\* What a failed request can leave for good: an object of a creation whose
\* answer never came, which is created in vain ever after, and is in the way when
\* its parent is to be deleted ...
Untracked(r) ==
    /\ faults # MaxFaults /\ r \notin Lasting
    /\ \E s \in {r} \cup Children(r) : tf[s] = None /\ real[s] # None

\* ... or the state of a deleted dataset or share, whose Read fails ever after,
\* and every run with it.
Blocked ==
    /\ faults # MaxFaults
    /\ \E r \in Plain : tf[r] # None /\ real[r] = None

Right(r) ==
    IF config[r] = None THEN tf[r] = None /\ real[Parts[r][1]] = None
    ELSE tf[r] = All(r, config[r]) /\ Fact(r) = tf[r]

\* Applies converge: after the last edit and the last failure, state and TrueNAS
\* end up as the configuration wants them, from whatever was left half-way, two
\* settings of which one was changed, or a job that ends after its call.  Only
\* what a failure has left untracked or blocked stays.
Converges ==
    <>[]Blocked \/ \A r \in Resources : <>[]Right(r) \/ <>[]Untracked(r)

\* What the comment in customAppResource.Create says: a transient failure cannot
\* leave the created app untracked, where a later apply would create it again.
CreatedIsTracked ==
    \A r \in Apps : run = "idle" /\ real[r] # None => tf[r] # None
=============================================================================
