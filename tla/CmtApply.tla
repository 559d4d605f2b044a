------------------------------ MODULE CmtApply ------------------------------
(***************************************************************************)
(* Whole runs of `cmt apply`: somebody's command with its filters resolves *)
(* its targets, locks them one by one, plans host by host (the projects of *)
(* a host at the same time), passes the hooks and the prompt, applies      *)
(* target by target until one fails, and releases its locks.  Several      *)
(* commands run beside each other, and the repository changes under them.  *)
(* What a lock is made of is in CmtLock, what happens inside a project in  *)
(* CmtSync: here both are one step that works or fails.                    *)
(***************************************************************************)
EXTENDS CmtConfig, Integers

CONSTANTS
    Commands,
    NHosts,       \* hosts, in the order of config.yml
    NProjects,    \* projects, in the order of the directory listing
    Contents,     \* what the repository may want at a target, or a target may have
    Filters,      \* the pairs of a host and a project filter that commands are given
    Listings,     \* what the host.yml of a host may name
    MaxEdits,     \* edits of the repository
    MaxFaults,    \* failures and kills
    None,         \* nobody; nothing there; not planned
    Torn,         \* what a project that failed half-way is
    Unread,       \* what a plan has where it could not look, and writes
    Unnoticed     \* what a plan has where it could not look, and sees nothing to do

Hosts    == 1 .. NHosts
Projects == 1 .. NProjects
Targets  == Hosts \X Projects
Unseen   == {Unread, Unnoticed}
Entry    == [saw : Contents \cup {None, Torn} \cup Unseen, to : Contents]

ASSUME ApplyAssumption ==
    /\ NHosts \in Nat /\ NProjects \in Nat
    /\ MaxEdits \in Nat /\ MaxFaults \in Nat
    /\ Filters \subseteq (SUBSET Hosts) \X (SUBSET Projects) /\ Listings \subseteq SUBSET Projects
    /\ None \notin Commands \cup Contents /\ Torn \notin Contents \cup {None}
    /\ Unseen \cap (Contents \cup {None, Torn}) = {} /\ Unread # Unnoticed /\ None \notin Entry

VARIABLES
    dirs,      \* the projects that have a directory in the repository
    listed,    \* listed[h]: the projects that host.yml of h names
    want,      \* want[t]: the rendered files of a target
    site,      \* site[t]: what is at the host
    lock,      \* lock[t]: the command whose lock file is there
    pc,        \* pc[c]: the stage of command c
    hostFilter, projectFilter,
    targets,   \* targets[c]: the targets c found before it locked them
    got,       \* got[c]: the locks it has
    found,     \* found[c]: the projects it found when it began to plan
    todo,      \* todo[c]: the targets of the host it is planning, not planned yet
    hosts,     \* hosts[c]: the hosts not planned yet
    plan,      \* plan[c]: what it saw and wants at each target
    unknown,   \* unknown[c]: a directory of the plan could not be checked
    left,      \* left[c]: planned changes that are not applied yet
    ret,       \* ret[c]: what it returns, or has returned
    relisted,  \* history: relisted[c], the projects are others than when c resolved its targets
    unguarded, \* history: the targets that were written to without their lock
    edits, faults

repo    == <<dirs, listed, want>>
history == <<relisted, unguarded>>
flags   == <<hostFilter, projectFilter>>
locks   == <<lock, targets, got>>
planned == <<found, todo, hosts, plan, unknown>>
vars    == <<repo, site, locks, pc, flags, planned, left, ret, history, edits, faults>>

Stages == {"idle", "resolve", "lock", "discover", "host", "project", "check", "beforePlan",
           "beforeApplyPrompt", "prompt", "beforeApply", "apply", "release"}

TypeOK ==
    /\ dirs \subseteq Projects /\ listed \in [Hosts -> Listings]
    /\ want \in [Targets -> Contents] /\ site \in [Targets -> Contents \cup {None, Torn}]
    /\ lock \in [Targets -> Commands \cup {None}]
    /\ pc \in [Commands -> Stages]
    /\ hostFilter \in [Commands -> SUBSET Hosts]
    /\ projectFilter \in [Commands -> SUBSET Projects]
    /\ targets \in [Commands -> SUBSET Targets] /\ got \in [Commands -> SUBSET Targets]
    /\ found \in [Commands -> SUBSET Projects] /\ todo \in [Commands -> SUBSET Targets]
    /\ hosts \in [Commands -> SUBSET Hosts]
    /\ plan \in [Commands -> [Targets -> Entry \cup {None}]]
    /\ unknown \in [Commands -> BOOLEAN]
    /\ left \in [Commands -> SUBSET Targets]
    /\ ret \in [Commands -> {"ok", "cancelled", "error"}]
    /\ relisted \in [Commands -> BOOLEAN] /\ unguarded \subseteq Targets
    /\ edits \in 0 .. MaxEdits /\ faults \in 0 .. MaxFaults

NoPlan == [t \in Targets |-> None]

Init ==
    /\ dirs = Projects
    /\ \E P \in Listings : listed = [h \in Hosts |-> P]
    /\ \E c \in Contents : want = [t \in Targets |-> c]
    /\ site = [t \in Targets |-> None]
    /\ lock = [t \in Targets |-> None]
    /\ pc = [c \in Commands |-> "idle"]
    /\ hostFilter = [c \in Commands |-> {}] /\ projectFilter = [c \in Commands |-> {}]
    /\ targets = [c \in Commands |-> {}] /\ got = [c \in Commands |-> {}]
    /\ found = [c \in Commands |-> {}] /\ todo = [c \in Commands |-> {}]
    /\ hosts = [c \in Commands |-> {}]
    /\ plan = [c \in Commands |-> NoPlan] /\ unknown = [c \in Commands |-> FALSE]
    /\ left = [c \in Commands |-> {}] /\ ret = [c \in Commands |-> "ok"]
    /\ relisted = [c \in Commands |-> FALSE] /\ unguarded = {}
    /\ edits = MaxEdits /\ faults = MaxFaults

-----------------------------------------------------------------------------
Before(t, u) == t[1] < u[1] \/ (t[1] = u[1] /\ t[2] <= u[2])
First(S) == {t \in S : \A u \in S : Before(t, u)}

\* The targets at host h when the projects of the repository are P.
HostTargets(c, h, P) ==
    {h} \X filterHostProjects(listed[h], Filtered(P, projectFilter[c]))

\* A filter that leaves no project, or none of a host's, is an error.
Unmatched(c, h, P) == HostTargets(c, h, P) = {}

Goto(c, stage) == pc' = [pc EXCEPT ![c] = stage]

\* The process is gone, and what it knew with it.
Exit(c) ==
    /\ Goto(c, "idle")
    /\ hostFilter' = [hostFilter EXCEPT ![c] = {}] /\ projectFilter' = [projectFilter EXCEPT ![c] = {}]
    /\ targets' = [targets EXCEPT ![c] = {}] /\ got' = [got EXCEPT ![c] = {}]
    /\ found' = [found EXCEPT ![c] = {}] /\ todo' = [todo EXCEPT ![c] = {}]
    /\ hosts' = [hosts EXCEPT ![c] = {}] /\ plan' = [plan EXCEPT ![c] = NoPlan]
    /\ unknown' = [unknown EXCEPT ![c] = FALSE] /\ left' = [left EXCEPT ![c] = {}]
    /\ ret' = [ret EXCEPT ![c] = "ok"]
    /\ relisted' = [relisted EXCEPT ![c] = FALSE] /\ UNCHANGED unguarded
Fault == faults > 0 /\ faults' = faults - 1

\* The command is over but for its locks.
Returns(c, r) == Goto(c, "release") /\ ret' = [ret EXCEPT ![c] = r]

-----------------------------------------------------------------------------
(* runApplyCmd: targets and locks *)

Start(c, H, P) ==
    /\ pc[c] = "idle"
    /\ hostFilter' = [hostFilter EXCEPT ![c] = H]
    /\ projectFilter' = [projectFilter EXCEPT ![c] = P]
    /\ Goto(c, "resolve")
    /\ UNCHANGED <<repo, site, locks, planned, left, ret, history, edits, faults>>

\* ResolveLockTargets, with one look at the repository.  What cannot be read, or an ssh
\* configuration that cannot be resolved, fails it.
ResolveLockTargets(c) ==
    LET H == Filtered(Hosts, hostFilter[c])
        unmatched == \E h \in H : Unmatched(c, h, dirs)
    IN  /\ pc[c] = "resolve"
        /\ \/ /\ ~unmatched
              /\ targets' = [targets EXCEPT ![c] = UNION {HostTargets(c, h, dirs) : h \in H}]
              /\ Goto(c, "lock")
              /\ UNCHANGED <<ret, faults>>
           \/ /\ IF unmatched THEN UNCHANGED faults ELSE Fault
              /\ Returns(c, "error")
              /\ UNCHANGED targets
        /\ UNCHANGED <<repo, site, lock, got, flags, planned, left, history, edits>>

Locks(c, t) ==
    /\ lock' = [lock EXCEPT ![t] = c]
    /\ got' = [got EXCEPT ![c] = @ \cup {t}]
    /\ Goto(c, IF targets[c] \subseteq got[c] \cup {t} THEN "discover" ELSE "lock")

\* Mutant: a lock that is there is taken over.
TakesOver(c) ==
    /\ pc[c] = "lock"
    /\ \E t \in First(targets[c] \ got[c]) : Locks(c, t)
    /\ UNCHANGED <<repo, site, targets, flags, planned, left, ret, history, edits, faults>>

\* acquireRemoteLocks: one after the other; what is locked, or out of reach, ends it.  An
\* answer that is lost leaves a lock nobody knows of.
AcquireRemoteLocks(c) ==
    /\ pc[c] = "lock"
    /\ \E t \in First(targets[c] \ got[c]) :
       \/ lock[t] = None /\ Locks(c, t) /\ UNCHANGED <<ret, faults>>
       \/ lock[t] # None /\ Returns(c, "error") /\ UNCHANGED <<lock, got, faults>>
       \/ /\ lock[t] = None /\ Fault
          /\ lock' \in {lock, [lock EXCEPT ![t] = c]}
          /\ Returns(c, "error")
          /\ UNCHANGED got
    /\ UNCHANGED <<repo, site, targets, flags, planned, left, history, edits>>

-----------------------------------------------------------------------------
(* BuildPlanWithDeps *)

\* The projects of the repository are listed again, unless that fails.
Discover(c) ==
    /\ pc[c] = "discover"
    /\ \/ /\ found' = [found EXCEPT ![c] = dirs]
          /\ hosts' = [hosts EXCEPT ![c] = Filtered(Hosts, hostFilter[c])]
          /\ Goto(c, "host")
          /\ UNCHANGED <<ret, faults>>
       \/ Fault /\ Returns(c, "error") /\ UNCHANGED <<found, hosts>>
    /\ UNCHANGED <<repo, site, locks, flags, todo, plan, unknown, left, history, edits>>

\* Mutant: the plan is about every project there is.
PlansUnfiltered(c) ==
    /\ pc[c] = "host"
    /\ \E h \in {h \in hosts[c] : \A g \in hosts[c] : h <= g} :
       /\ hosts' = [hosts EXCEPT ![c] = @ \ {h}]
       /\ todo' = [todo EXCEPT ![c] = {h} \X found[c]]
    /\ Goto(c, "project")
    /\ UNCHANGED <<repo, site, locks, flags, found, plan, unknown, left, ret, history, edits, faults>>

\* buildHostPlanForTarget: host.yml is read again, the connection made.
PlanHost(c) ==
    /\ pc[c] = "host"
    /\ \E h \in {h \in hosts[c] : \A g \in hosts[c] : h <= g} :
       \/ /\ ~Unmatched(c, h, found[c])
          /\ hosts' = [hosts EXCEPT ![c] = @ \ {h}]
          /\ todo' = [todo EXCEPT ![c] = HostTargets(c, h, found[c])]
          /\ Goto(c, "project")
          /\ UNCHANGED <<ret, faults>>
       \/ /\ IF Unmatched(c, h, found[c]) THEN UNCHANGED faults ELSE Fault
          /\ Returns(c, "error")
          /\ UNCHANGED <<hosts, todo>>
    /\ UNCHANGED <<repo, site, locks, flags, found, plan, unknown, left, history, edits>>

\* buildProjectPlanForHost, for the projects of the host in any order.  Files and directories
\* that cannot be looked at are planned like missing ones.  A manifest that cannot be read is
\* one without files to delete, and services that cannot be queried none to start: the plan
\* may then have no change where there is one.  A project whose plan fails (a template, a
\* compose.yml that is not valid) fails the command.
PlanProject(c, t) ==
    /\ pc[c] = "project" /\ t \in todo[c]
    /\ todo' = [todo EXCEPT ![c] = @ \ {t}]
    /\ \/ /\ plan' = [plan EXCEPT ![c][t] = [saw |-> site[t], to |-> want[t]]]
          /\ UNCHANGED <<unknown, faults>>
       \/ /\ Fault
          /\ plan' = [plan EXCEPT ![c][t] = [saw |-> Unread, to |-> want[t]]]
          /\ \E u \in BOOLEAN : unknown' = [unknown EXCEPT ![c] = @ \/ u]
       \/ /\ Fault
          /\ plan' = [plan EXCEPT ![c][t] = [saw |-> Unnoticed, to |-> want[t]]]
          /\ UNCHANGED unknown
    /\ UNCHANGED <<repo, site, locks, pc, flags, found, hosts, left, ret, history, edits>>

PlanFails(c) ==
    /\ pc[c] = "project" /\ todo[c] # {}
    /\ Fault
    /\ Returns(c, "error")
    /\ todo' = [todo EXCEPT ![c] = {}]
    /\ UNCHANGED <<repo, site, locks, flags, found, hosts, plan, unknown, left, history, edits>>

HostPlanned(c) ==
    /\ pc[c] = "project" /\ todo[c] = {}
    /\ Goto(c, IF hosts[c] = {} THEN "check" ELSE "host")
    /\ UNCHANGED <<repo, site, locks, flags, planned, left, ret, history, edits, faults>>

-----------------------------------------------------------------------------
(* ApplyWithDeps *)

Planned(c) == {t \in Targets : plan[c][t] # None}
Changed(c) == {t \in Planned(c) : plan[c][t].saw \notin {Unnoticed, plan[c][t].to}}

\* verifyExpectedPlanSHA256, which knows another plan (ApplyGates has how that comes);
\* handleNoChanges, whose refresh of the manifests may fail.
CheckChanges(c) ==
    /\ pc[c] = "check"
    /\ \/ Returns(c, "error") /\ UNCHANGED faults
       \/ Changed(c) # {} /\ Goto(c, "beforePlan") /\ UNCHANGED <<ret, faults>>
       \/ Changed(c) = {} /\ Returns(c, "ok") /\ UNCHANGED faults
       \/ Changed(c) = {} /\ Returns(c, "error") /\ Fault
    /\ UNCHANGED <<repo, site, locks, flags, planned, left, history, edits>>

After(stage) == CASE stage = "beforePlan" -> "beforeApplyPrompt"
                  [] stage = "beforeApplyPrompt" -> "prompt"
                  [] stage = "prompt" -> "beforeApply"
                  [] stage = "beforeApply" -> "apply"

Proceed(c) ==
    /\ Goto(c, After(pc[c]))
    /\ left' = IF pc[c] = "beforeApply" THEN [left EXCEPT ![c] = Changed(c)] ELSE left

\* runHook: exit code 1 cancels, and another one but 0, or a command that cannot be run,
\* fails.
Stops == {"cancelled", "error"}

\* There is no limit on how long hooks and prompt take.
Hook(c) ==
    /\ pc[c] \in {"beforePlan", "beforeApplyPrompt", "beforeApply"}
    /\ \/ Proceed(c) /\ UNCHANGED ret
       \/ \E r \in Stops : Returns(c, r) /\ UNCHANGED left
    /\ UNCHANGED <<repo, site, locks, flags, planned, history, edits, faults>>

ConfirmApply(c) ==
    /\ pc[c] = "prompt"
    /\ \/ Proceed(c) /\ UNCHANGED ret
       \/ Returns(c, "cancelled") /\ UNCHANGED left
    /\ UNCHANGED <<repo, site, locks, flags, planned, history, edits, faults>>

Writes(c, t, s) ==
    /\ site' = [site EXCEPT ![t] = s]
    /\ unguarded' = IF lock[t] = c THEN unguarded ELSE unguarded \cup {t}

\* Mutant: a project that fails does not stop the others.
CarriesOn(c) ==
    /\ pc[c] = "apply"
    /\ \E t \in First(left[c]) :
       /\ \/ Writes(c, t, plan[c][t].to) /\ UNCHANGED faults
          \/ Fault /\ \E s \in {site[t], Torn, plan[c][t].to} : Writes(c, t, s)
       /\ left' = [left EXCEPT ![c] = @ \ {t}]
    /\ UNCHANGED <<repo, locks, pc, flags, planned, ret, relisted, edits>>

\* applyAllHosts: host by host and project by project, those without changes left out;
\* the first connection or project that fails ends it.
ApplyProject(c) ==
    /\ pc[c] = "apply"
    /\ \E t \in First(left[c]) :
       \/ /\ Writes(c, t, plan[c][t].to)
          /\ left' = [left EXCEPT ![c] = @ \ {t}]
          /\ UNCHANGED <<pc, ret, faults>>
       \/ /\ Fault
          /\ \E s \in {site[t], Torn, plan[c][t].to} : Writes(c, t, s)
          /\ Returns(c, "error")
          /\ left' = [left EXCEPT ![c] = {}]
    /\ UNCHANGED <<repo, locks, flags, planned, relisted, edits>>

\* All is applied; what could not be checked is told now.
Applied(c) ==
    /\ pc[c] = "apply" /\ left[c] = {}
    /\ Returns(c, IF unknown[c] THEN "error" ELSE "ok")
    /\ UNCHANGED <<repo, site, locks, flags, planned, left, history, edits, faults>>

\* The deferred release, lock by lock.  A failure leaves the lock, and is returned when
\* there is no other error.
Release(c) ==
    /\ pc[c] = "release"
    /\ \/ got[c] = {} /\ Exit(c) /\ UNCHANGED <<lock, faults>>
       \/ /\ \E t \in First(got[c]) :
             /\ got' = [got EXCEPT ![c] = @ \ {t}]
             /\ \/ lock' = [lock EXCEPT ![t] = None] /\ UNCHANGED <<ret, faults>>
                \/ Fault /\ ret' = [ret EXCEPT ![c] = "error"] /\ UNCHANGED lock
          /\ UNCHANGED <<pc, targets, flags, planned, left, history>>
    /\ UNCHANGED <<repo, site, edits>>

-----------------------------------------------------------------------------
(* Around the commands *)

\* The process is killed.
Kill(c) ==
    /\ pc[c] # "idle"
    /\ Fault
    /\ Exit(c)
    /\ UNCHANGED <<repo, site, lock, edits>>

\* force-unlock of a lock whose command is over.
ForceUnlock(t) ==
    /\ lock[t] # None /\ t \notin got[lock[t]]
    /\ lock' = [lock EXCEPT ![t] = None]
    /\ UNCHANGED <<repo, site, targets, got, pc, flags, planned, left, ret, history, edits, faults>>

\* Somebody edits the files of a target, host.yml, or adds or removes a project.
Edit ==
    /\ edits > 0 /\ edits' = edits - 1
    /\ \/ /\ \E t \in Targets, v \in Contents : want' = [want EXCEPT ![t] = v]
          /\ UNCHANGED <<dirs, listed, relisted>>
       \/ /\ \/ \E h \in Hosts, P \in Listings : listed' = [listed EXCEPT ![h] = P] /\ UNCHANGED dirs
             \/ \E p \in Projects : /\ dirs' = IF p \in dirs THEN dirs \ {p} ELSE dirs \cup {p}
                                   /\ UNCHANGED listed
          /\ relisted' = [c \in Commands |-> pc[c] # "idle"]
          /\ UNCHANGED want
    /\ repo' # repo
    /\ UNCHANGED <<site, locks, pc, flags, planned, left, ret, unguarded, faults>>

Step(c) ==
    \/ ResolveLockTargets(c) \/ AcquireRemoteLocks(c) \/ Discover(c) \/ PlanHost(c)
    \/ (\E t \in Targets : PlanProject(c, t)) \/ PlanFails(c) \/ HostPlanned(c)
    \/ CheckChanges(c) \/ Hook(c) \/ ApplyProject(c) \/ Applied(c) \/ Release(c)

Next ==
    \/ \E c \in Commands :
         \/ \E f \in Filters : Start(c, f[1], f[2])
         \/ Step(c) \/ ConfirmApply(c) \/ Kill(c)
    \/ \E t \in Targets : ForceUnlock(t)
    \/ Edit

Spec == Init /\ [][Next]_vars

-----------------------------------------------------------------------------
(* Properties *)

Planning == {"host", "project"}
Waiting  == {"check", "beforePlan", "beforeApplyPrompt", "prompt", "beforeApply"}

\* What a command has planned and somebody has agreed to is still so at the host when it is
\* applied, however long hooks and prompt took: the locks keep other applies away
\* (runApplyCmd holds them from before the plan until it returns), but from where somebody
\* writes without a lock.
PlanHolds ==
    \A c \in Commands : \A t \in (Planned(c) \cap got[c]) \ unguarded :
        LET p == plan[c][t] IN
        /\ pc[c] \in Planning \cup Waiting /\ p.saw \notin Unseen => site[t] = p.saw
        /\ pc[c] = "apply" /\ t \in left[c] /\ p.saw \notin Unseen => site[t] = p.saw
        /\ pc[c] = "apply" /\ t \notin left[c] /\ p.saw # Unnoticed => site[t] = p.to

\* A command that reports success has made every target it locked what the plan wants
\* there, unless the projects were listed anew on its way (applyAllHosts, Applied), and but
\* for targets where a failed look showed it nothing to do.
OkMeansApplied ==
    \A c \in Commands : pc[c] = "release" /\ ret[c] = "ok" /\ got[c] = targets[c] /\ ~relisted[c] =>
        \A t \in targets[c] \ unguarded :
            plan[c][t] # None /\ (plan[c][t].saw # Unnoticed => site[t] = plan[c][t].to)

\* While the list of projects stays as it was when a command resolved its locks, it writes
\* only where it holds a lock: plan and locks are filtered alike (ResolveLockTargets
\* "mirrors the plan's project discovery").
WritesUnderLock ==
    [][\A c \in Commands, t \in Targets :
         pc[c] = "apply" /\ left'[c] # left[c] /\ site'[t] # site[t] => lock[t] = c \/ relisted[c]]_vars

Reserved(c) == IF pc[c] \in {"discover", "apply"} \cup Planning \cup Waiting THEN got[c] ELSE {}

Reservation == INSTANCE CmtReservation
                 WITH Applies <- Commands, broken <- {}, busy <- [c \in Commands |-> Reserved(c)]

\* Seen from outside, a command reserves all the targets it works on at once, and what it
\* has reserved nobody else has (acquireRemoteLocks takes the locks one by one).
ReservationSpec == Reservation!Spec

=============================================================================
