---------------------------- MODULE CmtApplyProofs ----------------------------
(***************************************************************************)
(* Proofs about CmtConfig and CmtApply.                                    *)
(***************************************************************************)
EXTENDS CmtApply, TLAPS

\* What is resolved for a setting is what README.md documents, whatever the levels say: the
\* project's entry in host.yml is stronger than host.yml, and that is stronger than the
\* defaults (ResolveProjectConfig).
THEOREM ResolvedAsDocumented == AgreesOn(Levels, Entries)
<1> SUFFICES ASSUME NEW defaults \in Levels \cup {Unset}, NEW hostCfg \in Levels \cup {Unset},
                    NEW entry \in Entries \cup {Unset}, NEW s \in Settings
             PROVE  ResolveProjectConfig(defaults, hostCfg, entry)[s]
                      = Documented(defaults, hostCfg, entry, s)
  BY DEF AgreesOn
<1> DEFINE one == resolveFromDefaults(defaults)
           two == applyHostOverrides(one, hostCfg)
           three == applyProjectOverrides(two, hostCfg, entry)
           says == Says(defaults, hostCfg, entry, s)
<1>1. one \in [Settings -> Values \cup {Unset}]
        /\ one[s] = IF 1 \in says THEN defaults[s] ELSE Unset
  <2>1. CASE defaults = Unset
    <3>1. one = [r \in Settings |-> Unset]  BY <2>1 DEF resolveFromDefaults
    <3>2. 1 \notin says  BY <2>1 DEF Says
    <3> QED BY <3>1, <3>2
  <2>2. CASE defaults # Unset
    <3>1. one = [r \in Settings |-> IF r \in Own THEN Unset ELSE defaults[r]]
      BY <2>2 DEF resolveFromDefaults
    <3>2. defaults \in [Shared -> Values \cup {Unset}]  BY <2>2 DEF Levels
    <3>3. \A r \in Settings : r \in Own <=> r \notin Shared  BY DEF Settings, Own, Shared
    <3>4. 1 \in says <=> s \in Shared /\ defaults[s] # Unset  BY <2>2 DEF Says
    <3> HIDE DEF one, says
    <3> QED BY <3>1, <3>2, <3>3, <3>4
  <2> QED BY <2>1, <2>2
<1>2. two \in [Settings -> Values \cup {Unset}]
        /\ two[s] = IF 2 \in says THEN hostCfg[s] ELSE one[s]
  <2> HIDE DEF one
  <2>1. CASE hostCfg = Unset  BY <1>1, <2>1 DEF applyHostOverrides, Says
  <2>2. CASE hostCfg # Unset
    <3>1. two = [r \in Settings |-> IF r \in Shared /\ hostCfg[r] # Unset THEN hostCfg[r] ELSE one[r]]
      BY <2>2 DEF applyHostOverrides, Override
    <3>2. hostCfg \in [Shared -> Values \cup {Unset}]  BY <2>2 DEF Levels
    <3>3. 2 \in says <=> s \in Shared /\ hostCfg[s] # Unset  BY <2>2 DEF Says
    <3> HIDE DEF two, says
    <3> QED BY <1>1, <3>1, <3>2, <3>3
  <2> QED BY <2>1, <2>2
<1>3. three \in [Settings -> Values \cup {Unset}]
        /\ three[s] = IF 3 \in says THEN entry[s] ELSE two[s]
  <2> HIDE DEF two
  <2>1. CASE hostCfg = Unset \/ entry = Unset  BY <1>2, <2>1 DEF applyProjectOverrides, Says
  <2>2. CASE hostCfg # Unset /\ entry # Unset
    <3>1. three = [r \in Settings |-> IF r \in Settings /\ entry[r] # Unset THEN entry[r] ELSE two[r]]
      BY <2>2 DEF applyProjectOverrides, Override
    <3>2. entry \in [Settings -> Values \cup {Unset}]  BY <2>2 DEF Entries
    <3>3. 3 \in says <=> entry[s] # Unset  BY <2>2 DEF Says
    <3> HIDE DEF three, says
    <3> QED BY <1>2, <3>1, <3>2, <3>3
  <2> QED BY <2>1, <2>2
<1>4. ResolveProjectConfig(defaults, hostCfg, entry)[s]
        = IF three[s] # Unset THEN three[s]
          ELSE IF s = "composeAction" THEN Up
          ELSE IF s = "templateVarSources" THEN Patterns ELSE Unset
  <2> HIDE DEF three
  <2>1. ResolveProjectConfig(defaults, hostCfg, entry) = Normalize(three)
    BY DEF ResolveProjectConfig, three, two, one
  <2>2. {"composeAction", "templateVarSources"} \subseteq Settings  BY DEF Settings, Shared
  <2> QED BY <1>3, <2>1, <2>2
         DEF Normalize, normalizeComposeAction, normalizeTemplateVarSources
<1>5. /\ says \subseteq {1, 2, 3}
      /\ 1 \in says => defaults[s] # Unset
      /\ 2 \in says => hostCfg[s] # Unset
      /\ 3 \in says => entry[s] # Unset
  BY DEF Says
<1> HIDE DEF one, two, three, says
<1>6. Documented(defaults, hostCfg, entry, s)
        = CASE 3 \in says -> entry[s]
            [] 2 \in says /\ 3 \notin says -> hostCfg[s]
            [] says = {1} -> defaults[s]
            [] says = {} /\ s = "composeAction" -> Up
            [] says = {} /\ s = "templateVarSources" -> Patterns
            [] says = {} /\ s \notin {"composeAction", "templateVarSources"} -> Unset
  BY DEF Documented, says
<1>7. CASE 3 \in says  BY <1>1, <1>2, <1>3, <1>4, <1>5, <1>6, <1>7
<1>8. CASE 3 \notin says /\ 2 \in says  BY <1>1, <1>2, <1>3, <1>4, <1>5, <1>6, <1>8
<1>9. CASE says = {1}  BY <1>1, <1>2, <1>3, <1>4, <1>5, <1>6, <1>9
<1>10. CASE says = {}  BY <1>1, <1>2, <1>3, <1>4, <1>5, <1>6, <1>10
<1> QED BY <1>5, <1>7, <1>8, <1>9, <1>10

-----------------------------------------------------------------------------
(* The invariant *)

Early   == {"idle", "resolve", "lock", "discover"}
Working == {"discover", "apply"} \cup Planning \cup Waiting

\* A command has the locks it knows of, all of them from when it begins to plan.
LockPart(c) ==
    /\ \A t \in got[c] : lock[t] = c
    /\ got[c] \subseteq targets[c]
    /\ pc[c] \in {"idle", "resolve"} => got[c] = {}
    /\ pc[c] \in Working => targets[c] \subseteq got[c]

\* A plan is begun after the locks are taken, and only what is planned is applied.
PlanPart(c) ==
    /\ pc[c] \in Early => plan[c] = NoPlan
    /\ pc[c] \in Early \cup {"host"} => todo[c] = {}
    /\ pc[c] = "apply" => left[c] \subseteq Planned(c)

Asked(c)    == Filtered(Hosts, hostFilter[c])
Over(c, H)  == UNION {HostTargets(c, h, dirs) : h \in H}

\* Unless the projects are listed anew, what is planned, or still to be planned, is what was
\* locked: both are found with the same filters.
MirrorPart(c) ==
    ~relisted[c] =>
      /\ pc[c] \in {"lock"} \cup Working => targets[c] = Over(c, Asked(c))
      /\ pc[c] \in Planning => /\ found[c] = dirs
                               /\ targets[c] = Over(c, hosts[c]) \cup todo[c] \cup Planned(c)
      /\ pc[c] \in Waiting \cup {"apply"} => Planned(c) = targets[c]

\* PlanHolds and OkMeansApplied of one command.
HoldsPart(c) ==
    \A t \in (Planned(c) \cap got[c]) \ unguarded :
        LET p == plan[c][t] IN
        /\ pc[c] \in Planning \cup Waiting /\ p.saw \notin Unseen => site[t] = p.saw
        /\ pc[c] = "apply" /\ t \in left[c] /\ p.saw \notin Unseen => site[t] = p.saw
        /\ pc[c] = "apply" /\ t \notin left[c] /\ p.saw # Unnoticed => site[t] = p.to

AsPlanned(c, t) == plan[c][t].saw # Unnoticed => site[t] = plan[c][t].to

OkPart(c) ==
    pc[c] = "release" /\ ret[c] = "ok" /\ got[c] = targets[c] /\ ~relisted[c] =>
        \A t \in targets[c] \ unguarded : plan[c][t] # None /\ AsPlanned(c, t)

CInv(c) == LockPart(c) /\ PlanPart(c) /\ MirrorPart(c) /\ HoldsPart(c) /\ OkPart(c)
IInv == TypeOK /\ \A c \in Commands : CInv(c)

-----------------------------------------------------------------------------
(* A command leaves the others alone *)

Row(c) == <<pc[c], hostFilter[c], projectFilter[c], targets[c], got[c], found[c], todo[c],
            hosts[c], plan[c], left[c], ret[c], relisted[c]>>

\* What the invariant of a command depends on stays, but for writes that are noted.
Undisturbed(c) ==
    /\ Row(c)' = Row(c)
    /\ dirs' = dirs /\ listed' = listed
    /\ \A t \in got[c] : lock'[t] = c
    /\ \A t \in got[c] : t \in unguarded' \/ site'[t] = site[t]
    /\ unguarded \subseteq unguarded'

\* The invariant of a command that is left alone stays.
LEMMA Stays ==
    ASSUME NEW c \in Commands, CInv(c), Undisturbed(c)
    PROVE  CInv(c)'
<1> USE DEF Undisturbed, Row
<1>1. LockPart(c)'
  BY DEF CInv, LockPart
<1>2. PlanPart(c)'
  BY DEF CInv, PlanPart, Planned, NoPlan
<1>4. MirrorPart(c)'
  <2>1. Over(c, Asked(c))' = Over(c, Asked(c)) /\ Over(c, hosts[c])' = Over(c, hosts[c])
    BY DEF Over, Asked, HostTargets, Filtered, filterHostProjects
  <2>2. Planned(c)' = Planned(c)
    BY DEF Planned
  <2> QED
    BY <2>1, <2>2 DEF CInv, MirrorPart
<1>5. HoldsPart(c)'
  BY DEF CInv, HoldsPart, Planned
<1>6. OkPart(c)'
  BY DEF CInv, OkPart, AsPlanned, LockPart
<1> QED
  BY <1>1, <1>2, <1>4, <1>5, <1>6 DEF CInv

-----------------------------------------------------------------------------
(* Types *)

LEMMA FilteredIn == \A S, F : Filtered(S, F) \subseteq S
  BY DEF Filtered

LEMMA TargetsIn ==
    ASSUME NEW c \in Commands, NEW h \in Hosts, NEW P \in SUBSET Projects
    PROVE  HostTargets(c, h, P) \subseteq Targets
  BY FilteredIn DEF HostTargets, filterHostProjects, Targets

LEMMA InitInv == Init => IInv
<1> SUFFICES ASSUME Init PROVE IInv
  OBVIOUS
<1>1. TypeOK
  BY ApplyAssumption DEF Init, TypeOK, NoPlan, Stages, Targets
<1>2. \A c \in Commands : Planned(c) = {}
  BY DEF Init, Planned, NoPlan
<1>3. \A c \in Commands : CInv(c)
  BY <1>2 DEF Init, CInv, LockPart, PlanPart, MirrorPart, HoldsPart, OkPart, Working, Planning,
              Waiting, Early
<1> QED
  BY <1>1, <1>3 DEF IInv

\* The process is gone: every type stays.
LEMMA ExitType ==
    ASSUME TypeOK, NEW c \in Commands, Exit(c), lock' \in [Targets -> Commands \cup {None}],
           faults' \in 0 .. MaxFaults, UNCHANGED <<repo, site, edits>>
    PROVE  TypeOK'
  BY DEF TypeOK, Exit, Goto, NoPlan, repo, Stages, Entry

LEMMA FaultType == ASSUME TypeOK, Fault PROVE faults' \in 0 .. MaxFaults
  BY ApplyAssumption DEF TypeOK, Fault

LEMMA StartType ==
    ASSUME TypeOK, NEW c \in Commands, NEW f \in Filters, Start(c, f[1], f[2])
    PROVE  TypeOK'
<1>1. f[1] \in SUBSET Hosts /\ f[2] \in SUBSET Projects
  BY ApplyAssumption
<1> QED
  BY <1>1 DEF TypeOK, Start, Goto, Stages, repo, locks, planned, history

LEMMA AcquiringType ==
    ASSUME TypeOK, NEW c \in Commands, ResolveLockTargets(c) \/ AcquireRemoteLocks(c) \/ Discover(c)
    PROVE  TypeOK'
<1> USE DEF Goto, Returns, Stages, repo, planned, flags, history, locks
<1>1. CASE ResolveLockTargets(c)
  <2> DEFINE H == Filtered(Hosts, hostFilter[c])
  <2>1. \A h \in H : HostTargets(c, h, dirs) \subseteq Targets
    BY FilteredIn, TargetsIn DEF TypeOK
  <2> DEFINE all == UNION {HostTargets(c, h, dirs) : h \in H}
  <2>2. all \in SUBSET Targets
    BY <2>1
  <2>3. /\ \/ Returns(c, "error") /\ UNCHANGED targets
           \/ targets' = [targets EXCEPT ![c] = all] /\ Goto(c, "lock") /\ UNCHANGED ret
        /\ UNCHANGED faults \/ Fault
    BY <1>1 DEF ResolveLockTargets
  <2>5. faults' \in 0 .. MaxFaults
    BY <2>3, FaultType DEF TypeOK
  <2> HIDE DEF all
  <2>4. targets' \in [Commands -> SUBSET Targets] /\ pc' \in [Commands -> Stages]
          /\ ret' \in [Commands -> {"ok", "cancelled", "error"}]
    BY <2>2, <2>3 DEF TypeOK
  <2> QED
    BY <1>1, <2>4, <2>5 DEF ResolveLockTargets, TypeOK
<1>2. CASE AcquireRemoteLocks(c)
  <2>1. PICK t \in First(targets[c] \ got[c]) :
            \/ lock[t] = None /\ Locks(c, t) /\ UNCHANGED <<ret, faults>>
            \/ lock[t] # None /\ Returns(c, "error") /\ UNCHANGED <<lock, got, faults>>
            \/ /\ lock[t] = None /\ Fault
               /\ lock' \in {lock, [lock EXCEPT ![t] = c]}
               /\ Returns(c, "error")
               /\ UNCHANGED got
    BY <1>2 DEF AcquireRemoteLocks
  <2>2. t \in Targets
    BY DEF First, TypeOK
  <2>3. /\ lock' \in [Targets -> Commands \cup {None}] /\ got' \in [Commands -> SUBSET Targets]
        /\ pc' \in [Commands -> Stages] /\ faults' \in 0 .. MaxFaults
        /\ ret' \in [Commands -> {"ok", "cancelled", "error"}]
    <3>1. faults' \in 0 .. MaxFaults
      BY <2>1, FaultType DEF Locks, TypeOK
    <3>2. pc' \in [Commands -> Stages] /\ ret' \in [Commands -> {"ok", "cancelled", "error"}]
      <4>1. pc' = [pc EXCEPT ![c] = "lock"] \/ pc' = [pc EXCEPT ![c] = "discover"]
              \/ pc' = [pc EXCEPT ![c] = "release"]
        BY <2>1 DEF Locks
      <4>2. ret' = ret \/ ret' = [ret EXCEPT ![c] = "error"]
        BY <2>1
      <4> QED
        BY <4>1, <4>2 DEF TypeOK
    <3>5. got' \in [Commands -> SUBSET Targets]
      <4>1. got' = got \/ got' = [got EXCEPT ![c] = @ \cup {t}]
        BY <2>1 DEF Locks
      <4> QED
        BY <2>2, <4>1 DEF TypeOK
    <3>3. lock' \in {lock, [lock EXCEPT ![t] = c]}
      BY <2>1 DEF Locks
    <3>4. lock' \in [Targets -> Commands \cup {None}]
      BY <2>2, <3>3 DEF TypeOK
    <3> QED
      BY <3>1, <3>2, <3>4, <3>5
  <2> QED
    BY <1>2, <2>3 DEF AcquireRemoteLocks, TypeOK
<1>3. CASE Discover(c)
  <2>1. faults' \in 0 .. MaxFaults
    BY <1>3, FaultType DEF Discover, TypeOK
  <2>2. found' \in [Commands -> SUBSET Projects] /\ hosts' \in [Commands -> SUBSET Hosts]
    <3>1. found' = found \/ found' = [found EXCEPT ![c] = dirs]
      BY <1>3 DEF Discover
    <3>2. hosts' = hosts \/ hosts' = [hosts EXCEPT ![c] = Filtered(Hosts, hostFilter[c])]
      BY <1>3 DEF Discover
    <3>3. found' \in [Commands -> SUBSET Projects]
      BY <3>1 DEF TypeOK
    <3>4. hosts' \in [Commands -> SUBSET Hosts]
      <4>1. Filtered(Hosts, hostFilter[c]) \in SUBSET Hosts
        BY FilteredIn
      <4>2. hosts \in [Commands -> SUBSET Hosts]
        BY DEF TypeOK
      <4> QED
        BY <3>2, <4>1, <4>2
    <3> QED
      BY <3>3, <3>4
  <2>3. pc' \in [Commands -> Stages] /\ ret' \in [Commands -> {"ok", "cancelled", "error"}]
    BY <1>3 DEF Discover, TypeOK
  <2> QED
    BY <1>3, <2>1, <2>2, <2>3 DEF Discover, TypeOK
<1> QED
  BY <1>1, <1>2, <1>3

LEMMA PlanningType ==
    ASSUME TypeOK, NEW c \in Commands,
           PlanHost(c) \/ (\E t \in Targets : PlanProject(c, t)) \/ PlanFails(c) \/ HostPlanned(c)
    PROVE  TypeOK'
<1> USE DEF Goto, Returns, Stages, repo, flags, history, locks, planned
<1>1. CASE PlanHost(c)
  <2>1. PICK h \in hosts[c] :
            \/ /\ hosts' = [hosts EXCEPT ![c] = @ \ {h}]
               /\ todo' = [todo EXCEPT ![c] = HostTargets(c, h, found[c])]
               /\ Goto(c, "project") /\ UNCHANGED <<ret, faults>>
            \/ /\ UNCHANGED faults \/ Fault
               /\ Returns(c, "error") /\ UNCHANGED <<hosts, todo>>
    BY <1>1 DEF PlanHost
  <2>2. HostTargets(c, h, found[c]) \subseteq Targets
    BY TargetsIn DEF TypeOK
  <2>3. /\ hosts' \in [Commands -> SUBSET Hosts] /\ todo' \in [Commands -> SUBSET Targets]
        /\ pc' \in [Commands -> Stages] /\ faults' \in 0 .. MaxFaults
        /\ ret' \in [Commands -> {"ok", "cancelled", "error"}]
    <3>1. faults' \in 0 .. MaxFaults
      BY <2>1, FaultType DEF TypeOK
    <3>2. todo' \in [Commands -> SUBSET Targets]
      BY <2>1, <2>2 DEF TypeOK
    <3>3. hosts' \in [Commands -> SUBSET Hosts]
      <4>1. hosts' = hosts \/ hosts' = [hosts EXCEPT ![c] = @ \ {h}]
        BY <2>1
      <4>2. hosts \in [Commands -> SUBSET Hosts]
        BY DEF TypeOK
      <4> QED
        BY <4>1, <4>2
    <3>4. pc' \in [Commands -> Stages] /\ ret' \in [Commands -> {"ok", "cancelled", "error"}]
      <4>1. pc' = [pc EXCEPT ![c] = "project"] \/ pc' = [pc EXCEPT ![c] = "release"]
        BY <2>1
      <4>2. ret' = ret \/ ret' = [ret EXCEPT ![c] = "error"]
        BY <2>1
      <4> QED
        BY <4>1, <4>2 DEF TypeOK
    <3> QED
      BY <3>1, <3>2, <3>3, <3>4
  <2> QED
    BY <1>1, <2>3 DEF PlanHost, TypeOK
<1>2. ASSUME NEW t \in Targets, PlanProject(c, t) PROVE TypeOK'
  <2>1. /\ [saw |-> site[t], to |-> want[t]] \in Entry
        /\ \A u \in Unseen : [saw |-> u, to |-> want[t]] \in Entry
    BY DEF TypeOK, Entry
  <2>2. plan' \in [Commands -> [Targets -> Entry \cup {None}]] /\ unknown' \in [Commands -> BOOLEAN]
          /\ faults' \in 0 .. MaxFaults
    <3>1. faults' \in 0 .. MaxFaults
      BY <1>2, FaultType DEF PlanProject, TypeOK
    <3>2. PICK e \in Entry : plan' = [plan EXCEPT ![c][t] = e]
      BY <1>2, <2>1 DEF PlanProject, Unseen
    <3>3. plan' \in [Commands -> [Targets -> Entry \cup {None}]]
      BY <3>2 DEF TypeOK
    <3>4. unknown' \in [Commands -> BOOLEAN]
      <4>1. unknown' = unknown \/ \E u \in BOOLEAN : unknown' = [unknown EXCEPT ![c] = @ \/ u]
        BY <1>2 DEF PlanProject
      <4> QED
        BY <4>1 DEF TypeOK
    <3> QED
      BY <3>1, <3>3, <3>4
  <2> QED
    BY <1>2, <2>2 DEF PlanProject, TypeOK
<1>3. CASE PlanFails(c)
  BY <1>3, FaultType DEF PlanFails, TypeOK
<1>4. CASE HostPlanned(c)
  BY <1>4 DEF HostPlanned, TypeOK
<1> QED
  BY <1>1, <1>2, <1>3, <1>4

LEMMA ApplyingType ==
    ASSUME TypeOK, NEW c \in Commands, PlanPart(c),
           CheckChanges(c) \/ Hook(c) \/ ConfirmApply(c) \/ ApplyProject(c) \/ Applied(c)
    PROVE  TypeOK'
<1> USE DEF Goto, Returns, Stages, repo, flags, history, locks, planned
<1>1. CASE CheckChanges(c)
  BY <1>1, FaultType DEF CheckChanges, TypeOK
<1>2. CASE Hook(c) \/ ConfirmApply(c)
  <2>1. Proceed(c) \/ (\E r \in {"cancelled", "error"} : Returns(c, r) /\ UNCHANGED left)
    BY <1>2 DEF Hook, ConfirmApply, Stops
  <2>2. pc[c] \in {"beforePlan", "beforeApplyPrompt", "prompt", "beforeApply"}
    BY <1>2 DEF Hook, ConfirmApply
  <2>3. After(pc[c]) \in Stages /\ Changed(c) \subseteq Targets
    BY <2>2 DEF After, Changed, Planned
  <2>4. pc' \in [Commands -> Stages] /\ left' \in [Commands -> SUBSET Targets]
    <3>1. pc' = [pc EXCEPT ![c] = After(pc[c])] \/ pc' = [pc EXCEPT ![c] = "release"]
      BY <2>1 DEF Proceed
    <3>2. left' = [left EXCEPT ![c] = Changed(c)] \/ left' = left
      BY <2>1 DEF Proceed
    <3>3. pc' \in [Commands -> Stages]
      BY <2>3, <3>1 DEF TypeOK
    <3>4. left' \in [Commands -> SUBSET Targets]
      BY <2>3, <3>2 DEF TypeOK
    <3> QED
      BY <3>3, <3>4
  <2>5. ret' \in [Commands -> {"ok", "cancelled", "error"}]
    BY <1>2 DEF Hook, ConfirmApply, Stops, TypeOK
  <2> QED
    BY <1>2, <2>4, <2>5 DEF Hook, ConfirmApply, TypeOK
<1>3. CASE ApplyProject(c)
  <2>1. PICK t \in First(left[c]) :
            /\ \E s \in {site[t], Torn, plan[c][t].to} : Writes(c, t, s)
            /\ UNCHANGED faults \/ Fault
            /\ left' \in {[left EXCEPT ![c] = @ \ {t}], [left EXCEPT ![c] = {}]}
            /\ UNCHANGED <<pc, ret>> \/ Returns(c, "error")
    BY <1>3 DEF ApplyProject
  <2>2. t \in Targets
    BY DEF First, TypeOK
  <2>3. PICK s \in {site[t], Torn, plan[c][t].to} : Writes(c, t, s)
    BY <2>1
  <2>4. s \in Contents \cup {None, Torn}
    <3>1. plan[c][t] \in Entry
      BY <1>3, <2>2 DEF TypeOK, PlanPart, ApplyProject, First, Planned
    <3> QED
      BY <2>2, <2>3, <3>1 DEF TypeOK, Entry
  <2>5. site' \in [Targets -> Contents \cup {None, Torn}] /\ unguarded' \subseteq Targets
    BY <2>2, <2>3, <2>4 DEF TypeOK, Writes
  <2>6. faults' \in 0 .. MaxFaults
    BY <2>1, FaultType DEF TypeOK
  <2>7. left' \in [Commands -> SUBSET Targets]
    <3>1. left \in [Commands -> SUBSET Targets]
      BY DEF TypeOK
    <3> QED
      BY <2>1, <3>1
  <2>8. pc' \in [Commands -> Stages] /\ ret' \in [Commands -> {"ok", "cancelled", "error"}]
    BY <2>1 DEF TypeOK
  <2> QED
    BY <1>3, <2>5, <2>6, <2>7, <2>8 DEF ApplyProject, TypeOK
<1>4. CASE Applied(c)
  BY <1>4 DEF Applied, TypeOK
<1> QED
  BY <1>1, <1>2, <1>3, <1>4

LEMMA LeavingType ==
    ASSUME TypeOK, NEW c \in Commands, Release(c) \/ Kill(c)
    PROVE  TypeOK'
<1>1. CASE Kill(c)
  <2>1. faults' \in 0 .. MaxFaults
    BY <1>1, FaultType DEF Kill
  <2> QED
    BY <1>1, <2>1, ExitType DEF Kill, TypeOK
<1>2. CASE got[c] = {} /\ Exit(c) /\ UNCHANGED <<lock, faults, repo, site, edits>>
  BY <1>2, ExitType DEF TypeOK
<1>3. ASSUME NEW t \in First(got[c]), got' = [got EXCEPT ![c] = @ \ {t}],
             \/ lock' = [lock EXCEPT ![t] = None] /\ UNCHANGED <<ret, faults>>
             \/ Fault /\ ret' = [ret EXCEPT ![c] = "error"] /\ UNCHANGED lock,
             UNCHANGED <<pc, targets, flags, planned, left, history, repo, site, edits>>
      PROVE  TypeOK'
  <2>1. faults' \in 0 .. MaxFaults
    BY <1>3, FaultType DEF TypeOK
  <2>2. got' \in [Commands -> SUBSET Targets]
    <3>1. got \in [Commands -> SUBSET Targets]
      BY DEF TypeOK
    <3> QED
      BY <1>3, <3>1
  <2>3. lock' \in [Targets -> Commands \cup {None}]
    <3>1. lock \in [Targets -> Commands \cup {None}]
      BY DEF TypeOK
    <3> QED
      BY <1>3, <3>1
  <2>4. ret' \in [Commands -> {"ok", "cancelled", "error"}]
    <3>1. ret \in [Commands -> {"ok", "cancelled", "error"}]
      BY DEF TypeOK
    <3> QED
      BY <1>3, <3>1
  <2> QED
    BY <1>3, <2>1, <2>2, <2>3, <2>4 DEF TypeOK, flags, planned, history, repo
<1> QED
  BY <1>1, <1>2, <1>3 DEF Release

LEMMA AroundType ==
    ASSUME TypeOK, Edit \/ (\E t \in Targets : ForceUnlock(t))
    PROVE  TypeOK'
<1> USE DEF repo, locks, flags, planned, history
<1>1. CASE Edit
  <2>1. edits' \in 0 .. MaxEdits
    BY <1>1, ApplyAssumption DEF Edit, TypeOK
  <2>2. want' \in [Targets -> Contents] /\ listed' \in [Hosts -> Listings] /\ dirs' \subseteq Projects
    <3>1. want' = want \/ \E t \in Targets, v \in Contents : want' = [want EXCEPT ![t] = v]
      BY <1>1 DEF Edit
    <3>2. listed' = listed \/ \E h \in Hosts, P \in Listings : listed' = [listed EXCEPT ![h] = P]
      BY <1>1 DEF Edit
    <3>3. dirs' = dirs \/ \E p \in Projects : dirs' \in {dirs \ {p}, dirs \cup {p}}
      BY <1>1 DEF Edit
    <3>4. want' \in [Targets -> Contents]
      BY <3>1 DEF TypeOK
    <3>5. listed' \in [Hosts -> Listings]
      BY <3>2 DEF TypeOK
    <3>6. dirs' \subseteq Projects
      BY <3>3 DEF TypeOK
    <3> QED
      BY <3>4, <3>5, <3>6
  <2>3. relisted' \in [Commands -> BOOLEAN]
    <3>1. relisted' = relisted \/ relisted' = [c \in Commands |-> pc[c] # "idle"]
      BY <1>1 DEF Edit
    <3> QED
      BY <3>1 DEF TypeOK
  <2> QED
    BY <1>1, <2>1, <2>2, <2>3 DEF Edit, TypeOK
<1>2. ASSUME NEW t \in Targets, ForceUnlock(t) PROVE TypeOK'
  <2>1. lock' \in [Targets -> Commands \cup {None}]
    BY <1>2 DEF ForceUnlock, TypeOK
  <2> QED
    BY <1>2, <2>1 DEF ForceUnlock, TypeOK
<1> QED
  BY <1>1, <1>2

\* What a command does, its start left out.
Acts(c) == Step(c) \/ ConfirmApply(c) \/ Kill(c)

LEMMA ActsType ==
    ASSUME TypeOK, NEW c \in Commands, PlanPart(c), Acts(c)
    PROVE  TypeOK'
  BY AcquiringType, PlanningType, ApplyingType, LeavingType DEF Acts, Step

-----------------------------------------------------------------------------
(* A step of one command does not disturb another one *)

\* What belongs to a command is in functions over the commands, which c changes at c.
OtherRows(c) == \A d \in Commands \ {c} : Row(d)' = Row(d)

LEMMA RowsOfOthers ==
    ASSUME TypeOK, NEW c \in Commands,
           Acts(c) \/ \E f \in Filters : Start(c, f[1], f[2])
    PROVE  OtherRows(c)
<1> USE DEF OtherRows, Row, Goto, Returns, flags, locks, planned, history
<1>1. ASSUME NEW f \in Filters, Start(c, f[1], f[2]) PROVE OtherRows(c)
  BY <1>1 DEF Start, TypeOK
<1>2. CASE ResolveLockTargets(c)
  BY <1>2 DEF ResolveLockTargets, TypeOK
<1>3. CASE AcquireRemoteLocks(c)
  BY <1>3 DEF AcquireRemoteLocks, Locks, TypeOK
<1>4. CASE Discover(c)
  BY <1>4 DEF Discover, TypeOK
<1>5. CASE PlanHost(c)
  BY <1>5 DEF PlanHost, TypeOK
<1>6. ASSUME NEW t \in Targets, PlanProject(c, t) PROVE OtherRows(c)
  BY <1>6 DEF PlanProject, TypeOK
<1>7. CASE PlanFails(c)
  BY <1>7 DEF PlanFails, TypeOK
<1>8. CASE HostPlanned(c)
  BY <1>8 DEF HostPlanned, TypeOK
<1>9. CASE CheckChanges(c)
  BY <1>9 DEF CheckChanges, TypeOK
<1>10. CASE Hook(c)
  BY <1>10 DEF Hook, Proceed, TypeOK
<1>11. CASE ConfirmApply(c)
  BY <1>11 DEF ConfirmApply, Proceed, TypeOK
<1>12. CASE ApplyProject(c)
  BY <1>12 DEF ApplyProject, TypeOK
<1>13. CASE Applied(c)
  BY <1>13 DEF Applied, TypeOK
<1>14. CASE Release(c)
  BY <1>14 DEF Release, Exit, TypeOK
<1>15. CASE Kill(c)
  BY <1>15 DEF Kill, Exit, TypeOK
<1> QED
  BY <1>1, <1>2, <1>3, <1>4, <1>5, <1>6, <1>7, <1>8, <1>9, <1>10, <1>11, <1>12, <1>13, <1>14,
     <1>15 DEF Acts, Step

\* The locks of another command stay, what is written without a lock is noted, and no command
\* edits the repository.
LEMMA SharedOfOthers ==
    ASSUME TypeOK, NEW c \in Commands, NEW d \in Commands \ {c}, LockPart(c), LockPart(d),
           Acts(c) \/ \E f \in Filters : Start(c, f[1], f[2])
    PROVE  /\ UNCHANGED repo
           /\ \A t \in got[d] : lock'[t] = d
           /\ \A t \in got[d] : t \in unguarded' \/ site'[t] = site[t]
           /\ unguarded \subseteq unguarded'
<1> USE DEF repo, history
<1>0. \A t \in got[d] : t \in Targets /\ lock[t] = d /\ lock[t] # None /\ t \notin got[c]
  BY ApplyAssumption DEF LockPart, TypeOK
<1>1. CASE AcquireRemoteLocks(c)
  <2>1. PICK t \in First(targets[c] \ got[c]) :
            \/ lock[t] = None /\ Locks(c, t)
            \/ UNCHANGED lock
            \/ lock[t] = None /\ lock' \in {lock, [lock EXCEPT ![t] = c]}
    BY <1>1 DEF AcquireRemoteLocks
  <2>2. UNCHANGED <<repo, site, unguarded>>
    BY <1>1 DEF AcquireRemoteLocks
  <2>3. lock' = lock \/ (lock[t] = None /\ lock' = [lock EXCEPT ![t] = c])
    BY <2>1 DEF Locks
  <2> QED
    BY <1>0, <2>2, <2>3 DEF TypeOK
<1>2. CASE ApplyProject(c)
  <2>1. PICK t \in Targets : \E s : Writes(c, t, s)
    BY <1>2 DEF ApplyProject, First, TypeOK
  <2>2. UNCHANGED <<repo, lock>>
    BY <1>2 DEF ApplyProject, locks
  <2> QED
    BY <1>0, <2>1, <2>2 DEF Writes, TypeOK
<1>3. CASE Release(c)
  <2>1. lock' = lock \/ \E t \in got[c] : lock' = [lock EXCEPT ![t] = None]
    BY <1>3 DEF Release, First
  <2>2. UNCHANGED <<repo, site, unguarded>>
    BY <1>3 DEF Release, Exit
  <2> QED
    BY <1>0, <2>1, <2>2 DEF TypeOK
<1>4. CASE UNCHANGED <<repo, site, lock, unguarded>>
  BY <1>0, <1>4
<1>5. CASE \/ ResolveLockTargets(c) \/ Discover(c)
           \/ PlanHost(c) \/ (\E t \in Targets : PlanProject(c, t)) \/ PlanFails(c) \/ HostPlanned(c)
           \/ CheckChanges(c) \/ Hook(c) \/ ConfirmApply(c) \/ Applied(c) \/ Kill(c)
  <2>1. UNCHANGED <<repo, site, lock, unguarded>>
    BY <1>5 DEF Start, ResolveLockTargets, Discover, PlanHost, PlanProject, PlanFails, HostPlanned,
                CheckChanges, Hook, ConfirmApply, Applied, Kill, Exit, locks
  <2> QED
    BY <1>4, <2>1
<1>6. ASSUME NEW f \in Filters, Start(c, f[1], f[2]) PROVE UNCHANGED <<repo, site, lock, unguarded>>
  BY <1>6 DEF Start, locks
<1> QED
  BY <1>1, <1>2, <1>3, <1>4, <1>5, <1>6 DEF Acts, Step

LEMMA OthersStay ==
    ASSUME IInv, NEW c \in Commands, NEW d \in Commands \ {c},
           Acts(c) \/ \E f \in Filters : Start(c, f[1], f[2])
    PROVE  CInv(d)'
<1>1. OtherRows(c)
  BY RowsOfOthers DEF IInv
<1>2. Undisturbed(d)
  BY <1>1, SharedOfOthers DEF IInv, CInv, OtherRows, Undisturbed, repo
<1> QED
  BY <1>2, Stays DEF IInv

-----------------------------------------------------------------------------
(* A step of a command keeps its own invariant *)

\* Where the projects and the filters stay, so do the targets found with them.
LEMMA OverStays ==
    ASSUME NEW c \in Commands, UNCHANGED <<dirs, listed>>, hostFilter'[c] = hostFilter[c],
           projectFilter'[c] = projectFilter[c]
    PROVE  /\ Over(c, Asked(c))' = Over(c, Asked(c))
           /\ Over(c, hosts[c])' = Over(c, hosts'[c])
  BY DEF Over, Asked, HostTargets, Filtered, filterHostProjects

\* A command that fails or is cancelled leaves its locks to the release, and claims nothing.
LEMMA Ends ==
    ASSUME TypeOK, NEW c \in Commands, CInv(c), pc'[c] = "release", ret'[c] # "ok",
           got'[c] = got[c], targets'[c] = targets[c], \A t \in got[c] : lock'[t] = c
    PROVE  CInv(c)'
<1> USE DEF CInv
<1>1. LockPart(c)'
  BY DEF LockPart, Working, Planning, Waiting
<1>2. PlanPart(c)' /\ MirrorPart(c)' /\ HoldsPart(c)' /\ OkPart(c)'
  BY DEF PlanPart, MirrorPart, HoldsPart, OkPart, Early, Working, Planning, Waiting
<1> QED
  BY <1>1, <1>2

LEMMA ExitKeeps ==
    ASSUME TypeOK, NEW c \in Commands, Exit(c)
    PROVE  CInv(c)'
<1>1. /\ pc'[c] = "idle" /\ got'[c] = {} /\ targets'[c] = {} /\ plan'[c] = NoPlan /\ todo'[c] = {}
  BY DEF Exit, Goto, TypeOK
<1> QED
  BY <1>1 DEF CInv, LockPart, PlanPart, MirrorPart, HoldsPart, OkPart, Early, Working, Planning,
              Waiting, NoPlan

LEMMA StartKeeps ==
    ASSUME TypeOK, NEW c \in Commands, CInv(c), NEW f \in Filters, Start(c, f[1], f[2])
    PROVE  CInv(c)'
<1>1. /\ pc[c] = "idle" /\ pc'[c] = "resolve"
      /\ UNCHANGED <<lock, got, targets, plan, todo>>
  BY DEF Start, Goto, TypeOK, locks, planned
<1>2. LockPart(c)' /\ PlanPart(c)'
  BY <1>1 DEF CInv, LockPart, PlanPart, Early, Working, Planning, Waiting, NoPlan
<1>3. MirrorPart(c)' /\ HoldsPart(c)' /\ OkPart(c)'
  BY <1>1 DEF MirrorPart, HoldsPart, OkPart, Working, Planning, Waiting
<1> QED
  BY <1>2, <1>3 DEF CInv

LEMMA ResolveKeeps ==
    ASSUME TypeOK, NEW c \in Commands, CInv(c), ResolveLockTargets(c)
    PROVE  CInv(c)'
<1> USE DEF Goto, Returns, repo, flags, planned, history
<1>1. /\ pc[c] = "resolve" /\ got[c] = {}
      /\ UNCHANGED <<dirs, listed, lock, got, plan, todo, hostFilter, projectFilter>>
  BY DEF ResolveLockTargets, CInv, LockPart
<1>2. CASE Returns(c, "error") /\ UNCHANGED targets
  <2>1. pc'[c] = "release" /\ ret'[c] # "ok" /\ got'[c] = got[c] /\ targets'[c] = targets[c]
    BY <1>1, <1>2 DEF TypeOK
  <2> QED
    BY <1>1, <2>1, Ends
<1>3. CASE targets' = [targets EXCEPT ![c] = Over(c, Asked(c))] /\ Goto(c, "lock")
  <2>1. targets'[c] = Over(c, Asked(c)) /\ pc'[c] = "lock"
    BY <1>3 DEF TypeOK
  <2>2. LockPart(c)' /\ PlanPart(c)'
    BY <1>1, <2>1 DEF CInv, LockPart, PlanPart, Early, Working, Planning, Waiting, NoPlan
  <2>3. MirrorPart(c)'
    BY <1>1, <2>1, OverStays DEF MirrorPart, Working, Planning, Waiting
  <2>4. HoldsPart(c)' /\ OkPart(c)'
    BY <2>1 DEF HoldsPart, OkPart, Planning, Waiting
  <2> QED
    BY <2>2, <2>3, <2>4 DEF CInv
<1> QED
  BY <1>2, <1>3 DEF ResolveLockTargets, Over, Asked

LEMMA AcquireKeeps ==
    ASSUME TypeOK, NEW c \in Commands, CInv(c), AcquireRemoteLocks(c)
    PROVE  CInv(c)'
<1> USE DEF Goto, Returns, repo, flags, planned, history
<1>1. PICK t \in First(targets[c] \ got[c]) :
          \/ lock[t] = None /\ Locks(c, t)
          \/ lock' \in {lock, [lock EXCEPT ![t] = c]} /\ Returns(c, "error") /\ UNCHANGED got
  BY DEF AcquireRemoteLocks
<1>2. /\ pc[c] = "lock" /\ t \in targets[c] \ got[c] /\ t \in Targets /\ targets' = targets
      /\ UNCHANGED <<dirs, listed, plan, todo, hostFilter, projectFilter, relisted>>
  BY DEF AcquireRemoteLocks, First, TypeOK
<1>3. CASE lock' \in {lock, [lock EXCEPT ![t] = c]} /\ Returns(c, "error") /\ UNCHANGED got
  <2>1. pc'[c] = "release" /\ ret'[c] # "ok" /\ got'[c] = got[c] /\ targets'[c] = targets[c]
    BY <1>2, <1>3 DEF TypeOK
  <2>2. \A u \in got[c] : lock'[u] = c
    BY <1>2, <1>3 DEF CInv, LockPart, TypeOK
  <2> QED
    BY <2>1, <2>2, Ends
<1>4. CASE Locks(c, t)
  <2>1. /\ lock' = [lock EXCEPT ![t] = c] /\ got'[c] = got[c] \cup {t}
        /\ pc'[c] = IF targets[c] \subseteq got[c] \cup {t} THEN "discover" ELSE "lock"
    BY <1>4 DEF Locks, TypeOK
  <2>2. \A u \in got'[c] : lock'[u] = c
    BY <1>2, <2>1 DEF CInv, LockPart, TypeOK
  <2>3. LockPart(c)' /\ PlanPart(c)'
    BY <1>2, <2>1, <2>2 DEF CInv, LockPart, PlanPart, Early, Working, Planning, Waiting, NoPlan
  <2>4. MirrorPart(c)'
    BY <1>2, <2>1, OverStays DEF CInv, MirrorPart, Working, Planning, Waiting
  <2>5. HoldsPart(c)' /\ OkPart(c)'
    BY <2>1 DEF HoldsPart, OkPart, Planning, Waiting
  <2> QED
    BY <2>3, <2>4, <2>5 DEF CInv
<1> QED
  BY <1>1, <1>3, <1>4

LEMMA DiscoverKeeps ==
    ASSUME TypeOK, NEW c \in Commands, CInv(c), Discover(c)
    PROVE  CInv(c)'
<1> USE DEF Goto, Returns, repo, flags, locks, history
<1>1. /\ pc[c] = "discover"
      /\ UNCHANGED <<dirs, listed, lock, got, targets, plan, todo, hostFilter, projectFilter, relisted>>
  BY DEF Discover
<1>2. CASE Returns(c, "error")
  <2>1. pc'[c] = "release" /\ ret'[c] # "ok"
    BY <1>2 DEF TypeOK
  <2> QED
    BY <1>1, <2>1, Ends DEF CInv, LockPart
<1>3. CASE /\ found' = [found EXCEPT ![c] = dirs]
           /\ hosts' = [hosts EXCEPT ![c] = Asked(c)]
           /\ Goto(c, "host")
  <2>1. pc'[c] = "host" /\ found'[c] = dirs /\ hosts'[c] = Asked(c)
    BY <1>3 DEF TypeOK
  <2>2. todo[c] = {} /\ plan[c] = NoPlan /\ Planned(c)' = {}
    BY <1>1 DEF CInv, PlanPart, Early, Planned, NoPlan
  <2>3. LockPart(c)' /\ PlanPart(c)'
    BY <1>1, <2>1, <2>2 DEF CInv, LockPart, PlanPart, Early, Working, Planning, Waiting
  <2>4. MirrorPart(c)'
    BY <1>1, <2>1, <2>2, OverStays DEF CInv, MirrorPart, Working, Planning, Waiting
  <2>5. HoldsPart(c)' /\ OkPart(c)'
    BY <2>1, <2>2 DEF HoldsPart, OkPart
  <2> QED
    BY <2>3, <2>4, <2>5 DEF CInv
<1> QED
  BY <1>2, <1>3 DEF Discover, Asked


LEMMA PlanHostKeeps ==
    ASSUME TypeOK, NEW c \in Commands, CInv(c), PlanHost(c)
    PROVE  CInv(c)'
<1> USE DEF Goto, Returns, repo, flags, locks, history
<1>1. PICK h \in hosts[c] :
          \/ /\ hosts' = [hosts EXCEPT ![c] = @ \ {h}]
             /\ todo' = [todo EXCEPT ![c] = HostTargets(c, h, found[c])]
             /\ Goto(c, "project")
          \/ Returns(c, "error")
  BY DEF PlanHost
<1>2. /\ pc[c] = "host" /\ todo[c] = {}
      /\ UNCHANGED <<dirs, listed, lock, site, got, targets, found, plan, hostFilter, projectFilter,
                     relisted, unguarded>>
  BY DEF PlanHost, CInv, PlanPart
<1>3. CASE Returns(c, "error")
  <2>1. pc'[c] = "release" /\ ret'[c] # "ok"
    BY <1>3 DEF TypeOK
  <2> QED
    BY <1>2, <2>1, Ends DEF CInv, LockPart
<1>4. CASE /\ hosts' = [hosts EXCEPT ![c] = @ \ {h}]
           /\ todo' = [todo EXCEPT ![c] = HostTargets(c, h, found[c])]
           /\ Goto(c, "project")
  <2>1. /\ hosts'[c] = hosts[c] \ {h} /\ todo'[c] = HostTargets(c, h, found[c])
        /\ pc'[c] = "project"
    BY <1>4 DEF TypeOK
  <2>2. LockPart(c)' /\ PlanPart(c)'
    BY <1>2, <2>1 DEF CInv, LockPart, PlanPart, Early, Working, Planning, Waiting
  <2>3. Planned(c)' = Planned(c)
    BY <1>2 DEF Planned
  <2>4. MirrorPart(c)'
    <3> SUFFICES ASSUME ~relisted[c]
                 PROVE  /\ targets[c] = Over(c, Asked(c)) /\ found[c] = dirs
                        /\ targets[c] = Over(c, hosts'[c]) \cup todo'[c] \cup Planned(c)
      BY <1>2, <2>1, <2>3, OverStays DEF MirrorPart, Working, Planning, Waiting
    <3>1. /\ targets[c] = Over(c, Asked(c)) /\ found[c] = dirs
          /\ targets[c] = Over(c, hosts[c]) \cup todo[c] \cup Planned(c)
      BY <1>2 DEF CInv, MirrorPart, Working, Planning
    <3>2. Over(c, hosts[c]) = Over(c, hosts[c] \ {h}) \cup HostTargets(c, h, dirs)
      BY DEF Over
    <3> QED
      BY <1>2, <2>1, <3>1, <3>2
  <2>5. HoldsPart(c)'
    BY <1>2, <2>1, <2>3 DEF CInv, HoldsPart, Planning, Waiting
  <2>6. OkPart(c)'
    BY <2>1 DEF OkPart
  <2> QED
    BY <2>2, <2>4, <2>5, <2>6 DEF CInv
<1> QED
  BY <1>1, <1>3, <1>4

LEMMA PlanProjectKeeps ==
    ASSUME TypeOK, NEW c \in Commands, CInv(c), NEW t \in Targets, PlanProject(c, t)
    PROVE  CInv(c)'
<1> USE DEF repo, flags, locks, history
<1>1. /\ pc[c] = "project" /\ t \in todo[c] /\ todo'[c] = todo[c] \ {t}
      /\ UNCHANGED <<dirs, listed, lock, site, got, targets, found, hosts, hostFilter, projectFilter,
                     relisted, unguarded, pc>>
  BY DEF PlanProject, TypeOK
<1>2. PICK e \in Entry : /\ e.saw \in Unseen \/ e.saw = site[t]
                         /\ plan' = [plan EXCEPT ![c][t] = e]
  <2>1. /\ [saw |-> site[t], to |-> want[t]] \in Entry
        /\ \A u \in Unseen : [saw |-> u, to |-> want[t]] \in Entry
    BY DEF TypeOK, Entry
  <2> QED
    BY <2>1 DEF PlanProject, Unseen
<1>3. /\ plan'[c][t] = e /\ e # None
      /\ \A u \in Targets \ {t} : plan'[c][u] = plan[c][u]
  BY <1>2, ApplyAssumption DEF TypeOK
<1>4. Planned(c)' = Planned(c) \cup {t}
  BY <1>3 DEF Planned
<1>5. LockPart(c)' /\ PlanPart(c)'
  BY <1>1 DEF CInv, LockPart, PlanPart, Early, Working, Planning, Waiting
<1>6. MirrorPart(c)'
  BY <1>1, <1>4, OverStays DEF CInv, MirrorPart, Working, Planning, Waiting
<1>7. HoldsPart(c)'
  <2>1. \A u \in Planned(c)' \cap got[c] : u \in Targets
    BY DEF Planned
  <2>2. ASSUME NEW u \in (Planned(c)' \cap got[c]) \ unguarded, plan'[c][u].saw \notin Unseen
        PROVE  site[u] = plan'[c][u].saw
    BY <1>1, <1>2, <1>3, <1>4, <2>1, <2>2 DEF CInv, HoldsPart, Planning
  <2> QED
    BY <1>1, <2>2 DEF HoldsPart
<1>8. OkPart(c)'
  BY <1>1 DEF OkPart
<1> QED
  BY <1>5, <1>6, <1>7, <1>8 DEF CInv

LEMMA PlanFailsKeeps ==
    ASSUME TypeOK, NEW c \in Commands, CInv(c), PlanFails(c)
    PROVE  CInv(c)'
<1>1. /\ pc'[c] = "release" /\ ret'[c] # "ok" /\ UNCHANGED <<got, targets, lock>>
  BY DEF PlanFails, Goto, Returns, TypeOK, locks
<1> QED
  BY <1>1, Ends DEF CInv, LockPart

LEMMA HostPlannedKeeps ==
    ASSUME TypeOK, NEW c \in Commands, CInv(c), HostPlanned(c)
    PROVE  CInv(c)'
<1>1. /\ pc[c] = "project" /\ todo[c] = {} /\ pc'[c] = IF hosts[c] = {} THEN "check" ELSE "host"
      /\ UNCHANGED <<dirs, listed, lock, site, got, targets, found, todo, hosts, plan, hostFilter,
                     projectFilter, relisted, unguarded>>
  BY DEF HostPlanned, Goto, TypeOK, repo, flags, locks, planned, history
<1>2. LockPart(c)' /\ PlanPart(c)'
  BY <1>1 DEF CInv, LockPart, PlanPart, Early, Working, Planning, Waiting
<1>3. Planned(c)' = Planned(c)
  BY <1>1 DEF Planned
<1>4. MirrorPart(c)'
  <2>1. hosts[c] = {} => Over(c, hosts[c]) = {}
    BY DEF Over
  <2>2. Over(c, hosts[c])' = Over(c, hosts[c]) /\ Over(c, Asked(c))' = Over(c, Asked(c))
    BY <1>1, OverStays
  <2> QED
    BY <1>1, <1>3, <2>1, <2>2 DEF CInv, MirrorPart, Working, Planning, Waiting
<1>5. HoldsPart(c)'
  BY <1>1, <1>3 DEF CInv, HoldsPart, Planning, Waiting
<1>6. OkPart(c)'
  BY <1>1 DEF OkPart
<1> QED
  BY <1>2, <1>4, <1>5, <1>6 DEF CInv

\* While a command goes on with a finished plan, only its stage changes, and its changes are
\* noted at the end.
LEMMA OnwardKeeps ==
    ASSUME TypeOK, NEW c \in Commands, CInv(c), pc[c] \in Waiting,
           \/ pc'[c] \in Waiting
           \/ pc'[c] = "apply" /\ left'[c] = Changed(c)
           \/ pc'[c] = "release" /\ Changed(c) = {},
           UNCHANGED <<repo, site, locks, flags, planned, history>>
    PROVE  CInv(c)'
<1> USE DEF repo, flags, locks, planned, history
<1>1. Planned(c)' = Planned(c) /\ Changed(c) \subseteq Planned(c)
  BY DEF Planned, Changed
<1>2. LockPart(c)' /\ PlanPart(c)'
  BY <1>1 DEF CInv, LockPart, PlanPart, Early, Working, Planning, Waiting
<1>3. Over(c, Asked(c))' = Over(c, Asked(c))
  BY OverStays
<1>4. MirrorPart(c)'
  BY <1>1, <1>3 DEF CInv, MirrorPart, Working, Planning, Waiting
<1>5. \A t \in Planned(c) \ Changed(c) : plan[c][t].saw # Unnoticed =>
        plan[c][t].saw \notin Unseen /\ plan[c][t].saw = plan[c][t].to
  <2> SUFFICES ASSUME NEW t \in Planned(c) \ Changed(c), plan[c][t].saw # Unnoticed
               PROVE  plan[c][t].saw \notin Unseen /\ plan[c][t].saw = plan[c][t].to
    OBVIOUS
  <2>1. plan[c][t] \in Entry /\ plan[c][t].saw = plan[c][t].to
    BY DEF Planned, Changed, TypeOK
  <2> QED
    BY <2>1, ApplyAssumption DEF Entry, Unseen
<1>6. \A t \in (Planned(c) \cap got[c]) \ unguarded :
        plan[c][t].saw \notin Unseen => site[t] = plan[c][t].saw
  BY DEF CInv, HoldsPart
<1>7. HoldsPart(c)'
  <2>1. CASE pc'[c] \in Waiting
    BY <1>1, <1>6, <2>1 DEF HoldsPart, Waiting
  <2>2. CASE pc'[c] = "apply" /\ left'[c] = Changed(c)
    BY <1>1, <1>5, <1>6, <2>2 DEF HoldsPart, Waiting, Planning
  <2>3. CASE pc'[c] = "release"
    BY <2>3 DEF HoldsPart, Waiting, Planning
  <2> QED
    BY <2>1, <2>2, <2>3
<1>8. OkPart(c)'
  <2> SUFFICES ASSUME pc'[c] = "release", got[c] = targets[c], ~relisted[c],
                      NEW t \in targets[c] \ unguarded
               PROVE  plan[c][t] # None /\ AsPlanned(c, t)
    BY DEF OkPart, AsPlanned
  <2>1. Changed(c) = {}
    BY DEF Waiting
  <2>2. t \in (Planned(c) \ Changed(c)) \cap got[c]
    BY <2>1 DEF CInv, MirrorPart
  <2> QED
    BY <1>5, <1>6, <2>2 DEF Planned, AsPlanned
<1> QED
  BY <1>2, <1>4, <1>7, <1>8 DEF CInv
LEMMA CheckChangesKeeps ==
    ASSUME TypeOK, NEW c \in Commands, CInv(c), CheckChanges(c)
    PROVE  CInv(c)'
<1> USE DEF Goto, Returns
<1>1. /\ pc[c] \in Waiting
      /\ UNCHANGED <<repo, site, locks, flags, planned, left, history>>
  BY DEF CheckChanges, Waiting
<1>2. CASE Returns(c, "error")
  <2>1. /\ pc'[c] = "release" /\ ret'[c] # "ok" /\ UNCHANGED <<got, targets, lock>>
    BY <1>1, <1>2 DEF TypeOK, locks
  <2> QED
    BY <2>1, Ends DEF CInv, LockPart
<1>3. CASE Goto(c, "beforePlan") \/ (Returns(c, "ok") /\ Changed(c) = {})
  <2>1. pc'[c] \in Waiting \/ (pc'[c] = "release" /\ Changed(c) = {})
    BY <1>3 DEF TypeOK, Waiting
  <2> QED
    BY <1>1, <2>1, OnwardKeeps
<1> QED
  BY <1>2, <1>3 DEF CheckChanges

LEMMA AskingKeeps ==
    ASSUME TypeOK, NEW c \in Commands, CInv(c), Hook(c) \/ ConfirmApply(c)
    PROVE  CInv(c)'
<1> USE DEF Goto, Returns
<1>1. /\ pc[c] \in {"beforePlan", "beforeApplyPrompt", "prompt", "beforeApply"}
      /\ UNCHANGED <<repo, site, locks, flags, planned, history>>
      /\ Proceed(c) \/ (\E r \in Stops : Returns(c, r))
  BY DEF Hook, ConfirmApply, Stops
<1>2. CASE Proceed(c)
  <2>1. pc'[c] \in Waiting \/ (pc'[c] = "apply" /\ left'[c] = Changed(c))
    BY <1>1, <1>2 DEF TypeOK, Waiting, Proceed, After
  <2>2. pc[c] \in Waiting
    BY <1>1 DEF Waiting
  <2> QED
    BY <1>1, <2>1, <2>2, OnwardKeeps
<1>3. ASSUME NEW r \in Stops, Returns(c, r) PROVE CInv(c)'
  <2>1. /\ pc'[c] = "release" /\ ret'[c] # "ok" /\ UNCHANGED <<got, targets, lock>>
    BY <1>1, <1>3 DEF TypeOK, Stops, locks
  <2> QED
    BY <2>1, Ends DEF CInv, LockPart
<1> QED
  BY <1>1, <1>2, <1>3

LEMMA ApplyProjectKeeps ==
    ASSUME TypeOK, NEW c \in Commands, CInv(c), ApplyProject(c)
    PROVE  CInv(c)'
<1> USE DEF Goto, Returns, repo, flags, locks, planned
<1>1. PICK t \in First(left[c]) :
          \/ /\ Writes(c, t, plan[c][t].to)
             /\ left' = [left EXCEPT ![c] = @ \ {t}]
             /\ UNCHANGED <<pc, ret>>
          \/ Returns(c, "error")
  BY DEF ApplyProject
<1>2. /\ pc[c] = "apply" /\ t \in left[c] /\ t \in Targets
      /\ UNCHANGED <<dirs, listed, lock, got, targets, found, todo, hosts, plan, hostFilter,
                     projectFilter, relisted>>
  BY DEF ApplyProject, First, TypeOK
<1>3. CASE Returns(c, "error")
  <2>1. pc'[c] = "release" /\ ret'[c] # "ok"
    BY <1>3 DEF TypeOK
  <2> QED
    BY <1>2, <2>1, Ends DEF CInv, LockPart
<1>4. CASE /\ Writes(c, t, plan[c][t].to)
           /\ left' = [left EXCEPT ![c] = @ \ {t}]
           /\ UNCHANGED <<pc, ret>>
  <2>1. /\ left'[c] = left[c] \ {t} /\ site'[t] = plan[c][t].to
        /\ \A u \in Targets \ {t} : site'[u] = site[u]
        /\ unguarded \subseteq unguarded' /\ unguarded' \subseteq unguarded \cup {t}
    BY <1>2, <1>4 DEF TypeOK, Writes
  <2>2. Planned(c)' = Planned(c) /\ Planned(c) \subseteq Targets
    BY <1>2 DEF Planned
  <2>3. LockPart(c)' /\ PlanPart(c)'
    BY <1>2, <1>4, <2>1, <2>2 DEF CInv, LockPart, PlanPart, Early, Working, Planning, Waiting
  <2>4. MirrorPart(c)'
    BY <1>2, <1>4, <2>2, OverStays DEF CInv, MirrorPart, Working, Planning, Waiting
  <2>5. HoldsPart(c)'
    BY <1>2, <1>4, <2>1, <2>2 DEF CInv, HoldsPart, Planning, Waiting
  <2>6. OkPart(c)'
    BY <1>2, <1>4 DEF OkPart
  <2> QED
    BY <2>3, <2>4, <2>5, <2>6 DEF CInv
<1> QED
  BY <1>1, <1>3, <1>4

LEMMA AppliedKeeps ==
    ASSUME TypeOK, NEW c \in Commands, CInv(c), Applied(c)
    PROVE  CInv(c)'
<1> USE DEF Goto, Returns, repo, flags, locks, planned, history
<1>1. /\ pc[c] = "apply" /\ left[c] = {} /\ pc'[c] = "release"
      /\ UNCHANGED <<lock, got, targets, plan, site, relisted, unguarded>>
  BY DEF Applied, TypeOK
<1>2. LockPart(c)' /\ PlanPart(c)' /\ MirrorPart(c)' /\ HoldsPart(c)'
  BY <1>1 DEF CInv, LockPart, PlanPart, MirrorPart, HoldsPart, Early, Working, Planning, Waiting
<1>3. OkPart(c)'
  <2> SUFFICES ASSUME got[c] = targets[c], ~relisted[c], NEW t \in targets[c] \ unguarded
               PROVE  plan[c][t] # None /\ AsPlanned(c, t)
    BY <1>1 DEF OkPart, AsPlanned
  <2>1. t \in (Planned(c) \cap got[c]) \ unguarded
    BY <1>1 DEF CInv, MirrorPart
  <2> QED
    BY <1>1, <2>1 DEF CInv, HoldsPart, Planned, AsPlanned
<1> QED
  BY <1>2, <1>3 DEF CInv

LEMMA ReleaseKeeps ==
    ASSUME TypeOK, NEW c \in Commands, CInv(c), Release(c)
    PROVE  CInv(c)'
<1>1. CASE Exit(c)
  BY <1>1, ExitKeeps
<1>2. ASSUME NEW t \in First(got[c]), got' = [got EXCEPT ![c] = @ \ {t}],
             lock' = [lock EXCEPT ![t] = None] \/ UNCHANGED lock,
             UNCHANGED <<pc, targets>>
      PROVE  CInv(c)'
  <2>1. /\ t \in got[c] /\ t \in Targets /\ got'[c] = got[c] \ {t} /\ pc'[c] = "release"
        /\ \A u \in Targets \ {t} : lock'[u] = lock[u]
    BY <1>2 DEF First, TypeOK, Release
  <2>2. got[c] \subseteq Targets /\ got[c] \subseteq targets[c]
    BY DEF TypeOK, CInv, LockPart
  <2>3. LockPart(c)'
    BY <1>2, <2>1, <2>2 DEF CInv, LockPart, Working, Planning, Waiting
  <2>4. got'[c] # targets'[c]
    BY <1>2, <2>1, <2>2
  <2>5. PlanPart(c)' /\ MirrorPart(c)' /\ HoldsPart(c)' /\ OkPart(c)'
    BY <2>1, <2>4 DEF PlanPart, MirrorPart, HoldsPart, OkPart, Early, Working, Planning, Waiting
  <2> QED
    BY <2>3, <2>5 DEF CInv
<1> QED
  BY <1>1, <1>2 DEF Release

LEMMA OwnStep ==
    ASSUME IInv, NEW c \in Commands, Acts(c)
    PROVE  CInv(c)'
<1>1. TypeOK /\ CInv(c)
  BY DEF IInv
<1>2. CASE Kill(c)
  BY <1>1, <1>2, ExitKeeps DEF Kill
<1> QED
  BY <1>1, <1>2, ResolveKeeps, AcquireKeeps, DiscoverKeeps, PlanHostKeeps, PlanProjectKeeps,
     PlanFailsKeeps, HostPlannedKeeps, CheckChangesKeeps, AskingKeeps, ApplyProjectKeeps,
     AppliedKeeps, ReleaseKeeps DEF Acts, Step

\* Who edits the repository or takes a lock away that nobody has disturbs no command: the edit
\* of a project's files changes no list of projects, and another edit is noted.
LEMMA AroundKeeps ==
    ASSUME IInv, NEW c \in Commands, Edit \/ (\E t \in Targets : ForceUnlock(t))
    PROVE  CInv(c)'
<1>1. ASSUME NEW t \in Targets, ForceUnlock(t) PROVE CInv(c)'
  <2>1. \A u \in got[c] : lock'[u] = c
    <3>1. \A u \in got[c] : lock[u] = c /\ u # t /\ u \in Targets
      BY <1>1 DEF IInv, CInv, LockPart, TypeOK, ForceUnlock
    <3> QED
      BY <1>1, <3>1 DEF IInv, TypeOK, ForceUnlock
  <2>2. Row(c)' = Row(c) /\ UNCHANGED <<dirs, listed, site, unguarded>>
    BY <1>1 DEF ForceUnlock, Row, repo, flags, planned, history
  <2> QED
    BY <2>1, <2>2, Stays DEF IInv, Undisturbed
<1>2. CASE Edit /\ UNCHANGED <<dirs, listed, relisted>>
  <2>1. Row(c)' = Row(c) /\ UNCHANGED <<site, unguarded, lock>>
    BY <1>2 DEF Edit, Row, locks, flags, planned
  <2> QED
    BY <1>2, <2>1, Stays DEF IInv, CInv, LockPart, Undisturbed
<1>3. CASE Edit /\ relisted' = [d \in Commands |-> pc[d] # "idle"]
  <2>1. UNCHANGED <<site, pc, lock, targets, got, todo, plan, left, ret, unguarded>>
    BY <1>3 DEF Edit, locks, planned
  <2>2. relisted'[c] \/ pc[c] = "idle"
    BY <1>3
  <2>3. LockPart(c)' /\ PlanPart(c)'
    BY <2>1 DEF IInv, CInv, LockPart, PlanPart, Planned, NoPlan
  <2>4. MirrorPart(c)'
    BY <2>1, <2>2 DEF MirrorPart, Working, Planning, Waiting
  <2>5. HoldsPart(c)'
    BY <2>1 DEF IInv, CInv, HoldsPart, Planned
  <2>6. OkPart(c)'
    BY <2>1, <2>2 DEF OkPart
  <2> QED
    BY <2>3, <2>4, <2>5, <2>6 DEF CInv
<1> QED
  BY <1>1, <1>2, <1>3 DEF Edit

LEMMA NextInv == IInv /\ [Next]_vars => IInv'
<1> SUFFICES ASSUME IInv, [Next]_vars PROVE IInv'
  OBVIOUS
<1>1. ASSUME NEW c \in Commands, Acts(c) PROVE IInv'
  <2>1. TypeOK'
    BY <1>1, ActsType DEF IInv, CInv
  <2>2. \A d \in Commands : CInv(d)'
    BY <1>1, OwnStep, OthersStay
  <2> QED
    BY <2>1, <2>2 DEF IInv
<1>2. ASSUME NEW c \in Commands, NEW f \in Filters, Start(c, f[1], f[2]) PROVE IInv'
  <2>1. TypeOK'
    BY <1>2, StartType DEF IInv
  <2>2. \A d \in Commands \ {c} : CInv(d)'
    BY <1>2, OthersStay
  <2>3. CInv(c)'
    BY <1>2, StartKeeps DEF IInv
  <2> QED
    BY <2>1, <2>2, <2>3 DEF IInv
<1>3. CASE Edit \/ (\E t \in Targets : ForceUnlock(t))
  BY <1>3, AroundType, AroundKeeps DEF IInv
<1>4. CASE UNCHANGED vars
  <2>1. TypeOK'
    BY <1>4 DEF IInv, TypeOK, vars, repo, locks, flags, planned, history
  <2>2. ASSUME NEW c \in Commands PROVE Undisturbed(c)
    BY <1>4 DEF IInv, CInv, LockPart, Undisturbed, Row, vars, repo, locks, flags, planned, history
  <2> QED
    BY <2>1, <2>2, Stays DEF IInv
<1> QED
  BY <1>1, <1>2, <1>3, <1>4 DEF Next, Acts

-----------------------------------------------------------------------------
(* The theorems *)

\* Every state is of its type.
THEOREM TypeCorrect == Spec => []TypeOK
<1>1. IInv => TypeOK
  BY DEF IInv
<1> QED
  BY <1>1, InitInv, NextInv, PTL DEF Spec

\* What was planned at a target is so when it is applied, for any number of commands, hosts and
\* projects, with any filters, faults and edits (runApplyCmd plans under its locks and keeps
\* them until it returns).
THEOREM PlansHold == Spec => []PlanHolds
<1>1. IInv => PlanHolds
  BY DEF IInv, CInv, HoldsPart, PlanHolds
<1> QED
  BY <1>1, InitInv, NextInv, PTL DEF Spec

\* "ok" from a command means that its targets are as they were planned (applyAllHosts stops at
\* the first failure, and a failed release is an error of the command), unless the projects
\* were listed anew on its way, and but for targets where a failed look showed nothing to do.
THEOREM OkApplied == Spec => []OkMeansApplied
<1>1. IInv => OkMeansApplied
  BY DEF IInv, CInv, OkPart, AsPlanned, OkMeansApplied
<1> QED
  BY <1>1, InitInv, NextInv, PTL DEF Spec

\* Only a command that applies writes, and then under its lock.
LEMMA WritesLocked ==
    ASSUME IInv, [Next]_vars, NEW c \in Commands, NEW t \in Targets,
           pc[c] = "apply", left'[c] # left[c], site'[t] # site[t], ~relisted[c]
    PROVE  lock[t] = c
<1>1. left' # left /\ site' # site
  OBVIOUS
<1>2. PICK d \in Commands : ApplyProject(d)
  <2> USE DEF repo, locks, flags, planned, history
  <2>1. ~UNCHANGED vars
    BY <1>1 DEF vars
  <2>2. \A u \in Targets : ~ForceUnlock(u)
    BY <1>1 DEF ForceUnlock
  <2>3. ~Edit
    BY <1>1 DEF Edit
  <2>4. \A d \in Commands : /\ ~\E f \in Filters : Start(d, f[1], f[2])
                            /\ ~ConfirmApply(d) /\ ~Kill(d)
    BY <1>1 DEF Start, ConfirmApply, Kill
  <2>5. \A d \in Commands :
          /\ ~ResolveLockTargets(d) /\ ~AcquireRemoteLocks(d) /\ ~Discover(d) /\ ~PlanHost(d)
          /\ ~(\E u \in Targets : PlanProject(d, u)) /\ ~PlanFails(d) /\ ~HostPlanned(d)
          /\ ~CheckChanges(d) /\ ~Hook(d) /\ ~Applied(d) /\ ~Release(d)
    BY <1>1 DEF ResolveLockTargets, AcquireRemoteLocks, Discover, PlanHost, PlanProject, PlanFails,
                HostPlanned, CheckChanges, Hook, Applied, Release
  <2> QED
    BY <2>1, <2>2, <2>3, <2>4, <2>5 DEF Next, Step
<1>3. d = c
  BY <1>2 DEF ApplyProject, IInv, TypeOK
<1>4. t \in left[c]
  BY <1>2, <1>3 DEF ApplyProject, Writes, First, IInv, TypeOK
<1>5. t \in targets[c] /\ targets[c] \subseteq got[c]
  BY <1>4 DEF IInv, CInv, PlanPart, MirrorPart, LockPart, Waiting, Working
<1> QED
  BY <1>5 DEF IInv, CInv, LockPart

\* A command writes only where it holds the lock, unless the projects are listed anew between
\* its locks and its plan (ResolveLockTargets and BuildPlanWithDeps filter alike).
THEOREM UnderLock == Spec => WritesUnderLock
<1>1. IInv /\ [Next]_vars =>
        [\A c \in Commands, t \in Targets :
           pc[c] = "apply" /\ left'[c] # left[c] /\ site'[t] # site[t] => lock[t] = c \/ relisted[c]]_vars
  BY WritesLocked DEF IInv, TypeOK
<1> QED
  BY <1>1, InitInv, NextInv, PTL DEF Spec, WritesUnderLock

\* What a command reserves is what it has locked, and is all it has found.
reservedBy == [c \in Commands |-> Reserved(c)]

\* A step of a command takes its whole reservation, gives it back, or leaves it.
LEMMA StepReserves ==
    ASSUME IInv, IInv', NEW c \in Commands, Acts(c) \/ \E f \in Filters : Start(c, f[1], f[2])
    PROVE  Reserved(c) = {} \/ Reserved(c)' = {} \/ Reserved(c)' = Reserved(c)
<1> USE DEF Goto, Returns, locks
<1> DEFINE W == {"discover", "apply"} \cup Planning \cup Waiting
<1>1. SUFFICES ASSUME pc[c] \in W, pc'[c] \in W PROVE got'[c] = got[c]
  BY DEF Reserved
<1>2. ~\E f \in Filters : Start(c, f[1], f[2])
  BY <1>1 DEF Start, Planning, Waiting
<1>3. ~AcquireRemoteLocks(c) /\ ~ResolveLockTargets(c) /\ ~Release(c)
  BY <1>1 DEF AcquireRemoteLocks, ResolveLockTargets, Release, Planning, Waiting
<1>4. ~Kill(c)
  BY <1>1 DEF Kill, Exit, IInv, TypeOK, Planning, Waiting
<1> QED
  BY <1>2, <1>3, <1>4 DEF Acts, Step, Discover, PlanHost, PlanProject, PlanFails, HostPlanned,
     CheckChanges, Hook, ConfirmApply, ApplyProject, Applied

LEMMA StepRefines ==
    ASSUME IInv, IInv', [Next]_vars
    PROVE  [Reservation!Next]_<<reservedBy, {}>>
<1>1. ASSUME NEW c \in Commands, Acts(c) \/ \E f \in Filters : Start(c, f[1], f[2])
      PROVE  [Reservation!Next]_<<reservedBy, {}>>
  <2>1. \A d \in Commands \ {c} : Reserved(d)' = Reserved(d)
    BY <1>1, RowsOfOthers DEF IInv, OtherRows, Row, Reserved
  <2>2. reservedBy' = [reservedBy EXCEPT ![c] = Reserved(c)']
    BY <2>1 DEF reservedBy
  <2>3. CASE Reserved(c)' = Reserved(c)
    <3>1. reservedBy' = reservedBy
      BY <2>1, <2>3 DEF reservedBy
    <3> QED
      BY <3>1
  <2>4. CASE Reserved(c)' = {}
    BY <2>2, <2>4 DEF Reservation!Next, Reservation!GiveBack, reservedBy
  <2>5. CASE Reserved(c) = {}
    <3>1. Reserved(c)' \in SUBSET Targets
      BY DEF Reserved, IInv, TypeOK
    <3>2. \A d \in Commands \ {c} : Reserved(d)' \cap Reserved(c)' = {}
      BY DEF Reserved, IInv, CInv, LockPart
    <3> QED
      BY <2>1, <2>2, <2>5, <3>1, <3>2 DEF Reservation!Next, Reservation!Reserve, reservedBy
  <2> QED
    BY <1>1, <2>3, <2>4, <2>5, StepReserves
<1>2. CASE Edit \/ (\E t \in Targets : ForceUnlock(t)) \/ UNCHANGED vars
  <2>1. UNCHANGED <<pc, got>>
    BY <1>2 DEF Edit, ForceUnlock, vars, locks
  <2>2. reservedBy' = reservedBy
    BY <2>1 DEF reservedBy, Reserved
  <2> QED
    BY <2>2
<1> QED
  BY <1>1, <1>2 DEF Next, Acts

\* Locking one by one implements reserving all the targets of a command in one step, which is
\* what the locks of CmtLock promise too.
THEOREM Refines == Spec => ReservationSpec
<1>1. Init => Reservation!Init
  BY DEF Init, Reservation!Init, Reserved
<1>2. IInv /\ IInv' /\ [Next]_vars => [Reservation!Next]_<<reservedBy, {}>>
  BY StepRefines
<1> QED
  BY <1>1, <1>2, InitInv, NextInv, PTL DEF Spec, ReservationSpec, Reservation!Spec, reservedBy

===============================================================================
