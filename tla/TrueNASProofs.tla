---------------------------- MODULE TrueNASProofs ----------------------------
(* Proofs about the TrueNAS provider, for any resources, any number of parts *)
(* of one, and any number of edits, failures and jobs left behind.           *)
EXTENDS TrueNASProvider, TLAPS

Ops == [kind : {"none", "create", "update", "delete"},
        step : {"none", "request", "wait", "back"}, k : Nat, tries : 0..MaxAttempts,
        job : {"none", "running", "success", "failed"}]

\* The parts of TypeOK that calls change.
StateOK ==
    /\ tf \in [Resources -> {None} \cup UNION {[DOMAIN Parts[r] -> Values] : r \in Resources}]
    /\ \A r \in Resources : tf[r] = None \/ tf[r] \in [DOMAIN Parts[r] -> Values]
OpOK ==
    /\ op \in [Resources -> Ops]
    /\ \A r \in Resources : op[r].k \in 0..Len(Parts[r])
RealOK  == real \in [Objects -> Values \cup {None}]
StrayOK == stray \subseteq [object : Objects, value : Values \cup {None}, creates : BOOLEAN]

LEMMA Typed ==
    TypeOK <=> /\ config \in [Resources -> Values \cup {None}]
               /\ StateOK /\ OpOK /\ RealOK /\ StrayOK
               /\ run \in {"idle", "refresh", "apply"}
               /\ todo \subseteq {r \in Resources : tf[r] # None}
               /\ edits \in 0..MaxEdits /\ faults \in 0..MaxFaults
BY DEF TypeOK, StateOK, OpOK, RealOK, StrayOK, Ops

\* The parts of a resource: there are some, and no other resource has one of them.
LEMMA PartsOf ==
    ASSUME NEW r \in Resources
    PROVE  /\ Len(Parts[r]) \in Nat \ {0} /\ DOMAIN Parts[r] = 1..Len(Parts[r])
           /\ \A k \in DOMAIN Parts[r] : Parts[r][k] \in Objects
           /\ \A s \in Resources \ {r} : \A k \in DOMAIN Parts[r], l \in DOMAIN Parts[s] :
                Parts[r][k] # Parts[s][l]
           /\ r \notin Settings => Parts[r] = <<r>> /\ Len(Parts[r]) = 1
<1>1. r \notin Settings => Parts[r] = <<r>>
  BY ProviderAssumption DEF Resources, Lasting
<1>2. Len(Parts[r]) \in Nat \ {0} /\ DOMAIN Parts[r] = 1..Len(Parts[r])
  <2>1. CASE r \in Settings
    <3>1. Parts[r] \in Seq(ToSet(Parts[r])) /\ Parts[r] # <<>>
      BY <2>1, ProviderAssumption
    <3>2. QED
      BY <3>1
  <2>2. CASE r \notin Settings
    BY <1>1, <2>2
  <2>3. QED
    BY <2>1, <2>2
<1>3. \A k \in DOMAIN Parts[r] : Parts[r][k] \in Objects
  BY DEF Objects, ToSet
<1>4. ASSUME NEW s \in Resources \ {r}, NEW k \in DOMAIN Parts[r], NEW l \in DOMAIN Parts[s]
      PROVE  Parts[r][k] # Parts[s][l]
  <2>1. ToSet(Parts[r]) \cap ToSet(Parts[s]) = {}
    BY ProviderAssumption
  <2>2. QED
    BY <2>1 DEF ToSet
<1>5. QED
  BY <1>1, <1>2, <1>3, <1>4

\* What a change of one resource's state, or of one call, leaves.
LEMMA Sets ==
    ASSUME StateOK, NEW r \in Resources, NEW v \in {None} \cup [DOMAIN Parts[r] -> Values],
           SetState(r, v)
    PROVE  StateOK' /\ tf'[r] = v /\ \A s \in Resources \ {r} : tf'[s] = tf[s]
BY DEF StateOK, SetState

LEMMA Steps ==
    ASSUME OpOK, NEW r \in Resources, NEW o \in Ops, o.k \in 0..Len(Parts[r]), Step(r, o)
    PROVE  OpOK' /\ op'[r] = o /\ \A s \in Resources \ {r} : op'[s] = op[s]
BY DEF OpOK, Step

LEMMA Calls ==
    /\ NoOp \in Ops /\ \A r \in Resources : NoOp.k \in 0..Len(Parts[r])
    /\ \A kind \in {"none", "create", "update", "delete"}, r \in Resources :
         /\ Call(kind) \in Ops /\ Call(kind).k = 1 /\ 1 \in 0..Len(Parts[r])
         /\ Call(kind).step = "request" /\ Call(kind).job = "none"
<1>1. NoOp \in Ops
  BY ProviderAssumption DEF NoOp, Ops
<1>2. \A r \in Resources : 0 \in 0..Len(Parts[r]) /\ 1 \in 0..Len(Parts[r])
  BY PartsOf
<1>3. ASSUME NEW kind \in {"none", "create", "update", "delete"}
      PROVE  /\ Call(kind) \in Ops /\ Call(kind).k = 1
             /\ Call(kind).step = "request" /\ Call(kind).job = "none"
  <2>1. ASSUME NEW n \in Ops, n.job = "none"
        PROVE  [n EXCEPT !.kind = kind, !.step = "request", !.k = 1] \in Ops
    <3>1. [n EXCEPT !.kind = kind] \in Ops
      BY DEF Ops
    <3>2. [[n EXCEPT !.kind = kind] EXCEPT !.step = "request"] \in Ops
      BY <3>1 DEF Ops
    <3>3. [[[n EXCEPT !.kind = kind] EXCEPT !.step = "request"] EXCEPT !.k = 1] \in Ops
      BY <3>2 DEF Ops
    <3>4. QED
      BY <3>3
  <2>2. NoOp.job = "none"
    BY DEF NoOp
  <2>3. Call(kind) \in Ops
    BY <1>1, <2>1, <2>2 DEF Call
  <2>4. /\ Call(kind).k = 1 /\ Call(kind).step = "request" /\ Call(kind).job = "none"
    BY DEF Call, NoOp
  <2>5. QED
    BY <2>3, <2>4
<1>4. QED
  BY <1>1, <1>2, <1>3 DEF NoOp

\* What a resource is at TrueNAS, and what is asked for it.
LEMMA Facts ==
    ASSUME TypeOK, NEW r \in Resources
    PROVE  /\ Exists(r) => Fact(r) \in [DOMAIN Parts[r] -> Values] /\ Fact(r) # None
           /\ Asked(r) \in Values \cup {None}
           /\ Asked(r) # None => /\ All(r, Asked(r)) \in [DOMAIN Parts[r] -> Values]
                                 /\ All(r, Asked(r)) # None
<1>1. None \notin [DOMAIN Parts[r] -> Values]
  BY ProviderAssumption
<1>2. real \in [Objects -> Values \cup {None}] /\ config \in [Resources -> Values \cup {None}]
  BY DEF TypeOK
<1>3. Exists(r) => Fact(r) \in [DOMAIN Parts[r] -> Values]
  BY <1>2, PartsOf DEF Exists, Fact
<1>4. Asked(r) \in Values \cup {None}
  BY <1>2 DEF Asked
<1>5. Asked(r) # None => All(r, Asked(r)) \in [DOMAIN Parts[r] -> Values]
  BY <1>4 DEF All
<1>6. QED
  BY <1>1, <1>3, <1>4, <1>5

-----------------------------------------------------------------------------
(* The steps of a call and of its job.                                     *)

LEMMA Busy ==
    ASSUME TypeOK, Serving, NEW r \in Resources, Crud(r) \/ Job(r)
    PROVE  /\ op[r].step # "none" /\ run = "apply" /\ todo = {}
           /\ op[r].k \in DOMAIN Parts[r]
           /\ UNCHANGED <<config, run, todo, edits>>
           /\ faults' \in 0..MaxFaults
<1>1. op[r].step # "none"
  BY DEF Crud, Job, Serving, PlainDone, AnswerLost, RequestFails, RetryParent, StartJob,
    AnsweredDone, StartLost, NextPart, JobsDone, JobError, PollBreaks, ReadBack, JobSucceeds,
    JobFails, Requests, Poll, Runs
<1>2. UNCHANGED <<config, run, todo, edits>>
  BY DEF Crud, Job, PlainDone, AnswerLost, RequestFails, RetryParent, StartJob, AnsweredDone,
         StartLost, NextPart, JobsDone, JobError, PollBreaks, ReadBack, JobSucceeds, JobFails
<1>3. Fault \/ NoFault
  BY DEF Crud, Job, PlainDone, AnswerLost, RequestFails, RetryParent, StartJob, AnsweredDone,
         StartLost, NextPart, JobsDone, JobError, PollBreaks, ReadBack, JobSucceeds, JobFails
<1>4. faults' \in 0..MaxFaults
  BY <1>3, ProviderAssumption DEF Fault, NoFault, TypeOK
<1>5. QED
  BY <1>1, <1>2, <1>4 DEF Serving

\* The work of a call is done while it goes on: its job succeeds, or the answer to its
\* request says so.
Ends(r) == JobSucceeds(r) \/ AnsweredDone(r)

\* Where the call goes; only when its work is done it waits for a job that has succeeded.
LEMMA OpStep ==
    ASSUME TypeOK, Serving, NEW r \in Resources, Crud(r) \/ Job(r)
    PROVE  \E o \in Ops :
             /\ Step(r, o) /\ o.k \in 0..Len(Parts[r])
             /\ o.step # "none" => o.k \in DOMAIN Parts[r]
             /\ o.job # "none" => o.step = "wait"
             /\ o.job = "success" => Ends(r) /\ o.k = op[r].k /\ o.kind = op[r].kind
<1> DEFINE Goal == \E o \in Ops :
             /\ Step(r, o) /\ o.k \in 0..Len(Parts[r])
             /\ o.step # "none" => o.k \in DOMAIN Parts[r]
             /\ o.job # "none" => o.step = "wait"
             /\ o.job = "success" => Ends(r) /\ o.k = op[r].k /\ o.kind = op[r].kind
<1>0. /\ op[r] \in Ops /\ op[r].k \in DOMAIN Parts[r] /\ op[r].k \in 0..Len(Parts[r])
      /\ DOMAIN Parts[r] = 1..Len(Parts[r]) /\ Len(Parts[r]) \in Nat
      /\ MaxAttempts \in Nat
  BY Busy, PartsOf, ProviderAssumption DEF TypeOK, Ops
<1>1. CASE Returns(r)
  BY <1>1, Calls DEF Returns, NoOp
<1>2. CASE RetryParent(r)
  <2> DEFINE o == [op[r] EXCEPT !.tries = @ + 1]
  <2>1. Step(r, o) /\ op[r].tries < MaxAttempts /\ op[r].step = "request"
    BY <1>2 DEF RetryParent, Requests
  <2>2. op[r].job = "none"
    BY <2>1 DEF Serving
  <2>3. /\ o \in Ops /\ o.k = op[r].k /\ o.job = "none"
    BY <1>0, <2>1, <2>2 DEF Ops
  <2>4. QED
    BY <1>0, <2>1, <2>3
<1>3. CASE StartJob(r)
  <2> DEFINE o == [op[r] EXCEPT !.step = "wait", !.job = "running"]
  <2>1. Step(r, o)
    BY <1>3 DEF StartJob
  <2>2. o \in Ops /\ o.k = op[r].k /\ o.job = "running" /\ o.step = "wait"
    BY <1>0 DEF Ops
  <2>3. QED
    BY <1>0, <2>1, <2>2
<1>4. CASE NextPart(r)
  <2>1. /\ op[r].k < Len(Parts[r]) /\ op[r].step = "wait"
        /\ Step(r, [Call(op[r].kind) EXCEPT !.k = op[r].k + 1])
    BY <1>4 DEF NextPart, Poll
  <2> DEFINE o == [Call(op[r].kind) EXCEPT !.k = op[r].k + 1]
  <2>2. /\ op[r].kind \in {"none", "create", "update", "delete"}
        /\ Call(op[r].kind) \in Ops /\ Call(op[r].kind).job = "none"
    BY <1>0, Calls DEF Ops
  <2>3. o \in Ops /\ o.k = op[r].k + 1 /\ o.job = "none"
    BY <1>0, <2>2 DEF Ops
  <2>4. o.k \in 1..Len(Parts[r])
    BY <1>0, <2>1, <2>3
  <2>5. Step(r, o) /\ o.k \in DOMAIN Parts[r] /\ o.k \in 0..Len(Parts[r])
    BY <1>0, <2>1, <2>4
  <2> HIDE DEF o
  <2>6. QED
    BY <2>3, <2>5
<1>5. CASE Step(r, [op[r] EXCEPT !.step = "back", !.job = "none"])
  <2> DEFINE o == [op[r] EXCEPT !.step = "back", !.job = "none"]
  <2>1. o \in Ops /\ o.k = op[r].k /\ o.job = "none"
    BY <1>0 DEF Ops
  <2>2. QED
    BY <1>0, <1>5, <2>1
<1>6. CASE JobSucceeds(r)
  <2> DEFINE o == [op[r] EXCEPT !.job = "success"]
  <2>1. Step(r, o) /\ op[r].step = "wait"
    BY <1>6 DEF JobSucceeds, Runs, Serving
  <2>2. o \in Ops /\ o.k = op[r].k /\ o.kind = op[r].kind /\ o.step = op[r].step
    BY <1>0 DEF Ops
  <2>3. QED
    BY <1>0, <1>6, <2>1, <2>2 DEF Ends
<1>7. CASE JobFails(r)
  <2> DEFINE o == [op[r] EXCEPT !.job = "failed"]
  <2>1. Step(r, o) /\ op[r].step = "wait"
    BY <1>7 DEF JobFails, Runs, Serving
  <2>2. o \in Ops /\ o.k = op[r].k /\ o.job = "failed" /\ o.step = op[r].step
    BY <1>0 DEF Ops
  <2>3. QED
    BY <1>0, <2>1, <2>2
<1>8. CASE AnsweredDone(r)
  <2> DEFINE o == [op[r] EXCEPT !.step = "wait", !.job = "success"]
  <2>1. Step(r, o)
    BY <1>8 DEF AnsweredDone
  <2>2. /\ o \in Ops /\ o.k = op[r].k /\ o.kind = op[r].kind
        /\ o.job = "success" /\ o.step = "wait"
    BY <1>0 DEF Ops
  <2>3. QED
    BY <1>0, <1>8, <2>1, <2>2 DEF Ends
<1>9. QED
  BY <1>1, <1>2, <1>3, <1>4, <1>5, <1>6, <1>7, <1>8
     DEF Crud, Job, PlainDone, AnswerLost, RequestFails, StartLost, JobsDone, JobError,
         PollBreaks, ReadBack

\* What the call changes of TrueNAS and of the jobs: its own object, to what it asks
\* for, and only when it returns the jobs left behind.
LEMMA WorldStep ==
    ASSUME TypeOK, Serving, NEW r \in Resources, Crud(r) \/ Job(r)
    PROVE  /\ RealOK' /\ StrayOK'
           /\ \A o \in Objects \ {Object(r)} : real'[o] = real[o]
           /\ \A j \in stray' :
                j \in stray \/ (j.object = Object(r) /\ Object(r) \notin Direct)
           /\ Ends(r) => real'[Object(r)] = Asked(r) /\ UNCHANGED stray
<1>1. Object(r) \in Objects /\ Asked(r) \in Values \cup {None} /\ RealOK /\ StrayOK
  BY Busy, PartsOf, Facts, Typed DEF Object
<1>2. UNCHANGED real \/ Effect(r)
  BY DEF Crud, Job, PlainDone, AnswerLost, RequestFails, RetryParent, StartJob, AnsweredDone,
         StartLost, NextPart, JobsDone, JobError, PollBreaks, ReadBack, JobSucceeds, JobFails
<1>3. UNCHANGED stray \/ (Abandoned(r) /\ Object(r) \notin Direct)
  BY DEF AtOnce, Crud, Job, PlainDone, AnswerLost, RequestFails, RetryParent, StartJob,
    AnsweredDone, StartLost, NextPart, JobsDone, JobError, PollBreaks, ReadBack, JobSucceeds,
    JobFails
<1>4. Ends(r) => Effect(r) /\ UNCHANGED stray
  BY DEF Ends, JobSucceeds, AnsweredDone
<1>5. RealOK' /\ \A o \in Objects \ {Object(r)} : real'[o] = real[o]
  BY <1>1, <1>2 DEF Effect, RealOK
<1>6. Effect(r) => real'[Object(r)] = Asked(r)
  BY <1>1 DEF Effect, RealOK
<1>7. Creates(r) \in BOOLEAN
  BY DEF Creates
<1>8. /\ StrayOK'
      /\ \A j \in stray' : j \in stray \/ (j.object = Object(r) /\ Object(r) \notin Direct)
  <2> DEFINE j0 == [object |-> Object(r), value |-> Asked(r), creates |-> Creates(r)]
           Jobs == [object : Objects, value : Values \cup {None}, creates : BOOLEAN]
  <2>1. j0 \in Jobs /\ j0.object = Object(r)
    BY <1>1, <1>7
  <2>2. \/ stray' = stray
        \/ stray' = stray \cup {j0} /\ Object(r) \notin Direct
    BY <1>3 DEF Abandoned
  <2>3. stray \subseteq Jobs
    BY <1>1 DEF StrayOK
  <2> HIDE DEF j0, Jobs
  <2>4. stray' \subseteq Jobs
    BY <2>1, <2>2, <2>3
  <2>5. \A j \in stray' : j \in stray \/ (j.object = Object(r) /\ Object(r) \notin Direct)
    BY <2>1, <2>2
  <2>6. StrayOK'
    BY <2>4 DEF StrayOK, Jobs
  <2>7. QED
    BY <2>5, <2>6
<1>9. QED
  BY <1>4, <1>5, <1>6, <1>8

\* What it changes of the Terraform state.
LEMMA StateStep ==
    ASSUME TypeOK, Serving, NEW r \in Resources, Crud(r) \/ Job(r)
    PROVE  /\ StateOK' /\ \A s \in Resources \ {r} : tf'[s] = tf[s]
           /\ \/ UNCHANGED tf
              \/ /\ SetAsked(r) /\ (PlainDone(r) \/ JobsDone(r))
                 /\ r \in Plain \cup Apps \cup Paths
              \/ SetState(r, Fact(r)) /\ Exists(r) /\ ReadBack(r)
<1>1. \/ UNCHANGED tf
      \/ /\ SetAsked(r) /\ (PlainDone(r) \/ JobsDone(r))
         /\ r \in Plain \cup Apps \cup Paths
      \/ SetState(r, Fact(r)) /\ Exists(r) /\ ReadBack(r)
  BY DEF Crud, Job, PlainDone, AnswerLost, RequestFails, RetryParent, StartJob, AnsweredDone,
         StartLost, NextPart, JobsDone, JobError, PollBreaks, ReadBack, JobSucceeds, JobFails
<1>2. StateOK
  BY Typed
<1>3. CASE UNCHANGED tf
  BY <1>2, <1>3 DEF StateOK
<1>4. CASE SetAsked(r)
  <2> DEFINE v == IF Asked(r) = None THEN None ELSE All(r, Asked(r))
  <2>1. v \in {None} \cup [DOMAIN Parts[r] -> Values] /\ SetState(r, v)
    BY <1>4, Facts DEF SetAsked
  <2> HIDE DEF v
  <2>2. StateOK' /\ \A s \in Resources \ {r} : tf'[s] = tf[s]
    BY <1>2, <2>1, Sets
  <2>3. QED
    BY <1>1, <2>2
<1>5. CASE SetState(r, Fact(r)) /\ Exists(r)
  BY <1>1, <1>2, <1>5, Facts, Sets
<1>6. QED
  BY <1>1, <1>3, <1>4, <1>5

-----------------------------------------------------------------------------
(* The inductive invariant.                                                *)

LEMMA CallKeeps ==
    ASSUME IInv, NEW r \in Resources, Crud(r) \/ Job(r)
    PROVE  IInv'
<1>0. TypeOK /\ Serving /\ Obtained
  BY DEF IInv
<1>1. PICK o \in Ops :
        /\ Step(r, o) /\ o.k \in 0..Len(Parts[r])
        /\ o.step # "none" => o.k \in DOMAIN Parts[r]
        /\ o.job # "none" => o.step = "wait"
        /\ o.job = "success" => Ends(r) /\ o.k = op[r].k /\ o.kind = op[r].kind
  BY <1>0, OpStep
<1>2. OpOK' /\ op'[r] = o /\ \A s \in Resources \ {r} : op'[s] = op[s]
  BY <1>0, <1>1, Steps, Typed
<1>3. /\ run = "apply" /\ todo = {} /\ op[r].k \in DOMAIN Parts[r]
      /\ UNCHANGED <<config, run, todo, edits>> /\ faults' \in 0..MaxFaults
  BY <1>0, Busy
<1>4. TypeOK'
  <2>1. StateOK' /\ RealOK' /\ StrayOK'
    BY <1>0, StateStep, WorldStep
  <2>2. QED
    BY <1>0, <1>2, <1>3, <2>1 DEF TypeOK, StateOK, OpOK, RealOK, StrayOK, Ops
<1>5. Serving'
  <2>1. ASSUME NEW s \in Resources
        PROVE  /\ op'[s].step # "none" => op'[s].k \in DOMAIN Parts[s]
               /\ op'[s].job # "none" => op'[s].step = "wait"
    BY <1>0, <1>1, <1>2 DEF Serving
  <2>2. \A j \in stray' : j.object \notin Direct
    BY <1>0, WorldStep DEF Serving
  <2>3. QED
    BY <1>3, <2>1, <2>2 DEF Serving
<1>6. Obtained'
  <2> SUFFICES ASSUME NEW s \in Resources, op'[s].job = "success"
               PROVE  /\ real'[Object(s)'] = Asked(s)'
                      /\ \A j \in stray' : j.object # Object(s)'
    BY DEF Obtained
  <2>1. CASE s = r
    <3>1. Ends(r) /\ op'[r].k = op[r].k /\ op'[r].kind = op[r].kind
      BY <1>1, <1>2, <2>1
    <3>2. Object(r)' = Object(r) /\ Asked(r)' = Asked(r)
      BY <1>3, <3>1 DEF Object, Asked
    <3>3. real'[Object(r)] = Asked(r) /\ UNCHANGED stray
      BY <1>0, <3>1, WorldStep
    <3>4. \A j \in stray : j.object # Object(r)
      BY <1>0, <3>1 DEF Ends, JobSucceeds, Runs, AnsweredDone, AtOnce, Serving
    <3>5. QED
      BY <2>1, <3>2, <3>3, <3>4
  <2>2. CASE s # r
    <3>1. op'[s] = op[s] /\ op[s].job = "success" /\ op[s].k \in DOMAIN Parts[s]
      BY <1>0, <1>2, <2>2 DEF Serving
    <3>2. Object(s)' = Object(s) /\ Asked(s)' = Asked(s)
      BY <1>3, <3>1 DEF Object, Asked
    <3>3. Object(s) # Object(r) /\ Object(s) \in Objects
      BY <1>3, <2>2, <3>1, PartsOf DEF Object
    <3>4. real[Object(s)] = Asked(s) /\ \A j \in stray : j.object # Object(s)
      BY <1>0, <3>1 DEF Obtained
    <3>5. /\ real'[Object(s)] = real[Object(s)]
          /\ \A j \in stray' : j \in stray \/ j.object = Object(r)
      BY <1>0, <3>3, WorldStep
    <3>6. QED
      BY <3>2, <3>3, <3>4, <3>5
  <2>3. QED
    BY <2>1, <2>2
<1>7. QED
  BY <1>4, <1>5, <1>6 DEF IInv

\* A job that was left behind touches no object a successful call still looks at.
LEMMA StrayKeeps ==
    ASSUME IInv, NEW j \in stray, StrayEnds(j)
    PROVE  IInv'
<1>0. TypeOK /\ Serving /\ Obtained /\ RealOK /\ StrayOK
  BY Typed DEF IInv
<1>1. UNCHANGED <<config, tf, run, todo, op, edits, faults>> /\ stray' = stray \ {j}
  BY DEF StrayEnds
<1>2. RealOK' /\ \A o \in Objects : o # j.object => real'[o] = real[o]
  <2>1. j.object \in Objects /\ j.value \in Values \cup {None}
    BY <1>0 DEF StrayOK
  <2>2. QED
    BY <1>0, <2>1 DEF StrayEnds, RealOK
<1>3. TypeOK'
  BY <1>0, <1>1, <1>2 DEF TypeOK, RealOK
<1>4. Serving'
  BY <1>0, <1>1 DEF Serving
<1>5. Obtained'
  <2> SUFFICES ASSUME NEW s \in Resources, op[s].job = "success"
               PROVE  /\ real'[Object(s)] = Asked(s)
                      /\ \A i \in stray' : i.object # Object(s)
    BY <1>1 DEF Obtained, Object, Asked
  <2>1. Object(s) \in Objects
    BY <1>0, PartsOf DEF Serving, Object
  <2>2. real[Object(s)] = Asked(s) /\ \A i \in stray : i.object # Object(s)
    BY <1>0 DEF Obtained
  <2>3. QED
    BY <1>1, <1>2, <2>1, <2>2
<1>6. QED
  BY <1>3, <1>4, <1>5 DEF IInv

\* Terraform, between the calls.
LEMMA RunKeeps ==
    ASSUME IInv, \/ Terraform
                 \/ \E r \in Resources, v \in Values \cup {None} : Edit(r, v)
                 \/ \E r \in Resources : Read(r)
    PROVE  IInv'
<1>0. TypeOK /\ Serving /\ Obtained
  BY DEF IInv
<1>1. CASE PlanRun
  <2>1. /\ UNCHANGED <<config, tf, real, todo, stray, edits, faults>> /\ run' = "apply"
        /\ todo = {} /\ op' = [r \in Resources |-> Difference(r)]
    BY <1>1 DEF PlanRun
  <2>2. ASSUME NEW r \in Resources
        PROVE  /\ Difference(r) \in Ops /\ Difference(r).k \in 0..Len(Parts[r])
               /\ Difference(r).step # "none" => Difference(r).k \in DOMAIN Parts[r]
               /\ Difference(r).job = "none"
    <3>1. NoOp.step = "none" /\ NoOp.job = "none" /\ 1 \in DOMAIN Parts[r]
      BY PartsOf DEF NoOp
    <3>2. Difference(r) = NoOp \/ \E kind \in {"create", "update", "delete"} :
                                     Difference(r) = Call(kind)
      BY DEF Difference
    <3>3. QED
      BY <3>1, <3>2, Calls
  <2>3. OpOK'
    BY <2>1, <2>2 DEF OpOK
  <2>4. TypeOK'
    BY <1>0, <2>1, <2>3 DEF TypeOK, OpOK, Ops
  <2>5. Serving'
    BY <1>0, <2>1, <2>2 DEF Serving
  <2>6. Obtained'
    BY <2>1, <2>2 DEF Obtained
  <2>7. QED
    BY <2>4, <2>5, <2>6 DEF IInv
<1>2. CASE StartRun \/ EndRun
  <2>1. /\ UNCHANGED <<config, tf, real, op, stray, edits, faults>>
        /\ run # "refresh" /\ run' \in {"idle", "refresh"}
        /\ todo' \subseteq {r \in Resources : tf[r] # None}
        /\ run' # "refresh" => todo' = {}
        /\ \A r \in Resources : op[r].step = "none"
    BY <1>0, <1>2 DEF StartRun, EndRun, NoOp, Serving
  <2>2. TypeOK' /\ Serving'
    BY <1>0, <2>1 DEF TypeOK, Serving
  <2>3. Obtained'
    BY <1>0, <2>1 DEF Obtained, Serving
  <2>4. QED
    BY <2>2, <2>3 DEF IInv
<1>3. ASSUME NEW r \in Resources, NEW v \in Values \cup {None}, Edit(r, v) PROVE IInv'
  <2>1. /\ UNCHANGED <<tf, real, run, todo, op, stray, faults>> /\ run = "idle"
        /\ config' \in [Resources -> Values \cup {None}] /\ edits' \in 0..MaxEdits
    BY <1>0, <1>3, ProviderAssumption DEF Edit, TypeOK
  <2>2. TypeOK' /\ Serving'
    BY <1>0, <2>1 DEF TypeOK, Serving
  <2>3. Obtained'
    BY <1>0, <2>1 DEF Obtained, Serving
  <2>4. QED
    BY <2>2, <2>3 DEF IInv
<1>4. ASSUME NEW r \in Resources, Read(r) PROVE IInv'
  <2>1. /\ UNCHANGED <<config, real, op, stray, edits>> /\ run = "refresh"
        /\ Fault \/ NoFault
        /\ \/ UNCHANGED run /\ todo' = todo \ {r}
           \/ run' = "idle" /\ todo' = {}
    BY <1>4 DEF Read, ReadFinds, ReadMissesApp, ReadFails
  <2>2. StateOK' /\ \A s \in Resources \ {r} : tf'[s] = tf[s]
    <3>1. UNCHANGED tf \/ SetState(r, None) \/ (SetState(r, Fact(r)) /\ Exists(r))
      BY <1>4 DEF Read, ReadFinds, ReadMissesApp, ReadFails
    <3>2. StateOK
      BY <1>0, Typed
    <3>3. QED
      BY <1>0, <3>1, <3>2, Sets, Facts DEF StateOK
  <2>3. faults' \in 0..MaxFaults
    BY <1>0, <2>1, ProviderAssumption DEF Fault, NoFault, TypeOK
  <2>4. todo' \subseteq {s \in Resources : tf'[s] # None} /\ run' \in {"idle", "refresh"}
        /\ run' # "refresh" => todo' = {}
    BY <1>0, <2>1, <2>2 DEF TypeOK
  <2>5. TypeOK'
    <3>1. OpOK' /\ RealOK' /\ StrayOK'
      BY <1>0, <2>1, Typed DEF OpOK, RealOK, StrayOK
    <3>2. QED
      BY <1>0, <2>1, <2>2, <2>3, <2>4, <3>1
         DEF TypeOK, StateOK, OpOK, RealOK, StrayOK, Ops
  <2>6. \A s \in Resources : op[s].step = "none" /\ op[s].job = "none"
    BY <1>0, <2>1 DEF Serving, TypeOK
  <2>7. Serving' /\ Obtained'
    BY <1>0, <2>1, <2>4, <2>6 DEF Serving, Obtained
  <2>8. QED
    BY <2>5, <2>7 DEF IInv
<1>5. QED
  BY <1>1, <1>2, <1>3, <1>4 DEF Terraform

LEMMA IInvStep == IInv /\ [Next]_vars => IInv'
<1> SUFFICES ASSUME IInv, [Next]_vars PROVE IInv'
  OBVIOUS
<1>1. CASE UNCHANGED vars
  BY <1>1 DEF vars, IInv, TypeOK, Serving, Obtained, Object, Asked
<1>2. CASE Next
  BY <1>2, CallKeeps, StrayKeeps, RunKeeps DEF Next
<1>3. QED
  BY <1>1, <1>2

LEMMA IInvInit == Init => IInv
<1> SUFFICES ASSUME Init PROVE IInv
  OBVIOUS
<1>1. PICK new \in SUBSET {r \in Resources : config[r] # None}, w \in Values :
        /\ tf = [r \in Resources |-> IF config[r] = None \/ r \in new THEN None
                                    ELSE All(r, config[r])]
        /\ real = [o \in Objects |->
               LET r == CHOOSE r \in Resources : o \in ToSet(Parts[r])
               IN  IF r \notin new THEN config[r] ELSE IF r \in Lasting THEN w ELSE None]
  BY DEF Init
<1>2. /\ config \in [Resources -> Values \cup {None}] /\ run = "idle" /\ todo = {}
      /\ stray = {} /\ op = [r \in Resources |-> NoOp] /\ edits = MaxEdits
      /\ faults = MaxFaults
  BY DEF Init
<1>3. StateOK
  <2>1. \A r \in Resources : config[r] # None => All(r, config[r]) \in [DOMAIN Parts[r] -> Values]
    BY <1>2 DEF All
  <2>2. QED
    BY <1>1, <2>1 DEF StateOK
<1>4. RealOK
  <2>1. ASSUME NEW o \in Objects
        PROVE  (CHOOSE r \in Resources : o \in ToSet(Parts[r])) \in Resources
    BY DEF Objects
  <2>2. QED
    BY <1>1, <1>2, <2>1 DEF RealOK
<1>5. OpOK /\ \A r \in Resources : op[r].step = "none" /\ op[r].job = "none"
  BY <1>2, Calls DEF OpOK, NoOp
<1>6. TypeOK
  BY <1>2, <1>3, <1>4, <1>5, Typed, ProviderAssumption DEF StrayOK
<1>7. Serving /\ Obtained
  BY <1>2, <1>5 DEF Serving, Obtained
<1>8. QED
  BY <1>6, <1>7 DEF IInv

\* The inductive invariant: only an apply has calls under way, each at a part of its
\* resource, and the object of a call whose job has succeeded stays as the call asked
\* for until the call has seen it, whatever jobs earlier calls have left behind.
THEOREM Inductive == Spec => []IInv
<1>1. QED
  BY IInvInit, IInvStep, PTL DEF Spec

-----------------------------------------------------------------------------
(* What comes into the Terraform state and what leaves it.                 *)

\* A call that puts what it asked for into the state, or takes it out, has it at
\* TrueNAS.
LEMMA AskedIsReal ==
    ASSUME IInv, NEW r \in Resources, SetAsked(r), PlainDone(r) \/ JobsDone(r),
           r \in Plain \cup Apps \cup Paths
    PROVE  /\ \A k \in DOMAIN Parts[r] : real'[Parts[r][k]] = Asked(r)
           /\ 1 \in DOMAIN Parts[r]
           /\ tf'[r] = None <=> Asked(r) = None
<1>0. TypeOK /\ Serving /\ Obtained /\ RealOK /\ StateOK /\ Crud(r)
  BY Typed DEF IInv, Crud
<1>1. op[r].k \in DOMAIN Parts[r] /\ Object(r) \in Objects
  BY <1>0, Busy, PartsOf DEF Object
<1>2. tf'[r] = None <=> Asked(r) = None
  BY <1>0, Facts DEF SetAsked, SetState, StateOK
<1>3. real'[Object(r)] = Asked(r)
  <2>1. CASE PlainDone(r)
    BY <1>0, <1>1, <2>1 DEF PlainDone, Effect, RealOK
  <2>2. CASE JobsDone(r)
    BY <1>0, <2>2 DEF JobsDone, Poll, Obtained
  <2>3. QED
    BY <2>1, <2>2
<1>4. DOMAIN Parts[r] = {1}
  BY ProviderAssumption
<1>5. Object(r) = Parts[r][1]
  BY <1>1, <1>4 DEF Object
<1>6. QED
  BY <1>2, <1>3, <1>4, <1>5

\* Only a read and a call change the state of a resource.
LEMMA WhoSets ==
    ASSUME IInv, NEW r \in Resources, [Next]_vars, tf'[r] # tf[r]
    PROVE  Read(r) \/ Crud(r)
<1>0. TypeOK /\ Serving /\ StateOK
  BY Typed DEF IInv
<1>1. \E s \in Resources : Read(s) \/ Crud(s)
  BY DEF Next, vars, Terraform, StartRun, PlanRun, EndRun, Edit, Job, JobSucceeds, JobFails,
         StrayEnds
<1>2. PICK s \in Resources : Read(s) \/ Crud(s)
  BY <1>1
<1>3. CASE Crud(s)
  BY <1>0, <1>3, StateStep
<1>4. CASE Read(s)
  <2>1. UNCHANGED tf \/ SetState(s, None) \/ (SetState(s, Fact(s)) /\ Exists(s))
    BY <1>4 DEF Read, ReadFinds, ReadMissesApp, ReadFails
  <2>2. \A q \in Resources \ {s} : tf'[q] = tf[q]
    BY <1>0, <2>1, Sets, Facts
  <2>3. QED
    BY <1>4, <2>2
<1>5. QED
  BY <1>2, <1>3, <1>4

\* A resource comes into the Terraform state only when all of it exists at TrueNAS.
THEOREM OnlyWhatExists == Spec => InStateExists
<1>1. IInv /\ [Next]_vars => [\A r \in Resources : tf[r] = None /\ tf'[r] # None =>
                                \A k \in DOMAIN Parts[r] : real'[Parts[r][k]] # None]_vars
  <2> SUFFICES ASSUME IInv, [Next]_vars, NEW r \in Resources, tf[r] = None, tf'[r] # None
               PROVE  \A k \in DOMAIN Parts[r] : real'[Parts[r][k]] # None
    OBVIOUS
  <2>0. TypeOK /\ Serving
    BY DEF IInv
  <2>1. CASE Read(r)
    BY <2>0, <2>1 DEF Read, ReadFinds, ReadMissesApp, ReadFails, TypeOK
  <2>2. CASE Crud(r)
    <3>1. CASE SetAsked(r) /\ (PlainDone(r) \/ JobsDone(r)) /\ r \in Plain \cup Apps \cup Paths
      BY <3>1, AskedIsReal
    <3>2. CASE Exists(r) /\ ReadBack(r)
      BY <3>2 DEF Exists, ReadBack
    <3>3. QED
      BY <2>0, <2>2, <3>1, <3>2, StateStep
  <2>3. QED
    BY <2>1, <2>2, WhoSets
<1>2. QED
  BY <1>1, Inductive, PTL DEF Spec, InStateExists

\* A resource leaves the Terraform state only when TrueNAS does not have it any more.
THEOREM OnlyWhatIsGone == Spec => ForgottenIsGone
<1>1. IInv /\ [Next]_vars => [\A r \in Resources : tf[r] # None /\ tf'[r] = None =>
                                real'[Parts[r][1]] = None]_vars
  <2> SUFFICES ASSUME IInv, [Next]_vars, NEW r \in Resources, tf[r] # None, tf'[r] = None
               PROVE  real'[Parts[r][1]] = None
    OBVIOUS
  <2>0. TypeOK /\ Serving /\ StateOK
    BY Typed DEF IInv
  <2>1. CASE Read(r)
    <3>1. CASE ReadFinds(r)
      BY <2>0, <3>1, Facts, Sets DEF ReadFinds
    <3>2. CASE ReadMissesApp(r)
      <4>1. Parts[r] = <<r>> /\ ~Exists(r) /\ UNCHANGED real
        BY <3>2, ProviderAssumption DEF ReadMissesApp
      <4>2. QED
        BY <4>1 DEF Exists
    <3>3. CASE ReadFails(r)
      BY <3>3 DEF ReadFails
    <3>4. QED
      BY <2>1, <3>1, <3>2, <3>3 DEF Read
  <2>2. CASE Crud(r)
    <3>1. CASE SetAsked(r) /\ (PlainDone(r) \/ JobsDone(r)) /\ r \in Plain \cup Apps \cup Paths
      BY <3>1, AskedIsReal
    <3>2. CASE SetState(r, Fact(r)) /\ Exists(r)
      BY <2>0, <3>2, Facts, Sets
    <3>3. QED
      BY <2>0, <2>2, <3>1, <3>2, StateStep
  <2>3. QED
    BY <2>1, <2>2, WhoSets
<1>2. QED
  BY <1>1, Inductive, PTL DEF Spec, ForgottenIsGone
=============================================================================
