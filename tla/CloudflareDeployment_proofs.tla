--------------------- MODULE CloudflareDeployment_proofs ---------------------
(***************************************************************************)
(* Proofs about CloudflareDeployment, for every number of plans, requests  *)
(* and versions.                                                           *)
(*                                                                         *)
(* The inductive invariant follows a plan from its submission to its end   *)
(* and, along an execution, what is known of the provider version in hand: *)
(* where it came from, which module it has, and whether Cloudflare was     *)
(* already asked to deploy it.                                             *)
(***************************************************************************)
EXTENDS CloudflareDeployment, TLAPS

(* States of a deployment that some request has claimed. *)
Begun == {"running", "succeeded", "failed"}

(* Where an executor is that may have asked Cloudflare to deploy. *)
Asked == {"created", "active", "failing", "unrecorded"}

(* A plan and its record go together, and the fields of a record fit its   *)
(* state.                                                                  *)
PlanAt(d) ==
    /\ plan[d].at \in {"idle", "workerRead", "refused"} => dep[d].state = "none"
    /\ plan[d].at = "prepared" => dep[d].state = "submitted"
    /\ plan[d].at = "planned" => dep[d].state \notin {"none", "submitted"}
    /\ dep[d].state # "none" => \E v \in Versions : dep[d].version = {v}
    /\ dep[d].error => dep[d].state = "failed"
    /\ dep[d].pd # {} => dep[d].state = "succeeded"

PlanInv == \A d \in Deployments : PlanAt(d)

(* A request that got past its first read executes one stored plan. *)
TargetAt(r) ==
    run[r].at # "idle" =>
        \E d \in Deployments : run[r].dep = {d} /\ dep[d].state \notin {"none", "submitted"}

TargetInv == \A r \in Requests : TargetAt(r)

(* Cloudflare was asked to deploy d only by the execution of d, which is   *)
(* past that request.                                                      *)
HistoryInv ==
    \A i \in DOMAIN history :
        /\ dep[history[i].by].state \in Begun
        /\ \A r \in Executors(history[i].by) : run[r].at \in Asked

(* The module of a provider version is the one its plan names; a version   *)
(* points to a provider version with its own module.                       *)
ContentInv ==
    /\ \A x \in Deployments : content[x] # {} =>
          content[x] = dep[x].version /\ dep[x].state \in Begun
    /\ \A v \in Versions : uploaded[v] # {} =>
          \E x \in Deployments : uploaded[v] = {x} /\ content[x] = {v}

(* The provider version that a request has in hand. *)
VersionAt(r) ==
    LET d == Target(r) IN
    /\ run[r].pv # {} =>
          /\ run[r].at # "idle"
          /\ \E x \in Deployments : run[r].pv = {x} /\ content[x] = dep[d].version
    /\ run[r].at \in {"versionRead", "opened", "claimed"} /\ dep[d].kind = "rollback" =>
          run[r].pv # {}
    /\ run[r].at \in {"uploaded", "recorded", "listed", "created", "active"} => run[r].pv # {}
    /\ run[r].at = "active" => \E x \in run[r].pv : AtFull(d, x)

VersionInv == \A r \in Requests : VersionAt(r)

(* The number of the worker counts its plans. *)
NumberInv == number >= 1 /\ (number = 1 => desired = {})

CloudInv ==
    /\ CloudTypeOK
    /\ PlanInv
    /\ TargetInv
    /\ ExecutedOnce
    /\ HistoryInv
    /\ ContentInv
    /\ VersionInv
    /\ SucceededMeansDeployed
    /\ NumberInv
    /\ PlansChain

-----------------------------------------------------------------------------
(* Records. *)

DepRecord ==
    [state : {"none", "submitted", "ready_for_provider", "running", "succeeded", "failed"},
     version : SUBSET Versions, kind : Kinds, previous : SUBSET Versions, number : Nat,
     pv : SUBSET Deployments, pd : SUBSET Deployments, error : BOOLEAN]

RunRecord == [at : Places, dep : SUBSET Deployments, pv : SUBSET Deployments]

PlanRecord == [at : {"idle", "workerRead", "prepared", "planned", "refused"},
               desired : SUBSET Versions, number : Nat]

(* The request of r executes one plan from its first read on. *)
LEMMA TargetIsPlan ==
    ASSUME TargetInv, NEW r \in Requests, run[r].at # "idle"
    PROVE  /\ Target(r) \in Deployments /\ run[r].dep = {Target(r)}
           /\ dep[Target(r)].state \notin {"none", "submitted"}
<1>1. PICK d \in Deployments : run[r].dep = {d} /\ dep[d].state \notin {"none", "submitted"}
    BY DEF TargetInv, TargetAt
<1>2. Target(r) = d
    BY <1>1 DEF Target
<1> QED
    BY <1>1, <1>2

(* The absent record. *)
LEMMA NoDeploymentRecord ==
    /\ NoDeployment \in DepRecord
    /\ NoDeployment.state = "none" /\ NoDeployment.pd = {} /\ NoDeployment.error = FALSE
BY DEF NoDeployment, DepRecord, Kinds

(* The plan that createWorkerDeployment submits. *)
SubmittedPlan(d, v, kind) ==
    [NoDeployment EXCEPT !.state = "submitted", !.version = {v}, !.kind = kind,
                         !.previous = plan[d].desired, !.number = plan[d].number + 1]

(* It is a record with one version and no end. *)
LEMMA SubmittedRecord ==
    ASSUME CloudTypeOK, NEW d \in Deployments, NEW v \in Versions, NEW kind \in Kinds
    PROVE  /\ SubmittedPlan(d, v, kind) \in DepRecord
           /\ SubmittedPlan(d, v, kind).state = "submitted"
           /\ SubmittedPlan(d, v, kind).version = {v}
           /\ SubmittedPlan(d, v, kind).pd = {}
           /\ SubmittedPlan(d, v, kind).error = FALSE
<1> DEFINE s == plan[d].desired
           n == plan[d].number + 1
<1>1. s \in SUBSET Versions /\ n \in Nat
    BY DEF CloudTypeOK
<1> DEFINE half == [NoDeployment EXCEPT !.state = "submitted", !.version = {v}, !.kind = kind]
           full == [half EXCEPT !.previous = s, !.number = n]
<1>2. /\ half \in DepRecord
      /\ half.state = "submitted" /\ half.version = {v} /\ half.pd = {} /\ half.error = FALSE
    BY NoDeploymentRecord DEF DepRecord
<1>3. SubmittedPlan(d, v, kind) = full
    BY DEF SubmittedPlan
<1>4. /\ full \in DepRecord
      /\ full.state = half.state /\ full.version = half.version
      /\ full.pd = half.pd /\ full.error = half.error
    <2> HIDE DEF s, n, half
    <2> QED
        BY <1>1, <1>2 DEF DepRecord
<1> QED
    BY <1>2, <1>3, <1>4

(* UpdateWorkerDeployment's three records keep the plan and write its      *)
(* state, its provider version, and at the end the provider's deployment   *)
(* or the error.                                                           *)
Updates(new, old) ==
    /\ new \in DepRecord
    /\ new.version = old.version /\ new.kind = old.kind
    /\ new.previous = old.previous /\ new.number = old.number

(* The record of the claim. *)
LEMMA ClaimedRecord ==
    ASSUME CloudTypeOK, NEW r \in Requests, Target(r) \in Deployments
    PROVE  /\ Updates(Claimed(r), dep[Target(r)])
           /\ Claimed(r).state = "running" /\ Claimed(r).pv = run[r].pv
           /\ Claimed(r).pd = dep[Target(r)].pd /\ Claimed(r).error = dep[Target(r)].error
<1> DEFINE old == dep[Target(r)]
           pv == run[r].pv
<1>1. old \in DepRecord /\ pv \in SUBSET Deployments
    BY DEF CloudTypeOK, DepRecord
<1>2. Claimed(r) = [old EXCEPT !.state = "running", !.pv = pv]
    BY DEF Claimed
<1> HIDE DEF old, pv
<1>3. Updates(Claimed(r), old) /\ Claimed(r).state = "running" /\ Claimed(r).pv = pv
      /\ Claimed(r).pd = old.pd /\ Claimed(r).error = old.error
    BY <1>1, <1>2 DEF DepRecord, Updates
<1> QED
    BY <1>3 DEF old, pv

(* The record of a success. *)
LEMMA SucceededRecord ==
    ASSUME CloudTypeOK, NEW r \in Requests, Target(r) \in Deployments
    PROVE  /\ Updates(Succeeded(r), dep[Target(r)])
           /\ Succeeded(r).state = "succeeded" /\ Succeeded(r).pv = run[r].pv
           /\ Succeeded(r).pd = {Target(r)} /\ Succeeded(r).error = dep[Target(r)].error
<1> DEFINE old == dep[Target(r)]
           pv == run[r].pv
           pd == {Target(r)}
<1>1. old \in DepRecord /\ pv \in SUBSET Deployments /\ pd \in SUBSET Deployments
    BY DEF CloudTypeOK, DepRecord
<1>2. Succeeded(r) = [old EXCEPT !.state = "succeeded", !.pv = pv, !.pd = pd]
    BY DEF Succeeded
<1> HIDE DEF old, pv, pd
<1>3. Updates(Succeeded(r), old) /\ Succeeded(r).state = "succeeded" /\ Succeeded(r).pv = pv
      /\ Succeeded(r).pd = pd /\ Succeeded(r).error = old.error
    BY <1>1, <1>2 DEF DepRecord, Updates
<1> QED
    BY <1>3 DEF old, pv, pd

(* The record of a failure. *)
LEMMA FailedRecord ==
    ASSUME CloudTypeOK, NEW r \in Requests, Target(r) \in Deployments
    PROVE  /\ Updates(Failed(r), dep[Target(r)])
           /\ Failed(r).state = "failed" /\ Failed(r).pv = run[r].pv
           /\ Failed(r).pd = dep[Target(r)].pd /\ Failed(r).error = TRUE
<1> DEFINE old == dep[Target(r)]
           pv == run[r].pv
<1>1. old \in DepRecord /\ pv \in SUBSET Deployments
    BY DEF CloudTypeOK, DepRecord
<1>2. Failed(r) = [old EXCEPT !.state = "failed", !.pv = pv, !.error = TRUE]
    BY DEF Failed
<1> HIDE DEF old, pv
<1>3. Updates(Failed(r), old) /\ Failed(r).state = "failed" /\ Failed(r).pv = pv
      /\ Failed(r).pd = old.pd /\ Failed(r).error = TRUE
    BY <1>1, <1>2 DEF DepRecord, Updates
<1> QED
    BY <1>3 DEF old, pv

(* The request of r comes to a place with provider version pv in hand. *)
Reaches(r, at, pv) ==
    /\ run' \in [Requests -> RunRecord]
    /\ run'[r].at = at /\ run'[r].pv = pv /\ run'[r].dep = run[r].dep
    /\ \A q \in Requests \ {r} : run'[q] = run[q]

(* A handler that goes on keeps what it has in hand. *)
LEMMA GotoReaches ==
    ASSUME CloudTypeOK, NEW r \in Requests, NEW at \in Places, Goto(r, at)
    PROVE  Reaches(r, at, run[r].pv)
<1> DEFINE new == [run[r] EXCEPT !.at = at]
<1>1. run[r] \in RunRecord /\ run \in [Requests -> RunRecord]
    BY DEF CloudTypeOK, RunRecord
<1>2. new \in RunRecord /\ new.at = at /\ new.pv = run[r].pv /\ new.dep = run[r].dep
    BY <1>1 DEF RunRecord
<1>3. run' = [run EXCEPT ![r] = new]
    BY DEF Goto
<1> HIDE DEF new
<1> QED
    BY <1>1, <1>2, <1>3 DEF Reaches

(* The same with another provider version, in either order. *)
LEMMA WriteReaches ==
    ASSUME CloudTypeOK, NEW r \in Requests, NEW at \in Places, NEW pv \in SUBSET Deployments,
           \/ run' = [run EXCEPT ![r].pv = pv, ![r].at = at]
           \/ run' = [run EXCEPT ![r].at = at, ![r].pv = pv]
    PROVE  Reaches(r, at, pv)
<1>1. run[r] \in RunRecord /\ run \in [Requests -> RunRecord]
    BY DEF CloudTypeOK, RunRecord
<1> DEFINE new == [at |-> at, dep |-> run[r].dep, pv |-> pv]
<1>2. new \in RunRecord /\ new.at = at /\ new.pv = pv /\ new.dep = run[r].dep
    BY <1>1 DEF RunRecord
<1>3. run' = [run EXCEPT ![r] = new]
    BY <1>1 DEF RunRecord
<1> HIDE DEF new
<1> QED
    BY <1>1, <1>2, <1>3 DEF Reaches

(* What Cloudflare lists are deployments of plans. *)
LEMMA HistoryElements ==
    ASSUME CloudTypeOK, NEW i \in DOMAIN history
    PROVE  history[i].by \in Deployments /\ history[i].pv \in Deployments
<1> DEFINE Item == [by : Deployments, pv : Deployments]
<1>1. history \in Seq(Item)
    BY DEF CloudTypeOK
<1>2. history[i] \in Item
    <2> HIDE DEF Item
    <2> QED
        BY <1>1
<1> QED
    BY <1>2

-----------------------------------------------------------------------------
(* What no step takes back: the module of a provider version, a deployment *)
(* at Cloudflare, the plan of a stored record, and a success.              *)

Keeps ==
    /\ \A x \in Deployments : content[x] # {} => content'[x] = content[x]
    /\ \A d, x \in Deployments : AtFull(d, x) => AtFull(d, x)'
    /\ \A d \in Deployments :
          /\ dep[d].state \notin {"none", "submitted"} =>
                /\ dep'[d].state \notin {"none", "submitted"}
                /\ dep'[d].version = dep[d].version /\ dep'[d].kind = dep[d].kind
          /\ dep[d].state \in Begun => dep'[d].state \in Begun
          /\ dep[d].state = "succeeded" => dep'[d] = dep[d]

(* A stored plan names one version. *)
LEMMA PlanNamesVersion ==
    ASSUME PlanInv, NEW d \in Deployments, dep[d].state # "none"
    PROVE  dep[d].version # {}
BY DEF PlanInv, PlanAt

(* Then a request that does not move still has a right version in hand. *)
LEMMA RequestKept ==
    ASSUME CloudInv, Keeps, NEW q \in Requests, run'[q] = run[q]
    PROVE  VersionAt(q)' /\ TargetAt(q)'
<1>1. CloudTypeOK /\ PlanInv /\ TargetInv /\ VersionAt(q)
    BY DEF CloudInv, VersionInv
<1>2. Target(q)' = Target(q)
    BY DEF Target
<1>3. CASE run[q].at = "idle"
    BY <1>1, <1>3 DEF VersionAt, TargetAt
<1>4. CASE run[q].at # "idle"
    <2>1. PICK d \in Deployments : /\ d = Target(q) /\ run[q].dep = {d}
                                  /\ dep[d].state \notin {"none", "submitted"}
        BY <1>1, <1>4, TargetIsPlan
    <2>2. dep[d].version # {}
        BY <1>1, <2>1, PlanNamesVersion
    <2>3. /\ dep'[d].version = dep[d].version /\ dep'[d].kind = dep[d].kind
          /\ dep'[d].state \notin {"none", "submitted"}
        BY <2>1 DEF Keeps
    <2>4. TargetAt(q)'
        BY <2>1, <2>3 DEF TargetAt
    <2>5. run[q].pv \subseteq Deployments
        BY <1>1 DEF CloudTypeOK
    <2>6. ASSUME NEW x \in Deployments, content[x] = dep[d].version
          PROVE  content'[x] = dep'[d].version
        BY <2>2, <2>3, <2>6 DEF Keeps
    <2>7. ASSUME NEW x \in run[q].pv, AtFull(d, x) PROVE AtFull(d, x)'
        BY <2>1, <2>5, <2>7 DEF Keeps, AtFull
    <2>8. /\ run[q].pv # {} => \E x \in Deployments : run[q].pv = {x} /\ content[x] = dep[d].version
          /\ run[q].at \in {"versionRead", "opened", "claimed"} /\ dep[d].kind = "rollback" =>
                run[q].pv # {}
          /\ run[q].at \in {"uploaded", "recorded", "listed", "created", "active"} =>
                run[q].pv # {}
          /\ run[q].at = "active" => \E x \in run[q].pv : AtFull(d, x)
        BY <1>1, <2>1 DEF VersionAt
    <2>9. /\ run[q].pv # {} =>
                \E x \in Deployments : run[q].pv = {x} /\ content'[x] = dep'[d].version
          /\ run[q].at = "active" => \E x \in run[q].pv : AtFull(d, x)'
        BY <2>6, <2>7, <2>8
    <2>10. Target(q)' = d
        BY <1>2, <2>1
    <2>11. VersionAt(q)'
        BY <1>4, <2>3, <2>8, <2>9, <2>10 DEF VersionAt, AtFull
    <2> QED
        BY <2>4, <2>11
<1> QED
    BY <1>3, <1>4

(* A deployment that was recorded as succeeded still is what Cloudflare    *)
(* has.                                                                    *)
LEMMA SuccessKept ==
    ASSUME CloudInv, Keeps, NEW d \in Deployments, dep[d].state = "succeeded"
    PROVE  \E pv \in dep'[d].pv : AtFull(d, pv)' /\ content'[pv] = dep'[d].version
<1>1. CloudTypeOK /\ PlanInv /\ SucceededMeansDeployed
    BY DEF CloudInv
<1>2. PICK pv \in dep[d].pv : AtFull(d, pv) /\ content[pv] = dep[d].version
    BY <1>1 DEF SucceededMeansDeployed
<1>3. pv \in Deployments
    BY <1>1 DEF CloudTypeOK
<1>4. dep[d].version # {}
    BY <1>1, PlanNamesVersion
<1> QED
    BY <1>2, <1>3, <1>4 DEF Keeps

-----------------------------------------------------------------------------
(* The initial state and the registry. *)

(* A worker that is not registered yet satisfies the invariant. *)
LEMMA CloudInit == Init => CloudInv
<1> SUFFICES ASSUME Init PROVE CloudInv
    OBVIOUS
<1>1. /\ \A d \in Deployments : /\ plan[d].at = "idle" /\ dep[d] = NoDeployment
                                /\ content[d] = {}
      /\ \A r \in Requests : run[r].at = "idle" /\ run[r].pv = {}
      /\ \A v \in Versions : uploaded[v] = {}
      /\ history = <<>> /\ number = 1 /\ desired = {}
    BY DEF Init, NoPlan, NoRun
<1>2. CloudTypeOK
    <2>1. NoPlan \in PlanRecord /\ NoRun \in RunRecord
        BY DEF NoPlan, NoRun, PlanRecord, RunRecord, Places
    <2>2. /\ plan \in [Deployments -> PlanRecord] /\ dep \in [Deployments -> DepRecord]
          /\ run \in [Requests -> RunRecord]
        BY <2>1, NoDeploymentRecord DEF Init
    <2>3. history \in Seq([by : Deployments, pv : Deployments])
        BY <1>1
    <2> QED
        BY <2>2, <2>3 DEF Init, CloudTypeOK, PlanRecord, DepRecord, RunRecord
<1>3. PlanInv
    BY <1>1, NoDeploymentRecord DEF PlanInv, PlanAt
<1>4. TargetInv /\ VersionInv /\ ContentInv /\ NumberInv
    BY <1>1 DEF TargetInv, TargetAt, VersionInv, VersionAt, ContentInv, NumberInv
<1>5. HistoryInv /\ ExecutedOnce
    BY <1>1, NoDeploymentRecord DEF HistoryInv, ExecutedOnce, Executors, Claiming
<1>6. SucceededMeansDeployed /\ PlansChain
    BY <1>1, NoDeploymentRecord DEF SucceededMeansDeployed, PlansChain, Planned
<1> QED
    BY <1>2, <1>3, <1>4, <1>5, <1>6 DEF CloudInv

(* The worker's registration, its versions and its token: no plan and no   *)
(* execution is touched.                                                   *)
LEMMA RegistryStep ==
    ASSUME CloudInv,
           \/ CreateWorker \/ PutWorkerToken \/ DeleteWorkerToken \/ UNCHANGED vars
           \/ \E v \in Versions : CreateWorkerVersion(v)
    PROVE  CloudInv' /\ Keeps
<1>1. /\ UNCHANGED <<storage, uploaded, planVars, dep, run, cloudVars>>
      /\ registered' \in BOOLEAN /\ token' \in BOOLEAN /\ staged' \subseteq Versions
    BY DEF CreateWorker, PutWorkerToken, DeleteWorkerToken, CreateWorkerVersion, vars,
           registryVars, CloudInv, CloudTypeOK
<1>2. UNCHANGED <<storage, uploaded, desired, number, plan, dep, run, content, history>>
    BY <1>1 DEF planVars, cloudVars
<1>3. CloudTypeOK'
    BY <1>1, <1>2 DEF CloudInv, CloudTypeOK
<1>4. PlanInv' /\ TargetInv' /\ ContentInv' /\ NumberInv'
    BY <1>2 DEF CloudInv, PlanInv, PlanAt, TargetInv, TargetAt, ContentInv, NumberInv
<1>5. ExecutedOnce' /\ HistoryInv'
    BY <1>2 DEF CloudInv, ExecutedOnce, HistoryInv, Executors
<1>6. VersionInv' /\ SucceededMeansDeployed'
    BY <1>2 DEF CloudInv, VersionInv, VersionAt, Target, AtFull, SucceededMeansDeployed
<1>7. PlansChain'
    BY <1>2 DEF CloudInv, PlansChain, Planned
<1>8. Keeps
    BY <1>2 DEF Keeps, AtFull
<1> QED
    BY <1>3, <1>4, <1>5, <1>6, <1>7, <1>8 DEF CloudInv

-----------------------------------------------------------------------------
(* Planning. *)

(* Planning touches no execution: the record it writes is not claimed. *)
LEMMA PlanFrame ==
    ASSUME CloudInv, UNCHANGED <<uploaded, run, content, history>>,
           NEW d \in Deployments, \A e \in Deployments \ {d} : dep'[e] = dep[e],
           dep[d].state \in {"none", "submitted"},
           dep'[d].state \in {"none", "submitted", "ready_for_provider"}
    PROVE  /\ TargetInv' /\ ExecutedOnce' /\ HistoryInv' /\ ContentInv' /\ VersionInv'
           /\ SucceededMeansDeployed' /\ Keeps
<1>1. /\ CloudTypeOK /\ ExecutedOnce /\ HistoryInv /\ ContentInv
      /\ \A i \in DOMAIN history : history[i].by \in Deployments
    BY HistoryElements DEF CloudInv
<1>2. Keeps
    BY DEF Keeps, AtFull, Begun
<1>3. TargetInv' /\ VersionInv'
    BY <1>2, RequestKept DEF TargetInv, VersionInv
<1>4. \A e \in Deployments : Executors(e)' = Executors(e)
    BY DEF Executors
<1>5. \A i \in DOMAIN history : history[i].by # d
    BY <1>1 DEF HistoryInv, Begun
<1>6. ExecutedOnce'
    BY <1>1, <1>4, <1>5 DEF ExecutedOnce
<1>7. HistoryInv'
    BY <1>1, <1>4, <1>5 DEF HistoryInv, Executors
<1>8. ContentInv'
    BY <1>1 DEF ContentInv, Begun
<1>9. SucceededMeansDeployed'
    BY <1>2, SuccessKept DEF SucceededMeansDeployed
<1> QED
    BY <1>2, <1>3, <1>6, <1>7, <1>8, <1>9

(* createWorkerDeployment up to the submission: nothing is stored yet. *)
LEMMA SubmitStep ==
    ASSUME CloudInv, NEW d \in Deployments,
           PlanReadWorker(d) \/ \E v \in Versions, kind \in Kinds : PlanPrepare(d, v, kind)
    PROVE  CloudInv' /\ Keeps
<1>1. /\ CloudTypeOK /\ PlanInv /\ PlanAt(d) /\ NumberInv /\ PlansChain
      /\ plan \in [Deployments -> PlanRecord] /\ plan[d] \in PlanRecord
      /\ dep \in [Deployments -> DepRecord]
    BY DEF CloudInv, PlanInv, CloudTypeOK, PlanRecord, DepRecord
<1>2. UNCHANGED <<storage, registered, staged, uploaded, token, desired, number, run, content,
                  history>>
    BY DEF PlanReadWorker, PlanPrepare, registryVars, cloudVars
<1>3. dep[d].state = "none"
    BY <1>1 DEF PlanReadWorker, PlanPrepare, PlanAt
<1> DEFINE Outcome == /\ plan' \in [Deployments -> PlanRecord]
                      /\ dep' \in [Deployments -> DepRecord]
                      /\ PlanAt(d)'
                      /\ dep'[d].state \in {"none", "submitted"}
                      /\ \A e \in Deployments \ {d} : plan'[e] = plan[e] /\ dep'[e] = dep[e]
<1>4. Outcome
    <2>1. CASE PlanReadWorker(d)
        <3> DEFINE read == [at |-> "workerRead", desired |-> desired, number |-> number]
        <3>1. read \in PlanRecord /\ read.at = "workerRead"
            BY <1>1 DEF PlanRecord, CloudTypeOK
        <3>2. plan' = [plan EXCEPT ![d] = read] /\ UNCHANGED dep
            BY <2>1 DEF PlanReadWorker
        <3> HIDE DEF read
        <3> QED
            BY <1>1, <1>3, <3>1, <3>2 DEF PlanAt
    <2>2. ASSUME NEW v \in Versions, NEW kind \in Kinds, PlanPrepare(d, v, kind)
          PROVE  Outcome
        <3>1. ASSUME NEW at \in {"prepared", "refused"}, plan' = [plan EXCEPT ![d].at = at]
              PROVE  /\ plan' \in [Deployments -> PlanRecord] /\ plan'[d].at = at
                     /\ \A e \in Deployments \ {d} : plan'[e] = plan[e]
            <4> DEFINE new == [plan[d] EXCEPT !.at = at]
            <4>1. new \in PlanRecord /\ new.at = at /\ plan' = [plan EXCEPT ![d] = new]
                BY <1>1, <3>1 DEF PlanRecord
            <4> HIDE DEF new
            <4> QED
                BY <1>1, <4>1
        <3>2. CASE v \in staged /\ token
            <4> DEFINE new == SubmittedPlan(d, v, kind)
            <4>1. /\ plan' = [plan EXCEPT ![d].at = "prepared"]
                  /\ dep' = [dep EXCEPT ![d] = new]
                BY <2>2, <3>2 DEF PlanPrepare, SubmittedPlan
            <4>2. /\ new \in DepRecord /\ new.state = "submitted" /\ new.version = {v}
                  /\ new.pd = {} /\ new.error = FALSE
                <5>1. CloudTypeOK
                    BY <1>1
                <5> QED
                    BY <5>1, SubmittedRecord, ZenonT(30)
            <4> HIDE DEF new
            <4>3. /\ dep' \in [Deployments -> DepRecord] /\ dep'[d] = new
                  /\ \A e \in Deployments \ {d} : dep'[e] = dep[e]
                BY <1>1, <4>1, <4>2
            <4> QED
                BY <3>1, <4>1, <4>2, <4>3 DEF PlanAt
        <3>3. CASE ~(v \in staged /\ token)
            BY <1>1, <1>3, <2>2, <3>1, <3>3 DEF PlanPrepare, PlanAt
        <3> QED
            BY <3>2, <3>3
    <2> QED
        BY <2>1, <2>2
<1>5. CloudTypeOK'
    BY <1>1, <1>2, <1>4 DEF CloudTypeOK, PlanRecord, DepRecord
<1>6. PlanInv'
    BY <1>1, <1>4 DEF PlanInv, PlanAt
<1>7. Planned' = Planned /\ \A e \in Planned : dep'[e] = dep[e]
    BY <1>3, <1>4 DEF Planned
<1>8. PlansChain' /\ NumberInv'
    BY <1>1, <1>2, <1>7 DEF PlansChain, NumberInv
<1> QED
    BY <1>2, <1>3, <1>4, <1>5, <1>6, <1>8, PlanFrame DEF CloudInv

(* PlanWorkerDeployment: a stored plan continues the chain. *)
LEMMA StorePlanStep ==
    ASSUME CloudInv, NEW d \in Deployments, PlanWorkerDeployment(d)
    PROVE  CloudInv' /\ Keeps
<1>1. /\ CloudTypeOK /\ PlanInv /\ PlanAt(d) /\ NumberInv /\ PlansChain
      /\ plan \in [Deployments -> PlanRecord] /\ plan[d] \in PlanRecord
      /\ dep \in [Deployments -> DepRecord] /\ dep[d] \in DepRecord
      /\ number \in Nat
    BY DEF CloudInv, PlanInv, CloudTypeOK, PlanRecord, DepRecord
<1>2. UNCHANGED <<storage, registered, staged, uploaded, token, run, content, history>>
    BY DEF PlanWorkerDeployment, registryVars, cloudVars
<1>3. dep[d].state = "submitted"
    BY <1>1 DEF PlanWorkerDeployment, PlanAt
<1>4. ASSUME NEW at \in {"planned", "refused"}, plan' = [plan EXCEPT ![d].at = at]
      PROVE  /\ plan' \in [Deployments -> PlanRecord] /\ plan'[d].at = at
             /\ \A e \in Deployments \ {d} : plan'[e] = plan[e]
    <2> DEFINE new == [plan[d] EXCEPT !.at = at]
    <2>1. new \in PlanRecord /\ new.at = at /\ plan' = [plan EXCEPT ![d] = new]
        BY <1>1, <1>4 DEF PlanRecord
    <2> HIDE DEF new
    <2> QED
        BY <1>1, <2>1
<1>5. CASE /\ MemoryPlan(d) \/ PostgresPlan(d)
           /\ plan' = [plan EXCEPT ![d].at = "planned"]
           /\ dep' = [dep EXCEPT ![d].state = "ready_for_provider"]
           /\ desired' = dep[d].version /\ number' = dep[d].number
    <2> DEFINE new == [dep[d] EXCEPT !.state = "ready_for_provider"]
    <2>1. /\ new \in DepRecord /\ new.state = "ready_for_provider"
          /\ new.version = dep[d].version /\ new.kind = dep[d].kind
          /\ new.previous = dep[d].previous /\ new.number = dep[d].number
          /\ new.pd = dep[d].pd /\ new.error = dep[d].error
          /\ dep' = [dep EXCEPT ![d] = new]
        BY <1>1, <1>5 DEF DepRecord
    <2> HIDE DEF new
    <2>2. /\ dep' \in [Deployments -> DepRecord] /\ dep'[d] = new
          /\ \A e \in Deployments \ {d} : dep'[e] = dep[e]
        BY <1>1, <2>1
    <2>3. /\ plan' \in [Deployments -> PlanRecord] /\ plan'[d].at = "planned"
          /\ \A e \in Deployments \ {d} : plan'[e] = plan[e]
        BY <1>4, <1>5
    <2>4. CloudTypeOK'
        <3>1. desired' \subseteq Versions /\ number' \in Nat
            BY <1>1, <1>5 DEF DepRecord
        <3> QED
            BY <1>1, <1>2, <2>2, <2>3, <3>1 DEF CloudTypeOK, PlanRecord, DepRecord
    <2>5. PlanInv'
        <3>1. PlanAt(d)'
            BY <1>1, <1>3, <2>1, <2>2, <2>3 DEF PlanAt
        <3> QED
            BY <1>1, <2>2, <2>3, <3>1 DEF PlanInv, PlanAt
    <2>6. /\ dep[d].previous = desired /\ dep[d].number = number + 1
          /\ dep[d].kind = "rollback" => desired \notin {{}, dep[d].version}
        BY <1>5 DEF MemoryPlan, PostgresPlan
    <2>7. /\ Planned' = Planned \cup {d} /\ d \notin Planned /\ Planned \subseteq Deployments
          /\ \A e \in Planned : dep'[e] = dep[e] /\ dep[e].number \in Nat
        BY <1>1, <1>3, <2>1, <2>2 DEF Planned, DepRecord
    <2>8. number' = number + 1 /\ desired' = dep[d].version
        BY <1>5, <2>6
    <2>9. NumberInv'
        BY <1>1, <2>8 DEF NumberInv
    <2>10. ASSUME NEW e \in Planned
           PROVE  /\ dep'[e].number \in 2..number /\ dep'[e].number # number'
                  /\ dep'[e].number = number => dep'[d].previous = dep'[e].version
                  /\ dep'[e].number = 2 => dep'[e].previous = {}
                  /\ dep'[e].kind = "rollback" => dep'[e].previous \notin {{}, dep'[e].version}
        <3>1. /\ dep[e].number \in 2..number
              /\ dep[e].number = number => desired = dep[e].version
              /\ dep[e].number = 2 => dep[e].previous = {}
              /\ dep[e].kind = "rollback" => dep[e].previous \notin {{}, dep[e].version}
            BY <1>1 DEF PlansChain
        <3> QED
            BY <1>1, <2>1, <2>2, <2>6, <2>7, <2>8, <3>1
    <2>11. /\ dep'[d].number = number' /\ number' \in 2..number' /\ desired' = dep'[d].version
           /\ dep'[d].number = 2 => dep'[d].previous = {}
           /\ dep'[d].kind = "rollback" => dep'[d].previous \notin {{}, dep'[d].version}
        BY <1>1, <2>1, <2>2, <2>6, <2>8 DEF NumberInv
    <2>12. ASSUME NEW e \in Planned, NEW f \in Planned
           PROVE  /\ dep'[e].number = dep'[f].number => e = f
                  /\ dep'[f].number = dep'[e].number + 1 => dep'[f].previous = dep'[e].version
        BY <1>1, <2>7 DEF PlansChain
    <2>13. PlansChain'
        <3>1. \A e \in Planned' :
                  /\ dep'[e].number \in 2..number'
                  /\ dep'[e].number = number' => desired' = dep'[e].version
                  /\ dep'[e].number = 2 => dep'[e].previous = {}
                  /\ dep'[e].kind = "rollback" => dep'[e].previous \notin {{}, dep'[e].version}
            BY <1>1, <2>7, <2>8, <2>10, <2>11
        <3>2. ASSUME NEW e \in Planned', NEW f \in Planned'
              PROVE  /\ dep'[e].number = dep'[f].number => e = f
                     /\ dep'[f].number = dep'[e].number + 1 => dep'[f].previous = dep'[e].version
            <4>1. CASE e \in Planned /\ f \in Planned
                BY <2>12, <4>1
            <4>2. CASE e = d /\ f \in Planned
                BY <1>1, <2>8, <2>10, <2>11, <4>2
            <4>3. CASE e \in Planned /\ f = d
                BY <1>1, <2>8, <2>10, <2>11, <4>3
            <4>4. CASE e = d /\ f = d
                BY <1>1, <2>8, <2>11, <4>4
            <4> QED
                BY <2>7, <4>1, <4>2, <4>3, <4>4
        <3> QED
            BY <3>1, <3>2 DEF PlansChain
    <2> QED
        BY <1>2, <1>3, <2>1, <2>2, <2>4, <2>5, <2>9, <2>13, PlanFrame DEF CloudInv
<1>6. CASE /\ plan' = [plan EXCEPT ![d].at = "refused"]
           /\ dep' = [dep EXCEPT ![d] = NoDeployment]
           /\ UNCHANGED <<desired, number>>
    <2>1. /\ plan' \in [Deployments -> PlanRecord] /\ plan'[d].at = "refused"
          /\ \A e \in Deployments \ {d} : plan'[e] = plan[e]
        BY <1>4, <1>6
    <2>2. /\ dep' \in [Deployments -> DepRecord] /\ dep'[d] = NoDeployment
          /\ \A e \in Deployments \ {d} : dep'[e] = dep[e]
        BY <1>1, <1>6, NoDeploymentRecord
    <2>3. CloudTypeOK'
        BY <1>1, <1>2, <1>6, <2>1, <2>2 DEF CloudTypeOK, PlanRecord, DepRecord
    <2>4. PlanInv'
        BY <1>1, <2>1, <2>2, NoDeploymentRecord DEF PlanInv, PlanAt
    <2>5. Planned' = Planned /\ \A e \in Planned : dep'[e] = dep[e]
        BY <1>3, <2>2, NoDeploymentRecord DEF Planned
    <2>6. PlansChain' /\ NumberInv'
        BY <1>1, <1>6, <2>5 DEF PlansChain, NumberInv
    <2> QED
        BY <1>2, <1>3, <2>2, <2>3, <2>4, <2>6, NoDeploymentRecord, PlanFrame DEF CloudInv
<1> QED
    BY <1>5, <1>6 DEF PlanWorkerDeployment

-----------------------------------------------------------------------------
(* Execution up to the claim. *)

(* A request that has not claimed its plan writes nothing but its place. *)
LEMMA EarlyFrame ==
    ASSUME CloudInv, UNCHANGED <<storage, registryVars, planVars, dep, cloudVars>>,
           NEW r \in Requests, run' \in [Requests -> RunRecord],
           \A q \in Requests \ {r} : run'[q] = run[q],
           run[r].at \notin Claiming, run'[r].at \notin Claiming,
           TargetAt(r)', VersionAt(r)'
    PROVE  CloudInv' /\ Keeps
<1>1. UNCHANGED <<storage, registered, staged, uploaded, token, desired, number, plan, dep,
                  content, history>>
    BY DEF registryVars, planVars, cloudVars
<1>2. CloudTypeOK'
    BY <1>1 DEF CloudInv, CloudTypeOK, RunRecord
<1>3. PlanInv' /\ ContentInv' /\ NumberInv' /\ SucceededMeansDeployed' /\ PlansChain'
    <2>1. PlanInv'
        BY <1>1 DEF CloudInv, PlanInv, PlanAt
    <2>2. ContentInv' /\ NumberInv'
        BY <1>1 DEF CloudInv, ContentInv, NumberInv
    <2>3. SucceededMeansDeployed'
        BY <1>1 DEF CloudInv, SucceededMeansDeployed, AtFull
    <2>4. PlansChain'
        BY <1>1 DEF CloudInv, PlansChain, Planned
    <2> QED
        BY <2>1, <2>2, <2>3, <2>4
<1>4. Keeps
    BY <1>1 DEF Keeps, AtFull
<1>5. TargetInv' /\ VersionInv'
    BY <1>4, RequestKept DEF TargetInv, VersionInv
<1>6. \A d : Executors(d)' = Executors(d) /\ r \notin Executors(d)
    BY DEF Executors
<1>7. ExecutedOnce'
    BY <1>1, <1>6 DEF CloudInv, ExecutedOnce
<1>8. HistoryInv'
    <2>1. ASSUME NEW d, NEW q \in Executors(d) PROVE q \in Requests \ {r}
        BY <1>6, <2>1 DEF Executors
    <2>2. \A d : \A q \in Executors(d) : run'[q] = run[q]
        BY <2>1
    <2> QED
        BY <1>1, <1>6, <2>2 DEF CloudInv, HistoryInv
<1> QED
    BY <1>2, <1>3, <1>4, <1>5, <1>7, <1>8 DEF CloudInv

(* GetWorkerDeployment. *)
LEMMA ReadDeploymentStep ==
    ASSUME CloudInv, NEW r \in Requests, NEW d \in Deployments, ExecuteReadDeployment(r, d)
    PROVE  CloudInv' /\ Keeps
<1> DEFINE new == [at |-> "deploymentRead", dep |-> {d}, pv |-> {}]
<1>1. new \in RunRecord /\ new.at = "deploymentRead" /\ new.dep = {d} /\ new.pv = {}
    BY DEF RunRecord, Places
<1>2. run \in [Requests -> RunRecord]
    BY DEF CloudInv, CloudTypeOK, RunRecord
<1>3. run' = [run EXCEPT ![r] = new] /\ run[r].at = "idle"
      /\ UNCHANGED <<storage, registryVars, planVars, dep, cloudVars>>
    BY DEF ExecuteReadDeployment
<1> HIDE DEF new
<1>4. /\ run' \in [Requests -> RunRecord] /\ run'[r] = new
      /\ \A q \in Requests \ {r} : run'[q] = run[q]
    BY <1>1, <1>2, <1>3
<1>5. TargetAt(r)'
    <2>1. dep'[d].state = "ready_for_provider"
        BY <1>3 DEF ExecuteReadDeployment
    <2> QED
        BY <1>1, <1>4, <2>1 DEF TargetAt
<1>6. VersionAt(r)'
    BY <1>1, <1>4 DEF VersionAt
<1> QED
    BY <1>1, <1>3, <1>4, <1>5, <1>6, EarlyFrame DEF Claiming

(* The reads of the worker, the version and the token.  A rollback goes on *)
(* only with a provider version of the version its plan names.             *)
LEMMA EarlyStep ==
    ASSUME CloudInv, NEW r \in Requests,
           ExecuteReadWorker(r) \/ ExecuteReadVersion(r) \/ ExecuteOpenToken(r)
    PROVE  CloudInv' /\ Keeps
<1>1. /\ UNCHANGED <<storage, registryVars, planVars, dep, cloudVars>>
      /\ run[r].at \in {"deploymentRead", "workerRead", "versionRead"}
    BY DEF ExecuteReadWorker, ExecuteReadVersion, ExecuteOpenToken
<1>2. CloudTypeOK /\ PlanInv /\ TargetInv /\ VersionAt(r) /\ ContentInv
    BY DEF CloudInv, VersionInv
<1>3. PICK d \in Deployments : /\ d = Target(r) /\ run[r].dep = {d}
                               /\ dep[d].state \notin {"none", "submitted"}
    BY <1>1, <1>2, TargetIsPlan
<1> DEFINE Right(pv) == pv # {} => \E x \in Deployments : pv = {x} /\ content[x] = dep[d].version
<1>4. \E at \in {"workerRead", "versionRead", "opened", "refused"}, pv \in SUBSET Deployments :
          /\ Reaches(r, at, pv) /\ Right(pv)
          /\ at \in {"versionRead", "opened"} /\ dep[d].kind = "rollback" => pv # {}
    <2>1. run[r].pv \in SUBSET Deployments /\ Right(run[r].pv)
        BY <1>2, <1>3 DEF VersionAt, CloudTypeOK
    <2>2. CASE ExecuteReadWorker(r)
        <3>1. \E at \in {"workerRead", "refused"} : Goto(r, at)
            BY <2>2 DEF ExecuteReadWorker
        <3>2. \E at \in {"workerRead", "refused"} : Reaches(r, at, run[r].pv)
            BY <1>2, <3>1, GotoReaches DEF Places
        <3> QED
            BY <2>1, <3>2
    <2>3. CASE ExecuteOpenToken(r)
        <3>1. \E at \in {"opened", "refused"} : Goto(r, at)
            BY <2>3 DEF ExecuteOpenToken
        <3>2. \E at \in {"opened", "refused"} : Reaches(r, at, run[r].pv)
            BY <1>2, <3>1, GotoReaches DEF Places
        <3>3. dep[d].kind = "rollback" => run[r].pv # {}
            BY <1>2, <1>3, <2>3 DEF ExecuteOpenToken, VersionAt
        <3> QED
            BY <2>1, <3>2, <3>3
    <2>4. CASE ExecuteReadVersion(r)
        <3> DEFINE pv == IF dep[d].kind = "rollback" THEN UNION {uploaded[v] : v \in dep[d].version}
                         ELSE {}
                   at == IF dep[d].kind = "rollback" /\ pv = {} THEN "refused" ELSE "versionRead"
        <3>1. run' = [run EXCEPT ![r].pv = pv, ![r].at = at]
            BY <1>3, <2>4 DEF ExecuteReadVersion
        <3>2. PICK v \in Versions : dep[d].version = {v}
            BY <1>2, <1>3 DEF PlanInv, PlanAt
        <3>3. pv \in {{}, uploaded[v]}
            BY <3>2
        <3>4. Right(pv) /\ pv \in SUBSET Deployments
            <4>1. Right(uploaded[v]) /\ uploaded[v] \in SUBSET Deployments
                BY <1>2, <3>2 DEF ContentInv, CloudTypeOK
            <4> HIDE DEF pv
            <4> QED
                BY <3>3, <4>1
        <3>5. /\ at \in {"versionRead", "refused"}
              /\ at = "versionRead" /\ dep[d].kind = "rollback" => pv # {}
            OBVIOUS
        <3> HIDE DEF pv, at
        <3>6. Reaches(r, at, pv)
            BY <1>2, <3>1, <3>4, <3>5, WriteReaches DEF Places
        <3> QED
            BY <3>4, <3>5, <3>6
    <2> QED
        BY <2>2, <2>3, <2>4
<1>5. PICK at \in {"workerRead", "versionRead", "opened", "refused"}, pv \in SUBSET Deployments :
          /\ Reaches(r, at, pv) /\ Right(pv)
          /\ at \in {"versionRead", "opened"} /\ dep[d].kind = "rollback" => pv # {}
    BY <1>4
<1>6. /\ run' \in [Requests -> RunRecord]
      /\ run'[r].at = at /\ run'[r].pv = pv /\ run'[r].dep = run[r].dep
      /\ \A q \in Requests \ {r} : run'[q] = run[q]
    BY <1>5 DEF Reaches
<1>7. Target(r)' = d /\ UNCHANGED <<dep, content>>
    BY <1>1, <1>3, <1>6 DEF Target, cloudVars
<1>8. TargetAt(r)'
    BY <1>3, <1>6, <1>7 DEF TargetAt
<1>9. VersionAt(r)'
    BY <1>5, <1>6, <1>7 DEF VersionAt
<1> QED
    BY <1>1, <1>6, <1>8, <1>9, EarlyFrame DEF Claiming

-----------------------------------------------------------------------------
(* The writes of the record: the claim and the end. *)

(* UpdateWorkerDeployment keeps the plan of the record, and with it the    *)
(* chain.                                                                  *)
LEMMA UpdateFrame ==
    ASSUME CloudInv, UNCHANGED <<storage, registryVars, planVars, cloudVars>>,
           NEW d \in Deployments, NEW new, Updates(new, dep[d]),
           dep' = [dep EXCEPT ![d] = new],
           dep[d].state \in {"ready_for_provider", "running"}, new.state \in Begun,
           new.error => new.state = "failed",
           new.pd # {} => new.state = "succeeded",
           NEW r \in Requests, NEW at, NEW pv, Reaches(r, at, pv)
    PROVE  /\ CloudTypeOK' /\ PlanInv' /\ ContentInv' /\ NumberInv' /\ PlansChain' /\ Keeps
           /\ dep'[d] = new /\ \A e \in Deployments \ {d} : dep'[e] = dep[e]
           /\ \A q \in Requests \ {r} : TargetAt(q)' /\ VersionAt(q)'
<1>1. UNCHANGED <<storage, registered, staged, uploaded, token, desired, number, plan, content,
                  history>>
    BY DEF registryVars, planVars, cloudVars
<1>2. CloudTypeOK /\ PlanInv /\ ContentInv /\ NumberInv /\ PlansChain
      /\ dep \in [Deployments -> DepRecord]
    BY DEF CloudInv, CloudTypeOK, DepRecord
<1>3. /\ new \in DepRecord
      /\ new.version = dep[d].version /\ new.kind = dep[d].kind
      /\ new.previous = dep[d].previous /\ new.number = dep[d].number
    BY DEF Updates
<1>4. /\ dep' \in [Deployments -> DepRecord] /\ dep'[d] = new
      /\ \A e \in Deployments \ {d} : dep'[e] = dep[e]
    BY <1>2, <1>3
<1>5. run' \in [Requests -> RunRecord] /\ \A q \in Requests \ {r} : run'[q] = run[q]
    BY DEF Reaches
<1>6. CloudTypeOK'
    BY <1>1, <1>2, <1>4, <1>5 DEF CloudTypeOK, DepRecord, RunRecord
<1>7. PlanInv'
    <2>1. PlanAt(d)'
        <3>1. PlanAt(d)
            BY <1>2 DEF PlanInv
        <3> QED
            BY <1>1, <1>3, <1>4, <3>1 DEF PlanAt, Begun
    <2> QED
        BY <1>1, <1>2, <1>4, <2>1 DEF PlanInv, PlanAt
<1>8. ContentInv'
    BY <1>1, <1>2, <1>3, <1>4 DEF ContentInv, Begun
<1>9. Planned' = Planned
    BY <1>4 DEF Planned, Begun
<1>10. \A e \in Planned : /\ dep'[e].number = dep[e].number /\ dep'[e].version = dep[e].version
                          /\ dep'[e].kind = dep[e].kind /\ dep'[e].previous = dep[e].previous
    BY <1>3, <1>4 DEF Planned
<1>11. PlansChain' /\ NumberInv'
    BY <1>1, <1>2, <1>9, <1>10 DEF PlansChain, NumberInv
<1>12. Keeps
    BY <1>1, <1>3, <1>4 DEF Keeps, AtFull, Begun
<1>13. \A q \in Requests \ {r} : TargetAt(q)' /\ VersionAt(q)'
    BY <1>5, <1>12, RequestKept
<1> QED
    BY <1>4, <1>6, <1>7, <1>8, <1>11, <1>12, <1>13

(* The compare-and-swap: one request claims a plan that is ready, when     *)
(* Cloudflare has not heard of it.                                         *)
LEMMA ClaimStep ==
    ASSUME CloudInv, NEW r \in Requests, Claim(r)
    PROVE  CloudInv' /\ Keeps
<1>1. run[r].at = "opened" /\ UNCHANGED <<storage, registryVars, planVars, cloudVars>>
    BY DEF Claim
<1>2. /\ CloudTypeOK /\ PlanInv /\ TargetInv /\ VersionAt(r) /\ ExecutedOnce /\ HistoryInv
      /\ SucceededMeansDeployed
    BY DEF CloudInv, VersionInv
<1>3. PICK d \in Deployments : /\ d = Target(r) /\ run[r].dep = {d}
                               /\ dep[d].state \notin {"none", "submitted"}
    BY <1>1, <1>2, TargetIsPlan
<1>4. UNCHANGED <<content, history>>
    BY <1>1 DEF cloudVars
<1>5. CASE Goto(r, "refused") /\ UNCHANGED dep
    <2>1. Goto(r, "refused") /\ UNCHANGED dep
        BY <1>5
    <2>2. Reaches(r, "refused", run[r].pv)
        BY <1>2, <2>1, GotoReaches DEF Places
    <2>3. /\ run' \in [Requests -> RunRecord]
          /\ run'[r].at = "refused" /\ run'[r].pv = run[r].pv /\ run'[r].dep = run[r].dep
          /\ \A q \in Requests \ {r} : run'[q] = run[q]
        BY <2>2 DEF Reaches
    <2>4. Target(r)' = d
        BY <1>3, <2>3 DEF Target
    <2>5. TargetAt(r)' /\ VersionAt(r)'
        BY <1>2, <1>3, <1>4, <2>1, <2>3, <2>4 DEF TargetAt, VersionAt
    <2> QED
        BY <1>1, <2>1, <2>3, <2>5, EarlyFrame DEF Claiming
<1>6. ASSUME NEW ordered,
             MemoryUpdate(Target(r), Claimed(r), "ready_for_provider", ordered),
             Goto(r, "claimed"), dep' = [dep EXCEPT ![Target(r)] = Claimed(r)]
      PROVE  CloudInv' /\ Keeps
    <2>1. PICK new : new = Claimed(r)
        OBVIOUS
    <2>2. /\ Goto(r, "claimed") /\ dep' = [dep EXCEPT ![d] = new]
          /\ dep[d].state = "ready_for_provider"
        BY <1>3, <1>6, <2>1 DEF MemoryUpdate
    <2>3. Reaches(r, "claimed", run[r].pv)
        BY <1>2, <2>2, GotoReaches DEF Places, Claiming
    <2>4. /\ Updates(new, dep[d]) /\ new.state = "running"
          /\ new.pd = dep[d].pd /\ new.error = dep[d].error
          /\ new.version = dep[d].version /\ new.kind = dep[d].kind
        BY <1>2, <1>3, <2>1, ClaimedRecord DEF Updates
    <2>5. dep[d].pd = {} /\ ~dep[d].error
        BY <1>2, <2>2 DEF PlanInv, PlanAt
    <2>6. /\ CloudTypeOK' /\ PlanInv' /\ ContentInv' /\ NumberInv' /\ PlansChain' /\ Keeps
          /\ dep'[d] = new /\ \A e \in Deployments \ {d} : dep'[e] = dep[e]
          /\ \A q \in Requests \ {r} : TargetAt(q)' /\ VersionAt(q)'
        BY <1>1, <2>2, <2>3, <2>4, <2>5, UpdateFrame DEF Begun
    <2>7. /\ run'[r].at = "claimed" /\ run'[r].pv = run[r].pv /\ run'[r].dep = run[r].dep
          /\ \A q \in Requests \ {r} : run'[q] = run[q]
        BY <2>3 DEF Reaches
    <2>8. Target(r)' = d
        BY <1>3, <2>7 DEF Target
    <2>9. TargetAt(r)' /\ VersionAt(r)'
        BY <1>1, <1>2, <1>3, <1>4, <2>4, <2>6, <2>7, <2>8 DEF TargetAt, VersionAt
    <2>10. TargetInv' /\ VersionInv'
        BY <2>6, <2>9 DEF TargetInv, VersionInv
    <2>11. /\ Executors(d) = {} /\ Executors(d)' = {r}
           /\ \A e \in Deployments \ {d} : Executors(e)' = Executors(e)
        <3>1. Executors(d) = {}
            BY <1>2, <2>2 DEF ExecutedOnce
        <3> QED
            BY <1>1, <1>3, <2>7, <3>1 DEF Executors, Claiming
    <2>12. \A i \in DOMAIN history : history[i].by \in Deployments \ {d}
        BY <1>2, <2>2, HistoryElements DEF HistoryInv, Begun
    <2>13. ExecutedOnce'
        BY <1>2, <1>4, <2>4, <2>6, <2>11, <2>12 DEF ExecutedOnce
    <2>14. HistoryInv'
        <3>1. \A e \in Deployments \ {d} : r \notin Executors(e)
            BY <1>3 DEF Executors
        <3>2. \A e \in Deployments : Executors(e) \subseteq Requests
            BY DEF Executors
        <3> QED
            BY <1>2, <1>4, <2>6, <2>7, <2>11, <2>12, <3>1, <3>2 DEF HistoryInv
    <2>15. SucceededMeansDeployed'
        <3>1. \A e \in Deployments : dep'[e].state = "succeeded" => dep[e].state = "succeeded"
            BY <2>4, <2>6
        <3> QED
            BY <2>6, <3>1, SuccessKept DEF SucceededMeansDeployed
    <2> QED
        BY <2>6, <2>10, <2>13, <2>14, <2>15 DEF CloudInv
<1>7. PICK ordered \in BOOLEAN :
          IF MemoryUpdate(Target(r), Claimed(r), "ready_for_provider", ordered)
          THEN Goto(r, "claimed") /\ dep' = [dep EXCEPT ![Target(r)] = Claimed(r)]
          ELSE Goto(r, "refused") /\ UNCHANGED dep
    BY DEF Claim
<1> QED
    BY <1>5, <1>6, <1>7

(* The end of an execution enters the record, or the record stays as it is. *)
LEMMA EndWritten ==
    ASSUME CloudInv, NEW r \in Requests, FinishSucceeded(r) \/ FinishFailed(r),
           NEW d \in Deployments, d = Target(r), dep[d].state = "running"
    PROVE  \/ /\ Goto(r, "done")
              /\ \E new : /\ dep' = [dep EXCEPT ![d] = new]
                          /\ Updates(new, dep[d]) /\ new.state \in {"succeeded", "failed"}
                          /\ new.error => new.state = "failed"
                          /\ new.pd # {} => new.state = "succeeded"
                          /\ new.state = "succeeded" => run[r].at = "active" /\ new.pv = run[r].pv
           \/ Goto(r, "unrecorded") /\ UNCHANGED dep
<1>1. CloudTypeOK /\ PlanInv /\ VersionAt(r)
    BY DEF CloudInv, VersionInv
<1>2. dep[d].pd = {} /\ ~dep[d].error
    BY <1>1 DEF PlanInv, PlanAt
<1>3. CASE FinishSucceeded(r)
    <2>1. PICK new : new = Succeeded(r)
        OBVIOUS
    <2>2. /\ Updates(new, dep[d]) /\ new.state = "succeeded" /\ new.pv = run[r].pv
          /\ new.pd = {d} /\ new.error = dep[d].error
        BY <1>1, <2>1, SucceededRecord
    <2>3. run[r].at = "active" /\ run[r].pv # {} /\ WriteEnd(r, new)
        BY <1>1, <1>3, <2>1 DEF FinishSucceeded, VersionAt
    <2>4. PICK ordered \in BOOLEAN :
              IF MemoryUpdate(d, new, "running", ordered)
              THEN Goto(r, "done") /\ dep' = [dep EXCEPT ![d] = new]
              ELSE Goto(r, "unrecorded") /\ UNCHANGED dep
        BY <2>3 DEF WriteEnd
    <2>5. CASE MemoryUpdate(d, new, "running", ordered)
        BY <1>2, <2>2, <2>3, <2>4, <2>5
    <2>6. CASE ~MemoryUpdate(d, new, "running", ordered)
        BY <2>4, <2>6
    <2> QED
        BY <2>5, <2>6
<1>4. CASE FinishFailed(r)
    <2>1. PICK new : new = Failed(r)
        OBVIOUS
    <2>2. /\ Updates(new, dep[d]) /\ new.state = "failed"
          /\ new.pd = dep[d].pd /\ new.error = TRUE
        BY <1>1, <2>1, FailedRecord
    <2>3. WriteEnd(r, new)
        BY <1>4, <2>1 DEF FinishFailed
    <2>4. PICK ordered \in BOOLEAN :
              IF MemoryUpdate(d, new, "running", ordered)
              THEN Goto(r, "done") /\ dep' = [dep EXCEPT ![d] = new]
              ELSE Goto(r, "unrecorded") /\ UNCHANGED dep
        BY <2>3 DEF WriteEnd
    <2>5. CASE MemoryUpdate(d, new, "running", ordered)
        BY <1>2, <2>2, <2>4, <2>5
    <2>6. CASE ~MemoryUpdate(d, new, "running", ordered)
        BY <2>4, <2>6
    <2> QED
        BY <2>5, <2>6
<1> QED
    BY <1>3, <1>4

(* A running deployment is executed by r alone. *)
LEMMA ExecutorAlone ==
    ASSUME CloudInv, NEW r \in Requests, run[r].at \in Claiming
    PROVE  /\ Target(r) \in Deployments /\ run[r].dep = {Target(r)}
           /\ dep[Target(r)].state = "running" /\ Executors(Target(r)) = {r}
<1>1. TargetInv /\ ExecutedOnce /\ run[r].at # "idle"
    BY DEF CloudInv, Claiming
<1>2. Target(r) \in Deployments /\ run[r].dep = {Target(r)}
    BY <1>1, TargetIsPlan
<1>3. r \in Executors(Target(r))
    BY <1>2 DEF Executors
<1> QED
    BY <1>1, <1>2, <1>3 DEF ExecutedOnce

(* The end is written: the executor is the only one and its record was     *)
(* running.                                                                *)
LEMMA FinishStep ==
    ASSUME CloudInv, NEW r \in Requests, FinishSucceeded(r) \/ FinishFailed(r),
           ~Goto(r, "unrecorded")
    PROVE  CloudInv' /\ Keeps
<1>1. /\ run[r].at \in {"active", "failing"}
      /\ UNCHANGED <<storage, registryVars, planVars, cloudVars>>
    BY DEF FinishSucceeded, FinishFailed
<1>2. /\ CloudTypeOK /\ PlanInv /\ TargetInv /\ VersionAt(r) /\ ExecutedOnce /\ HistoryInv
      /\ SucceededMeansDeployed
    BY DEF CloudInv, VersionInv
<1>3. PICK d \in Deployments : /\ d = Target(r) /\ run[r].dep = {d}
                               /\ dep[d].state = "running" /\ Executors(d) = {r}
    BY <1>1, ExecutorAlone DEF Claiming
<1>4. UNCHANGED <<content, history>>
    BY <1>1 DEF cloudVars
<1>5. r \in Executors(d) /\ dep[d].state = "running" /\ Executors(d) = {r}
    BY <1>3
<1>6. Goto(r, "done")
    BY <1>3, EndWritten
<1>7. Reaches(r, "done", run[r].pv)
    BY <1>2, <1>6, GotoReaches DEF Places
<1>8. /\ run'[r].at = "done" /\ run'[r].pv = run[r].pv /\ run'[r].dep = run[r].dep
      /\ \A q \in Requests \ {r} : run'[q] = run[q]
    BY <1>7 DEF Reaches
<1>9. \E new : /\ dep' = [dep EXCEPT ![d] = new]
               /\ Updates(new, dep[d]) /\ new.state \in {"succeeded", "failed"}
               /\ new.error => new.state = "failed"
               /\ new.pd # {} => new.state = "succeeded"
               /\ new.state = "succeeded" => run[r].at = "active" /\ new.pv = run[r].pv
    BY <1>3, EndWritten
<1>10. PICK new : /\ dep' = [dep EXCEPT ![d] = new]
                  /\ Updates(new, dep[d]) /\ new.state \in {"succeeded", "failed"}
                  /\ new.error => new.state = "failed"
                  /\ new.pd # {} => new.state = "succeeded"
                  /\ new.state = "succeeded" => run[r].at = "active" /\ new.pv = run[r].pv
    BY <1>9
<1>11. /\ CloudTypeOK' /\ PlanInv' /\ ContentInv' /\ NumberInv' /\ PlansChain' /\ Keeps
       /\ dep'[d] = new /\ \A e \in Deployments \ {d} : dep'[e] = dep[e]
       /\ \A q \in Requests \ {r} : TargetAt(q)' /\ VersionAt(q)'
    BY <1>1, <1>5, <1>7, <1>10, UpdateFrame DEF Begun
<1>12. new.version = dep[d].version /\ new.kind = dep[d].kind
    BY <1>10 DEF Updates
<1>13. TargetInv' /\ VersionInv'
    <2>1. Target(r)' = d
        BY <1>3, <1>8 DEF Target
    <2>2. TargetAt(r)' /\ VersionAt(r)'
        BY <1>2, <1>3, <1>4, <1>8, <1>10, <1>11, <1>12, <2>1 DEF TargetAt, VersionAt
    <2> QED
        BY <1>11, <2>2 DEF TargetInv, VersionInv
<1>14. /\ Executors(d)' = {}
       /\ \A e \in Deployments \ {d} : /\ Executors(e)' = Executors(e)
                                       /\ r \notin Executors(e)
    BY <1>3, <1>5, <1>8 DEF Executors, Claiming
<1>15. \A i \in DOMAIN history : history[i].by \in Deployments
    BY <1>2, HistoryElements
<1>16. ExecutedOnce'
    BY <1>2, <1>4, <1>5, <1>10, <1>11, <1>14, <1>15 DEF ExecutedOnce
<1>17. HistoryInv'
    <2>1. \A e \in Deployments : Executors(e) \subseteq Requests
        BY DEF Executors
    <2> QED
        BY <1>2, <1>4, <1>8, <1>10, <1>11, <1>14, <1>15, <2>1 DEF HistoryInv, Begun
<1>18. SucceededMeansDeployed'
    <2>1. ASSUME NEW e \in Deployments \ {d}, dep'[e].state = "succeeded"
          PROVE  \E pv \in dep'[e].pv : AtFull(e, pv)' /\ content'[pv] = dep'[e].version
        BY <1>11, <2>1, SuccessKept
    <2>2. ASSUME new.state = "succeeded"
          PROVE  \E pv \in dep'[d].pv : AtFull(d, pv)' /\ content'[pv] = dep'[d].version
        <3>1. PICK x \in Deployments : run[r].pv = {x} /\ content[x] = dep[d].version
            BY <1>2, <1>3, <1>10, <2>2 DEF VersionAt
        <3>2. AtFull(d, x)
            BY <1>2, <1>3, <1>10, <2>2, <3>1 DEF VersionAt
        <3> QED
            BY <1>4, <1>10, <1>11, <1>12, <2>2, <3>1, <3>2 DEF AtFull
    <2> QED
        BY <1>11, <2>1, <2>2 DEF SucceededMeansDeployed
<1> QED
    BY <1>11, <1>13, <1>16, <1>17, <1>18 DEF CloudInv

-----------------------------------------------------------------------------
(* Between the claim and the end: the calls of Cloudflare. *)

(* The executor of a plan goes on, and the record stays as it is. *)
LEMMA LateFrame ==
    ASSUME CloudInv, UNCHANGED <<storage, registered, staged, token, planVars, dep>>,
           NEW r \in Requests, NEW at \in Claiming, NEW pv, Reaches(r, at, pv),
           run[r].at \in Claiming, Keeps, VersionAt(r)',
           uploaded' \in [Versions -> SUBSET Deployments],
           content' \in [Deployments -> SUBSET Versions],
           history' \in Seq([by : Deployments, pv : Deployments]),
           ContentInv'
    PROVE  /\ CloudTypeOK' /\ PlanInv' /\ TargetInv' /\ VersionInv' /\ NumberInv' /\ PlansChain'
           /\ SucceededMeansDeployed'
           /\ \A d \in Deployments : Executors(d)' = Executors(d)
<1>1. UNCHANGED <<storage, registered, staged, token, desired, number, plan, dep>>
    BY DEF planVars
<1>2. /\ run' \in [Requests -> RunRecord]
      /\ run'[r].at = at /\ run'[r].dep = run[r].dep
      /\ \A q \in Requests \ {r} : run'[q] = run[q]
    BY DEF Reaches
<1>3. CloudTypeOK'
    BY <1>1, <1>2 DEF CloudInv, CloudTypeOK, RunRecord
<1>4. PlanInv' /\ NumberInv' /\ PlansChain'
    BY <1>1 DEF CloudInv, PlanInv, PlanAt, NumberInv, PlansChain, Planned
<1>5. TargetAt(r)'
    <2>1. run[r].at # "idle"
        BY DEF Claiming
    <2> QED
        BY <1>1, <1>2, <2>1 DEF CloudInv, TargetInv, TargetAt
<1>6. TargetInv' /\ VersionInv'
    BY <1>2, <1>5, RequestKept DEF TargetInv, VersionInv
<1>7. SucceededMeansDeployed'
    BY <1>1, SuccessKept DEF SucceededMeansDeployed
<1>8. \A d \in Deployments : Executors(d)' = Executors(d)
    BY <1>2 DEF Executors
<1> QED
    BY <1>3, <1>4, <1>6, <1>7, <1>8

(* As long as Cloudflare is not asked to deploy, that is all. *)
LEMMA QuietLateFrame ==
    ASSUME CloudInv, UNCHANGED <<storage, registered, staged, token, planVars, dep, history>>,
           NEW r \in Requests, NEW at \in Claiming, NEW pv, Reaches(r, at, pv),
           run[r].at \in Claiming, Keeps, VersionAt(r)',
           run[r].at \in Asked =>
              at \in Asked,
           uploaded' \in [Versions -> SUBSET Deployments],
           content' \in [Deployments -> SUBSET Versions],
           ContentInv'
    PROVE  CloudInv' /\ Keeps
<1>1. CloudTypeOK /\ ExecutedOnce /\ HistoryInv
      /\ history \in Seq([by : Deployments, pv : Deployments])
    BY DEF CloudInv, CloudTypeOK
<1>2. /\ CloudTypeOK' /\ PlanInv' /\ TargetInv' /\ VersionInv' /\ NumberInv' /\ PlansChain'
      /\ SucceededMeansDeployed'
      /\ \A d \in Deployments : Executors(d)' = Executors(d)
    BY <1>1, LateFrame
<1>3. ExecutedOnce'
    BY <1>1, <1>2 DEF ExecutedOnce
<1>4. HistoryInv'
    <2>1. \A i \in DOMAIN history : history[i].by \in Deployments
        BY <1>1, HistoryElements
    <2>2. run'[r].at = at /\ \A q \in Requests \ {r} : run'[q] = run[q]
        BY DEF Reaches
    <2>3. \A d \in Deployments : Executors(d) \subseteq Requests
        BY DEF Executors
    <2> QED
        BY <1>1, <1>2, <2>1, <2>2, <2>3 DEF HistoryInv
<1> QED
    BY <1>2, <1>3, <1>4 DEF CloudInv

(* The end is refused: the record stays, and its executor has given up. *)
LEMMA UnrecordedStep ==
    ASSUME CloudInv, NEW r \in Requests, FinishSucceeded(r) \/ FinishFailed(r),
           Goto(r, "unrecorded")
    PROVE  CloudInv' /\ Keeps
<1>1. /\ CloudTypeOK /\ VersionAt(r) /\ ContentInv
      /\ uploaded \in [Versions -> SUBSET Deployments]
      /\ content \in [Deployments -> SUBSET Versions]
    BY DEF CloudInv, VersionInv, CloudTypeOK
<1>2. /\ UNCHANGED <<storage, registryVars, planVars, cloudVars>>
      /\ run[r].at \in {"active", "failing"}
    BY DEF FinishSucceeded, FinishFailed
<1>3. PICK d \in Deployments : /\ d = Target(r) /\ run[r].dep = {d}
                               /\ dep[d].state = "running"
    BY <1>2, ExecutorAlone DEF Claiming
<1>4. Reaches(r, "unrecorded", run[r].pv)
    BY <1>1, GotoReaches DEF Places, Claiming
<1>5. run'[r].at = "unrecorded" /\ run'[r].pv = run[r].pv /\ run'[r].dep = run[r].dep
    BY <1>4 DEF Reaches
<1>6. ~Goto(r, "done")
    <2>1. ASSUME Goto(r, "done") PROVE run'[r].at = "done"
        <3>1. Reaches(r, "done", run[r].pv)
            BY <1>1, <2>1, GotoReaches DEF Places
        <3> QED
            BY <3>1 DEF Reaches
    <2> QED
        BY <1>5, <2>1
<1>7. UNCHANGED <<registered, staged, token, uploaded, content, history, dep>>
    <2>1. UNCHANGED dep
        BY <1>3, <1>6, EndWritten
    <2> QED
        BY <1>2, <2>1 DEF registryVars, cloudVars
<1>8. VersionAt(r)'
    <2>1. Target(r)' = d
        BY <1>3, <1>5 DEF Target
    <2> QED
        BY <1>1, <1>2, <1>3, <1>5, <1>7, <2>1 DEF VersionAt
<1>9. Keeps /\ ContentInv'
    BY <1>1, <1>7 DEF Keeps, AtFull, ContentInv
<1> QED
    BY <1>1, <1>2, <1>4, <1>7, <1>8, <1>9, QuietLateFrame DEF Claiming, Asked

(* A request moves on with what it has in hand: ValidateAccess, the checks *)
(* of Client.Rollback and WaitForDeployment.                               *)
LEMMA PollStep ==
    ASSUME CloudInv, NEW r \in Requests,
           ValidateAccess(r) \/ RollbackHistory(r) \/ WaitForDeployment(r)
    PROVE  CloudInv' /\ Keeps
<1>1. /\ CloudTypeOK /\ TargetInv /\ VersionAt(r) /\ ContentInv
      /\ uploaded \in [Versions -> SUBSET Deployments]
      /\ content \in [Deployments -> SUBSET Versions]
    BY DEF CloudInv, VersionInv, CloudTypeOK
<1>2. /\ UNCHANGED <<storage, registryVars, planVars, dep, cloudVars>>
      /\ run[r].at \in {"claimed", "recorded", "created"}
    BY DEF ValidateAccess, RollbackHistory, WaitForDeployment
<1>3. UNCHANGED <<registered, staged, token, uploaded, content, history>>
    BY <1>2 DEF registryVars, cloudVars
<1>4. PICK d \in Deployments : d = Target(r) /\ run[r].dep = {d}
    BY <1>1, <1>2, TargetIsPlan
<1>5. \E at \in {"validated", "recorded", "listed", "active", "failing"} :
          /\ Goto(r, at)
          /\ at \in {"recorded", "listed", "active"} => run[r].pv # {}
          /\ at = "active" => \E x \in run[r].pv : AtFull(d, x)
          /\ run[r].at = "created" => at \in {"active", "failing"}
    <2>1. CASE ValidateAccess(r)
        BY <1>1, <1>4, <2>1 DEF ValidateAccess, VersionAt, CloudTypeOK, Kinds
    <2>2. CASE RollbackHistory(r)
        BY <1>1, <2>2 DEF RollbackHistory
    <2>3. CASE WaitForDeployment(r)
        BY <1>1, <1>4, <2>3 DEF WaitForDeployment
    <2> QED
        BY <2>1, <2>2, <2>3
<1>6. PICK at \in {"validated", "recorded", "listed", "active", "failing"} :
          /\ Goto(r, at)
          /\ at \in {"recorded", "listed", "active"} => run[r].pv # {}
          /\ at = "active" => \E x \in run[r].pv : AtFull(d, x)
          /\ run[r].at = "created" => at \in {"active", "failing"}
    BY <1>5
<1>7. Reaches(r, at, run[r].pv)
    BY <1>1, <1>6, GotoReaches DEF Places, Claiming
<1>8. run'[r].at = at /\ run'[r].pv = run[r].pv /\ run'[r].dep = run[r].dep
    BY <1>7 DEF Reaches
<1>9. VersionAt(r)'
    <2>1. Target(r)' = d
        BY <1>4, <1>8 DEF Target
    <2> QED
        BY <1>1, <1>2, <1>3, <1>4, <1>6, <1>8, <2>1 DEF VersionAt, AtFull
<1>10. Keeps /\ ContentInv'
    BY <1>1, <1>2, <1>3 DEF Keeps, AtFull, ContentInv
<1> QED
    BY <1>1, <1>2, <1>3, <1>6, <1>7, <1>9, <1>10, QuietLateFrame DEF Claiming, Asked

(* Client.UploadVersion: the module of the plan, under the name of the     *)
(* plan; the executor is the only one to upload it.                        *)
LEMMA UploadStep ==
    ASSUME CloudInv, NEW r \in Requests, UploadVersion(r)
    PROVE  CloudInv' /\ Keeps
<1>1. /\ CloudTypeOK /\ TargetInv /\ VersionAt(r) /\ ContentInv /\ ExecutedOnce
      /\ uploaded \in [Versions -> SUBSET Deployments]
      /\ content \in [Deployments -> SUBSET Versions]
    BY DEF CloudInv, VersionInv, CloudTypeOK
<1>2. /\ UNCHANGED <<storage, registryVars, planVars, dep, history>>
      /\ run[r].at = "validated"
    BY DEF UploadVersion
<1>3. UNCHANGED <<registered, staged, token, uploaded>>
    BY <1>2 DEF registryVars
<1>4. PICK d \in Deployments : d = Target(r) /\ run[r].dep = {d}
    BY <1>1, <1>2, TargetIsPlan
<1>5. dep[d].state = "running" /\ dep[d].version \subseteq Versions
    <2>1. r \in Executors(d)
        BY <1>2, <1>4 DEF Executors, Claiming
    <2> QED
        BY <1>1, <2>1 DEF ExecutedOnce, CloudTypeOK
<1>6. \/ content' = [content EXCEPT ![d] = dep[d].version]
      \/ UNCHANGED content
    BY <1>4 DEF UploadVersion, RequestAPI
<1>7. content' \in [Deployments -> SUBSET Versions]
    BY <1>1, <1>5, <1>6
<1>8. /\ \A x \in Deployments : content[x] # {} => content'[x] = content[x]
      /\ \A x \in Deployments : content'[x] # {} =>
            content'[x] = dep[x].version /\ dep[x].state \in Begun
    BY <1>1, <1>5, <1>6 DEF ContentInv, Begun
<1>9. Keeps
    BY <1>2, <1>8 DEF Keeps, AtFull
<1>10. ContentInv'
    BY <1>1, <1>2, <1>3, <1>8 DEF ContentInv
<1>11. CASE Goto(r, "failing")
    <2>1. Reaches(r, "failing", run[r].pv)
        BY <1>1, <1>11, GotoReaches DEF Places, Claiming
    <2>2. run'[r].at = "failing" /\ run'[r].pv = run[r].pv /\ run'[r].dep = run[r].dep
        BY <2>1 DEF Reaches
    <2>3. Target(r)' = d
        BY <1>4, <2>2 DEF Target
    <2>4. dep[d].version # {}
        BY <1>5, PlanNamesVersion DEF CloudInv
    <2>5. VersionAt(r)'
        <3>1. ASSUME run[r].pv # {}
              PROVE  \E x \in Deployments : run[r].pv = {x} /\ content'[x] = dep'[d].version
            BY <1>1, <1>2, <1>4, <1>8, <2>4, <3>1 DEF VersionAt
        <3> QED
            BY <2>2, <2>3, <3>1 DEF VersionAt
    <2> QED
        BY <1>1, <1>2, <1>3, <1>7, <1>9, <1>10, <2>1, <2>5, QuietLateFrame DEF Claiming, Asked
<1>12. CASE ~Goto(r, "failing")
    <2>1. /\ content' = [content EXCEPT ![d] = dep[d].version]
          /\ run' = [run EXCEPT ![r].at = "uploaded", ![r].pv = {d}]
        BY <1>4, <1>12 DEF UploadVersion, RequestAPI
    <2>2. Reaches(r, "uploaded", {d})
        BY <1>1, <2>1, WriteReaches DEF Places, Claiming
    <2>3. run'[r].at = "uploaded" /\ run'[r].pv = {d} /\ run'[r].dep = run[r].dep
        BY <2>2 DEF Reaches
    <2>4. Target(r)' = d /\ content'[d] = dep'[d].version
        BY <1>1, <1>2, <1>4, <2>1, <2>3 DEF Target
    <2>5. VersionAt(r)'
        BY <2>3, <2>4 DEF VersionAt
    <2> QED
        BY <1>1, <1>2, <1>3, <1>7, <1>9, <1>10, <2>2, <2>5, QuietLateFrame DEF Claiming, Asked
<1> QED
    BY <1>11, <1>12

(* UpdateWorkerVersionProvider: the version of the plan points to what was *)
(* uploaded for it.                                                        *)
LEMMA RecordStep ==
    ASSUME CloudInv, NEW r \in Requests, RecordVersion(r)
    PROVE  CloudInv' /\ Keeps
<1>1. /\ CloudTypeOK /\ TargetInv /\ VersionAt(r) /\ ContentInv
      /\ uploaded \in [Versions -> SUBSET Deployments]
      /\ content \in [Deployments -> SUBSET Versions]
    BY DEF CloudInv, VersionInv, CloudTypeOK
<1>2. /\ UNCHANGED <<storage, registered, staged, token, planVars, dep, cloudVars>>
      /\ run[r].at = "uploaded" /\ Goto(r, "recorded")
    BY DEF RecordVersion
<1>3. UNCHANGED <<content, history>>
    BY <1>2 DEF cloudVars
<1>4. PICK d \in Deployments : d = Target(r) /\ run[r].dep = {d}
    BY <1>1, <1>2, TargetIsPlan
<1>5. PICK x \in Deployments : run[r].pv = {x} /\ content[x] = dep[d].version
    BY <1>1, <1>2, <1>4 DEF VersionAt
<1>6. uploaded' = [v \in Versions |-> IF {v} = dep[d].version THEN {x} ELSE uploaded[v]]
    BY <1>4, <1>5 DEF RecordVersion
<1>7. uploaded' \in [Versions -> SUBSET Deployments]
    BY <1>1, <1>6
<1>8. ContentInv'
    BY <1>1, <1>2, <1>3, <1>5, <1>6 DEF ContentInv
<1>9. Reaches(r, "recorded", run[r].pv)
    BY <1>1, <1>2, GotoReaches DEF Places, Claiming
<1>10. VersionAt(r)'
    <2>1. run'[r].at = "recorded" /\ run'[r].pv = {x} /\ run'[r].dep = run[r].dep
        BY <1>5, <1>9 DEF Reaches
    <2>2. Target(r)' = d
        BY <1>4, <2>1 DEF Target
    <2> QED
        BY <1>2, <1>3, <1>5, <2>1, <2>2 DEF VersionAt
<1>11. Keeps
    BY <1>2, <1>3 DEF Keeps, AtFull
<1> QED
    BY <1>1, <1>2, <1>3, <1>7, <1>8, <1>9, <1>10, <1>11, QuietLateFrame DEF Claiming, Asked

(* Appending to the history of the script keeps what is there. *)
LEMMA AppendHistory ==
    ASSUME CloudTypeOK, NEW d \in Deployments, NEW x \in Deployments,
           history' = Append(history, [by |-> d, pv |-> x])
    PROVE  /\ history' \in Seq([by : Deployments, pv : Deployments])
           /\ DOMAIN history' = 1..(Len(history) + 1) /\ DOMAIN history = 1..Len(history)
           /\ Len(history) \in Nat
           /\ history'[Len(history) + 1].by = d
           /\ \A i \in DOMAIN history : history'[i] = history[i]
<1> DEFINE Item == [by : Deployments, pv : Deployments]
           item == [by |-> d, pv |-> x]
<1>1. history \in Seq(Item) /\ item \in Item /\ item.by = d
    BY DEF CloudTypeOK
<1>2. history' = Append(history, item)
    OBVIOUS
<1> HIDE DEF Item, item
<1>3. /\ history' \in Seq(Item)
      /\ DOMAIN history' = 1..(Len(history) + 1) /\ DOMAIN history = 1..Len(history)
      /\ Len(history) \in Nat
      /\ history'[Len(history) + 1] = item
      /\ \A i \in DOMAIN history : history'[i] = history[i]
    BY <1>1, <1>2
<1> QED
    BY <1>1, <1>3 DEF Item

(* Client.createDeployment: Cloudflare has no deployment of this plan yet, *)
(* for its one executor has not asked before.                              *)
LEMMA CreateDeploymentStep ==
    ASSUME CloudInv, NEW r \in Requests, CreateDeployment(r)
    PROVE  CloudInv' /\ Keeps
<1>1. /\ CloudTypeOK /\ TargetInv /\ VersionAt(r) /\ ContentInv /\ ExecutedOnce /\ HistoryInv
      /\ uploaded \in [Versions -> SUBSET Deployments]
      /\ content \in [Deployments -> SUBSET Versions]
      /\ history \in Seq([by : Deployments, pv : Deployments])
    BY DEF CloudInv, VersionInv, CloudTypeOK
<1>2. /\ UNCHANGED <<storage, registryVars, planVars, dep, content>>
      /\ run[r].at \in {"listed", "recorded"}
    BY DEF CreateDeployment, DeployVersion
<1>3. UNCHANGED <<registered, staged, token, uploaded>>
    BY <1>2 DEF registryVars
<1>4. PICK d \in Deployments : d = Target(r) /\ run[r].dep = {d}
    BY <1>1, <1>2, TargetIsPlan
<1>5. PICK x \in Deployments : run[r].pv = {x} /\ content[x] = dep[d].version
    BY <1>1, <1>2, <1>4 DEF VersionAt
<1>6. r \in Executors(d) /\ Executors(d) = {r} /\ dep[d].state = "running"
    <2>1. r \in Executors(d)
        BY <1>2, <1>4 DEF Executors, Claiming
    <2> QED
        BY <1>1, <2>1 DEF ExecutedOnce
<1>7. \A i \in DOMAIN history : history[i].by \in Deployments \ {d}
    BY <1>1, <1>2, <1>6, HistoryElements DEF HistoryInv, Asked
<1>8. \E at \in {"created", "failing"} : Goto(r, at)
    BY DEF CreateDeployment, RequestAPI
<1>9. PICK at \in {"created", "failing"} : Goto(r, at)
    BY <1>8
<1>10. Reaches(r, at, run[r].pv)
    BY <1>1, <1>9, GotoReaches DEF Places, Claiming
<1>11. /\ run'[r].at = at /\ run'[r].pv = {x} /\ run'[r].dep = run[r].dep
       /\ \A q \in Requests \ {r} : run'[q] = run[q]
    BY <1>5, <1>10 DEF Reaches
<1>12. VersionAt(r)'
    <2>1. Target(r)' = d
        BY <1>4, <1>11 DEF Target
    <2> QED
        BY <1>2, <1>5, <1>11, <2>1 DEF VersionAt
<1>13. ContentInv'
    BY <1>1, <1>2, <1>3 DEF ContentInv
<1>14. CASE UNCHANGED history
    <2>1. Keeps
        BY <1>2, <1>14 DEF Keeps, AtFull
    <2> QED
        BY <1>1, <1>2, <1>3, <1>10, <1>12, <1>13, <1>14, <2>1, QuietLateFrame DEF Claiming, Asked
<1>15. CASE ~UNCHANGED history
    <2>1. history' = Append(history, [by |-> d, pv |-> x])
        BY <1>4, <1>5, <1>15 DEF CreateDeployment, RequestAPI
    <2> DEFINE n == Len(history) + 1
    <2>2. /\ history' \in Seq([by : Deployments, pv : Deployments])
          /\ DOMAIN history' = 1..n /\ DOMAIN history = 1..(n - 1) /\ n \in Nat \ {0}
          /\ history'[n].by = d
          /\ \A i \in DOMAIN history : history'[i] = history[i]
        <3>1. /\ history' \in Seq([by : Deployments, pv : Deployments])
              /\ DOMAIN history' = 1..(Len(history) + 1) /\ DOMAIN history = 1..Len(history)
              /\ Len(history) \in Nat
              /\ history'[Len(history) + 1].by = d
              /\ \A i \in DOMAIN history : history'[i] = history[i]
            BY <1>1, <2>1, AppendHistory
        <3> QED
            BY <3>1
    <2> HIDE DEF n
    <2>3. \A i \in DOMAIN history' : i = n \/ i \in DOMAIN history
        BY <2>2
    <2>4. Keeps
        BY <1>2, <2>2 DEF Keeps, AtFull
    <2>5. /\ CloudTypeOK' /\ PlanInv' /\ TargetInv' /\ VersionInv' /\ NumberInv' /\ PlansChain'
          /\ SucceededMeansDeployed'
          /\ \A e \in Deployments : Executors(e)' = Executors(e)
        BY <1>1, <1>2, <1>3, <1>10, <1>12, <1>13, <2>2, <2>4, LateFrame DEF Claiming
    <2>6. ExecutedOnce'
        <3>1. ASSUME NEW e \in Deployments, NEW i \in DOMAIN history', NEW j \in DOMAIN history',
                     history'[i].by = e, history'[j].by = e
              PROVE  i = j /\ dep'[e].state \in {"running", "succeeded", "failed"}
            <4>1. CASE i = n \/ j = n
                BY <1>2, <1>6, <1>7, <2>2, <2>3, <3>1, <4>1
            <4>2. CASE i \in DOMAIN history /\ j \in DOMAIN history
                BY <1>1, <1>2, <2>2, <3>1, <4>2 DEF ExecutedOnce
            <4> QED
                BY <2>3, <4>1, <4>2
        <3> QED
            BY <1>1, <1>2, <2>5, <3>1 DEF ExecutedOnce
    <2>7. HistoryInv'
        <3>1. ASSUME NEW i \in DOMAIN history', NEW q \in Requests
              PROVE  /\ dep'[history'[i].by].state \in Begun
                     /\ run'[q].at \in Claiming /\ run'[q].dep = {history'[i].by} =>
                           run'[q].at \in Asked
            <4>1. CASE i = n
                <5>1. history'[i].by = d
                    BY <2>2, <4>1
                <5>2. run[q].at \in Claiming /\ run[q].dep = {d} => q = r
                    BY <1>6 DEF Executors
                <5> QED
                    BY <1>2, <1>6, <1>9, <1>11, <5>1, <5>2 DEF Begun, Asked
            <4>2. CASE i \in DOMAIN history
                <5>1. PICK e \in Deployments \ {d} : e = history[i].by
                    BY <1>7, <4>2
                <5>2. /\ dep[e].state \in Begun
                      /\ run[q].at \in Claiming /\ run[q].dep = {e} =>
                            run[q].at \in Asked
                    BY <1>1, <4>2, <5>1 DEF HistoryInv, Executors
                <5>3. history'[i].by = e
                    BY <2>2, <4>2, <5>1
                <5> QED
                    BY <1>2, <1>4, <1>11, <5>1, <5>2, <5>3
            <4> QED
                BY <2>3, <4>1, <4>2
        <3> QED
            BY <3>1 DEF HistoryInv, Executors
    <2> QED
        BY <1>13, <2>4, <2>5, <2>6, <2>7 DEF CloudInv
<1> QED
    BY <1>14, <1>15

-----------------------------------------------------------------------------
(* Every step keeps the invariant and takes nothing back. *)
LEMMA CloudNextInv == CloudInv /\ [Next]_vars => CloudInv' /\ Keeps
<1> SUFFICES ASSUME CloudInv, [Next]_vars PROVE CloudInv' /\ Keeps
    OBVIOUS
<1>1. CASE \/ CreateWorker \/ PutWorkerToken \/ DeleteWorkerToken \/ UNCHANGED vars
           \/ \E v \in Versions : CreateWorkerVersion(v)
    BY <1>1, RegistryStep
<1>2. ASSUME NEW d \in Deployments,
             \/ PlanReadWorker(d)
             \/ \E v \in Versions, kind \in Kinds : PlanPrepare(d, v, kind)
             \/ PlanWorkerDeployment(d)
      PROVE  CloudInv' /\ Keeps
    BY <1>2, SubmitStep, StorePlanStep
<1>3. ASSUME NEW d \in Deployments, NEW r \in Requests, ExecuteReadDeployment(r, d)
      PROVE  CloudInv' /\ Keeps
    BY <1>3, ReadDeploymentStep
<1>4. ASSUME NEW r \in Requests, RunStep(r) PROVE CloudInv' /\ Keeps
    BY <1>4, EarlyStep, ClaimStep, PollStep, UploadStep, RecordStep, CreateDeploymentStep,
       FinishStep, UnrecordedStep
    DEF RunStep
<1> QED
    BY <1>1, <1>2, <1>3, <1>4 DEF Next

(* The invariant holds of every run of the registry and the executions. *)
THEOREM CloudInvariance == Spec => []CloudInv
BY CloudInit, CloudNextInv, PTL DEF Spec

-----------------------------------------------------------------------------
(* The properties. *)

(* The records, the reads of the handlers and what Cloudflare holds stay   *)
(* in their ranges.                                                        *)
THEOREM CloudTypeCorrect == Spec => []CloudTypeOK
<1>1. CloudInv => CloudTypeOK
    BY DEF CloudInv
<1> QED
    BY <1>1, CloudInvariance, PTL

(* The claim of runCloudflareDeployment: a running deployment has exactly  *)
(* one executor, and Cloudflare is asked at most once to deploy a plan.    *)
THEOREM OneExecutionPerPlan == Spec => []ExecutedOnce
<1>1. CloudInv => ExecutedOnce
    BY DEF CloudInv
<1> QED
    BY <1>1, CloudInvariance, PTL

(* A deployment recorded as succeeded is at Cloudflare, with the module of *)
(* the version its plan names.                                             *)
THEOREM SuccessIsDeployed == Spec => []SucceededMeansDeployed
<1>1. CloudInv => SucceededMeansDeployed
    BY DEF CloudInv
<1> QED
    BY <1>1, CloudInvariance, PTL

(* PlanWorkerDeployment refuses a plan made from a stale read: the stored  *)
(* plans form a chain that ends in the desired version.                    *)
THEOREM PlansFormChain == Spec => []PlansChain
<1>1. CloudInv => PlansChain
    BY DEF CloudInv
<1> QED
    BY <1>1, CloudInvariance, PTL

(* No step of any handler takes back the module of a provider version, a   *)
(* deployment Cloudflare has, the version and the kind of a stored plan,   *)
(* or a recorded success.                                                  *)
THEOREM NothingTakenBack == Spec => [][Keeps]_vars
<1>1. CloudInv /\ [Next]_vars => [Keeps]_vars
    BY CloudNextInv
<1> QED
    BY <1>1, CloudInvariance, PTL DEF Spec

(* The end an execution is about to write is one that                      *)
(* UpdateWorkerDeployment accepts when its times are in order: the record  *)
(* is still running, a success names the provider's version and            *)
(* deployment, a failure its error code (runCloudflareDeployment,          *)
(* failCloudflareDeploymentCode).                                          *)
THEOREM EndIsAlwaysAccepted == Spec => []EndIsAccepted
<1>1. ASSUME CloudInv, NEW r \in Requests, run[r].at \in {"active", "failing"}
      PROVE  /\ run[r].at = "active" => MemoryUpdate(Target(r), Succeeded(r), "running", TRUE)
             /\ run[r].at = "failing" => MemoryUpdate(Target(r), Failed(r), "running", TRUE)
    <2>1. CloudTypeOK /\ PlanInv /\ VersionAt(r)
        BY <1>1 DEF CloudInv, VersionInv
    <2>2. Target(r) \in Deployments /\ dep[Target(r)].state = "running"
        BY <1>1, ExecutorAlone DEF Claiming
    <2>3. dep[Target(r)].pd = {} /\ dep[Target(r)].error = FALSE
        BY <2>1, <2>2 DEF PlanInv, PlanAt, CloudTypeOK
    <2>4. ASSUME run[r].at = "active" PROVE MemoryUpdate(Target(r), Succeeded(r), "running", TRUE)
        <3>1. run[r].pv # {}
            BY <2>1, <2>4 DEF VersionAt
        <3>2. /\ Updates(Succeeded(r), dep[Target(r)]) /\ Succeeded(r).state = "succeeded"
              /\ Succeeded(r).pv # {} /\ Succeeded(r).pd # {} /\ Succeeded(r).error = FALSE
            BY <2>1, <2>2, <2>3, <3>1, SucceededRecord
        <3> QED
            BY <2>2, <3>2 DEF MemoryUpdate, ValidTransition, Updates
    <2>5. MemoryUpdate(Target(r), Failed(r), "running", TRUE)
        <3>1. /\ Updates(Failed(r), dep[Target(r)]) /\ Failed(r).state = "failed"
              /\ Failed(r).error = TRUE
            BY <2>1, <2>2, FailedRecord
        <3> QED
            BY <2>2, <3>1 DEF MemoryUpdate, ValidTransition, Updates
    <2> QED
        BY <2>4, <2>5
<1>2. CloudInv => EndIsAccepted
    BY <1>1 DEF EndIsAccepted
<1> QED
    BY <1>2, CloudInvariance, PTL

=============================================================================
