------------------------ MODULE CloudflareDeployment ------------------------
(***************************************************************************)
(* One registered Cloudflare Worker: its token, its staged versions, the   *)
(* deployments planned for it and the requests that execute them.          *)
(*                                                                         *)
(*   control-plane/internal/api/cloudflare.go            the registry      *)
(*   control-plane/internal/api/cloudflare_execution.go  executions        *)
(*   control-plane/internal/store, persistence           the repositories  *)
(*   cloudflareprovider                                  the API client    *)
(*                                                                         *)
(* A member of Deployments is one createWorkerDeployment request and the   *)
(* plan it may create; a member of Requests is one executeWorkerDeployment *)
(* request.  The version Cloudflare creates for an upload, and the         *)
(* deployment it creates, bear the name of the plan they were made for.    *)
(* An optional identifier is a set of at most one member.                  *)
(*                                                                         *)
(* The program runs the executions only with the in-memory repository:     *)
(* NewServer refuses secret execution in production, and production is     *)
(* what uses PostgreSQL.  Each execution has a provider client of its own, *)
(* so no two executions share an idempotency cache.                        *)
(*                                                                         *)
(* The times in a record are wall-clock times (UTC drops the monotonic     *)
(* reading), and that clock may be set back between two of them; of the    *)
(* times only their order matters.                                         *)
(***************************************************************************)
EXTENDS Naturals, FiniteSets, Sequences

CONSTANTS Deployments, Requests, Versions

ASSUME CloudflareConstants == IsFiniteSet(Deployments)

Kinds == {"deploy", "rollback"}

VARIABLES
    storage,   \* "memory" or "postgres"
    registered, \* has the worker been created?
    staged,    \* versions the registry holds
    uploaded,  \* ProviderVersionID of a version
    token,     \* is an encrypted token stored?
    desired,   \* DesiredVersionID of the worker
    number,    \* Version of the worker
    plan,      \* place, and what was read, of a createWorkerDeployment request
    dep,       \* the deployment records
    run,       \* place, and what was read, of an executeWorkerDeployment request
    content,   \* Cloudflare: the module of a provider version
    history    \* Cloudflare: the deployments of the script, oldest first

registryVars == <<registered, staged, uploaded, token>>
planVars == <<desired, number, plan>>
cloudVars == <<content, history>>

vars == <<storage, registryVars, planVars, dep, run, cloudVars>>

NoPlan == [at |-> "idle", desired |-> {}, number |-> 0]

NoDeployment ==
    [state |-> "none", version |-> {}, kind |-> "deploy", previous |-> {}, number |-> 0,
     pv |-> {}, pd |-> {}, error |-> FALSE]

NoRun == [at |-> "idle", dep |-> {}, pv |-> {}]

Init ==
    /\ storage \in {"memory", "postgres"}
    /\ registered = FALSE
    /\ staged = {} /\ uploaded = [v \in Versions |-> {}] /\ token = FALSE
    /\ desired = {} /\ number = 1
    /\ plan = [d \in Deployments |-> NoPlan]
    /\ dep = [d \in Deployments |-> NoDeployment]
    /\ run = [r \in Requests |-> NoRun]
    /\ content = [d \in Deployments |-> {}]
    /\ history = <<>>

-----------------------------------------------------------------------------
(* The registry.                                                           *)

CreateWorker ==
    /\ ~registered /\ registered' = TRUE
    /\ UNCHANGED <<storage, staged, uploaded, token, planVars, dep, run, cloudVars>>

CreateWorkerVersion(v) ==
    /\ registered /\ v \notin staged
    /\ staged' = staged \cup {v}
    /\ UNCHANGED <<storage, registered, uploaded, token, planVars, dep, run, cloudVars>>

(* Replacing the token there is leaves token as it is. *)
PutWorkerToken ==
    /\ registered /\ ~token /\ token' = TRUE
    /\ UNCHANGED <<storage, registered, staged, uploaded, planVars, dep, run, cloudVars>>

DeleteWorkerToken ==
    /\ token /\ token' = FALSE
    /\ UNCHANGED <<storage, registered, staged, uploaded, planVars, dep, run, cloudVars>>

-----------------------------------------------------------------------------
(* Planning: createWorkerDeployment.                                       *)

(* GetWorker: the handler works on a copy from here on. *)
PlanReadWorker(d) ==
    /\ registered /\ plan[d].at = "idle"
    /\ plan' = [plan EXCEPT ![d] = [at |-> "workerRead", desired |-> desired, number |-> number]]
    /\ UNCHANGED <<storage, registryVars, desired, number, dep, run, cloudVars>>

(* GetWorkerVersion and GetWorkerToken; the plan that will be submitted.   *)
PlanPrepare(d, v, kind) ==
    /\ plan[d].at = "workerRead"
    /\ IF v \in staged /\ token
       THEN /\ plan' = [plan EXCEPT ![d].at = "prepared"]
            /\ dep' = [dep EXCEPT ![d] = [NoDeployment EXCEPT !.state = "submitted",
                          !.version = {v}, !.kind = kind, !.previous = plan[d].desired,
                          !.number = plan[d].number + 1]]
       ELSE plan' = [plan EXCEPT ![d].at = "refused"] /\ UNCHANGED dep
    /\ UNCHANGED <<storage, registryVars, desired, number, run, cloudVars>>

(* Mutant: the number of the worker is not compared. *)
MemoryPlanByDesired(d) ==
    /\ dep[d].version \subseteq staged /\ token
    /\ dep[d].previous = desired
    /\ ~(dep[d].kind = "rollback" /\ desired \in {{}, dep[d].version})

(* Memory.PlanWorkerDeployment accepts the submitted plan. *)
MemoryPlan(d) ==
    /\ dep[d].kind \in Kinds
    /\ dep[d].version \subseteq staged
    /\ token
    /\ dep[d].previous = desired
    /\ ~(dep[d].kind = "rollback" /\ desired \in {{}, dep[d].version})
    /\ dep[d].number = number + 1

(* PostgresRepository.PlanWorkerDeployment accepts it. *)
PostgresPlan(d) ==
    /\ dep[d].previous = desired /\ dep[d].number = number + 1
    /\ dep[d].version \subseteq staged /\ token
    /\ ~(dep[d].kind = "rollback" /\ (desired = {} \/ desired = dep[d].version))

(* The plan is stored and the worker updated in one critical section, or   *)
(* one transaction, which may also fail in PostgreSQL: on the connection,  *)
(* or on a CHECK of the tables (updated_at >= created_at, for one).        *)
PlanWorkerDeployment(d) ==
    /\ plan[d].at = "prepared"
    /\ \/ /\ IF storage = "memory" THEN MemoryPlan(d) ELSE PostgresPlan(d)
          /\ plan' = [plan EXCEPT ![d].at = "planned"]
          /\ dep' = [dep EXCEPT ![d].state = "ready_for_provider"]
          /\ desired' = dep[d].version
          /\ number' = dep[d].number
       \/ /\ storage = "memory" => ~MemoryPlan(d)
          /\ plan' = [plan EXCEPT ![d].at = "refused"]
          /\ dep' = [dep EXCEPT ![d] = NoDeployment]
          /\ UNCHANGED <<desired, number>>
    /\ UNCHANGED <<storage, registryVars, run, cloudVars>>

-----------------------------------------------------------------------------
(* Execution: executeWorkerDeployment up to the claim.                     *)

(* The deployment r executes. *)
Target(r) == CHOOSE d \in run[r].dep : TRUE

Goto(r, place) == run' = [run EXCEPT ![r].at = place]

(* Secret execution is enabled, and GetWorkerDeployment finds a deployment *)
(* that is ready.                                                          *)
ExecuteReadDeployment(r, d) ==
    /\ run[r].at = "idle"
    /\ storage = "memory"
    /\ dep[d].state = "ready_for_provider"
    /\ run' = [run EXCEPT ![r] = [at |-> "deploymentRead", dep |-> {d}, pv |-> {}]]
    /\ UNCHANGED <<storage, registryVars, planVars, dep, cloudVars>>

(* GetWorker and the check that the plan was not superseded. *)
ExecuteReadWorker(r) ==
    /\ run[r].at = "deploymentRead"
    /\ Goto(r, IF desired = dep[Target(r)].version THEN "workerRead" ELSE "refused")
    /\ UNCHANGED <<storage, registryVars, planVars, dep, cloudVars>>

(* GetWorkerVersion; a rollback needs a version Cloudflare has. *)
ExecuteReadVersion(r) ==
    /\ run[r].at = "workerRead"
    /\ LET d == Target(r)
           pv == IF dep[d].kind = "rollback" THEN UNION {uploaded[v] : v \in dep[d].version} ELSE {}
       IN run' = [run EXCEPT ![r].pv = pv,
                             ![r].at = IF dep[d].kind = "rollback" /\ pv = {}
                                       THEN "refused" ELSE "versionRead"]
    /\ UNCHANGED <<storage, registryVars, planVars, dep, cloudVars>>

(* GetWorkerToken; the token may not open, or be no valid token. *)
ExecuteOpenToken(r) ==
    /\ run[r].at = "versionRead"
    /\ \/ token /\ Goto(r, "opened")
       \/ Goto(r, "refused")
    /\ UNCHANGED <<storage, registryVars, planVars, dep, cloudVars>>

-----------------------------------------------------------------------------
(* The deployment records, as UpdateWorkerDeployment writes them.          *)

(* validWorkerDeploymentTransition; ordered: the time that is written now  *)
(* is no earlier than the one it follows.                                  *)
ValidTransition(current, updated, ordered) ==
    /\ updated.version = current.version /\ updated.kind = current.kind
    /\ updated.previous = current.previous
    /\ ordered
    /\ \/ /\ current.state = "ready_for_provider" /\ updated.state = "running"
          /\ ~updated.error /\ updated.pd = {}
       \/ /\ current.state = "running" /\ updated.state = "succeeded"
          /\ ~updated.error /\ updated.pv # {} /\ updated.pd # {}
       \/ /\ current.state = "running" /\ updated.state = "failed"
          /\ updated.error

MemoryUpdate(d, updated, expected, ordered) ==
    dep[d].state = expected /\ ValidTransition(dep[d], updated, ordered)

(* The records runCloudflareDeployment and failCloudflareDeployment write. *)
Claimed(r) ==
    [dep[Target(r)] EXCEPT !.state = "running", !.pv = run[r].pv]

(* Mutant: the provider version of an upload is not entered. *)
SucceededWithoutVersion(r) ==
    [dep[Target(r)] EXCEPT !.state = "succeeded", !.pd = {Target(r)}]

Succeeded(r) ==
    [dep[Target(r)] EXCEPT !.state = "succeeded", !.pv = run[r].pv, !.pd = {Target(r)}]

Failed(r) ==
    [dep[Target(r)] EXCEPT !.state = "failed", !.pv = run[r].pv, !.error = TRUE]

-----------------------------------------------------------------------------
(* Execution: runCloudflareDeployment.                                     *)

(* Mutant: the claim does not compare the state. *)
ClaimBlindly(r) ==
    /\ run[r].at = "opened"
    /\ Goto(r, "claimed") /\ dep' = [dep EXCEPT ![Target(r)] = Claimed(r)]
    /\ UNCHANGED <<storage, registryVars, planVars, cloudVars>>

(* The compare-and-swap that claims the deployment. *)
Claim(r) ==
    /\ run[r].at = "opened"
    /\ \E ordered \in BOOLEAN :
          IF MemoryUpdate(Target(r), Claimed(r), "ready_for_provider", ordered)
          THEN Goto(r, "claimed") /\ dep' = [dep EXCEPT ![Target(r)] = Claimed(r)]
          ELSE Goto(r, "refused") /\ UNCHANGED dep
    /\ UNCHANGED <<storage, registryVars, planVars, cloudVars>>

(* requestAPI: Cloudflare carries the request out or does not, and the     *)
(* answer may be lost, late, or no valid answer, even when it did.         *)
RequestAPI(effect, noEffect, answered, failed) ==
    \/ effect /\ (answered \/ failed)
    \/ noEffect /\ failed

(* Client.ValidateAccess: the token is active and reaches the account. *)
ValidateAccess(r) ==
    /\ run[r].at = "claimed"
    /\ \/ Goto(r, IF dep[Target(r)].kind = "deploy" THEN "validated" ELSE "recorded")
       \/ Goto(r, "failing")
    /\ UNCHANGED <<storage, registryVars, planVars, dep, cloudVars>>

(* Mutant: the module of the version the worker desires now is uploaded. *)
UploadDesired(r) ==
    /\ run[r].at = "validated"
    /\ content' = [content EXCEPT ![Target(r)] = desired]
    /\ run' = [run EXCEPT ![r].at = "uploaded", ![r].pv = {Target(r)}]
    /\ UNCHANGED <<storage, registryVars, planVars, dep, history>>

(* Client.UploadVersion; only an accepted answer names the provider        *)
(* version.                                                                *)
UploadVersion(r) ==
    /\ run[r].at = "validated"
    /\ RequestAPI(content' = [content EXCEPT ![Target(r)] = dep[Target(r)].version],
                  UNCHANGED content,
                  run' = [run EXCEPT ![r].at = "uploaded", ![r].pv = {Target(r)}],
                  Goto(r, "failing"))
    /\ UNCHANGED <<storage, registryVars, planVars, dep, history>>

(* Mutant: the version's own ID is recorded as the provider's. *)
RecordOwnID(r) ==
    /\ run[r].at = "uploaded"
    /\ uploaded' = [v \in Versions |-> IF {v} = dep[Target(r)].version THEN {v} ELSE uploaded[v]]
    /\ Goto(r, "recorded")
    /\ UNCHANGED <<storage, registered, staged, token, planVars, dep, cloudVars>>

(* UpdateWorkerVersionProvider. *)
RecordVersion(r) ==
    /\ run[r].at = "uploaded"
    /\ uploaded' = [v \in Versions |-> IF {v} = dep[Target(r)].version
                                       THEN run[r].pv ELSE uploaded[v]]
    /\ Goto(r, "recorded")
    /\ UNCHANGED <<storage, registered, staged, token, planVars, dep, cloudVars>>

(* Client.ListDeployments: pv is in the deployments of the script. *)
Listed(pv) == \E i \in DOMAIN history : history[i].pv = pv

(* The checks of Client.Rollback: the target is in the history and is not  *)
(* what runs now.                                                          *)
RollbackHistory(r) ==
    /\ run[r].at = "recorded"
    /\ dep[Target(r)].kind = "rollback"
    /\ \/ /\ \E pv \in run[r].pv : Listed(pv)
          /\ history[Len(history)].pv \notin run[r].pv
          /\ Goto(r, "listed")
       \/ Goto(r, "failing")
    /\ UNCHANGED <<storage, registryVars, planVars, dep, cloudVars>>

(* Client.DeployVersion comes to createDeployment without a look at the    *)
(* history.                                                                *)
DeployVersion(r) == run[r].at = "recorded" /\ dep[Target(r)].kind = "deploy"

(* Client.createDeployment. *)
CreateDeployment(r) ==
    /\ run[r].at = "listed" \/ DeployVersion(r)
    /\ RequestAPI(\E pv \in run[r].pv : history' = Append(history, [by |-> Target(r), pv |-> pv]),
                  UNCHANGED history, Goto(r, "created"), Goto(r, "failing"))
    /\ UNCHANGED <<storage, registryVars, planVars, dep, content>>

(* Cloudflare shows deployment d with pv at 100 percent. *)
AtFull(d, pv) == \E i \in DOMAIN history : history[i] = [by |-> d, pv |-> pv]

(* Client.WaitForDeployment polls until then, or until its timeout. *)
WaitForDeployment(r) ==
    /\ run[r].at = "created"
    /\ \/ (\E pv \in run[r].pv : AtFull(Target(r), pv)) /\ Goto(r, "active")
       \/ Goto(r, "failing")
    /\ UNCHANGED <<storage, registryVars, planVars, dep, cloudVars>>

(* UpdateWorkerDeployment with the end of the execution: when it is        *)
(* refused nobody tries again, and the record stays as it is.              *)
WriteEnd(r, updated) ==
    \E ordered \in BOOLEAN :
        IF MemoryUpdate(Target(r), updated, "running", ordered)
        THEN Goto(r, "done") /\ dep' = [dep EXCEPT ![Target(r)] = updated]
        ELSE Goto(r, "unrecorded") /\ UNCHANGED dep

FinishSucceeded(r) ==
    /\ run[r].at = "active" /\ WriteEnd(r, Succeeded(r))
    /\ UNCHANGED <<storage, registryVars, planVars, cloudVars>>

(* failCloudflareDeploymentCode. *)
FinishFailed(r) ==
    /\ run[r].at = "failing" /\ WriteEnd(r, Failed(r))
    /\ UNCHANGED <<storage, registryVars, planVars, cloudVars>>

-----------------------------------------------------------------------------
RunStep(r) ==
    \/ ExecuteReadWorker(r) \/ ExecuteReadVersion(r) \/ ExecuteOpenToken(r)
    \/ Claim(r) \/ ValidateAccess(r) \/ UploadVersion(r) \/ RecordVersion(r)
    \/ RollbackHistory(r) \/ CreateDeployment(r) \/ WaitForDeployment(r)
    \/ FinishSucceeded(r) \/ FinishFailed(r)

Next ==
    \/ CreateWorker
    \/ \E v \in Versions : CreateWorkerVersion(v)
    \/ PutWorkerToken
    \/ DeleteWorkerToken
    \/ \E d \in Deployments :
          \/ PlanReadWorker(d)
          \/ \E v \in Versions, kind \in Kinds : PlanPrepare(d, v, kind)
          \/ PlanWorkerDeployment(d)
          \/ \E r \in Requests : ExecuteReadDeployment(r, d)
    \/ \E r \in Requests : RunStep(r)

Spec == Init /\ [][Next]_vars

-----------------------------------------------------------------------------
(* Properties.                                                             *)

Planned == {d \in Deployments : dep[d].state \notin {"none", "submitted"}}

(* Where a request is that has claimed its deployment and written no end:  *)
(* it executes it, or its end was refused.                                 *)
Claiming == {"claimed", "validated", "uploaded", "recorded", "listed", "created", "active",
             "failing", "unrecorded"}

Places == Claiming \cup {"idle", "deploymentRead", "workerRead", "versionRead", "opened",
                         "refused", "done"}

Executors(d) == {r \in Requests : run[r].at \in Claiming /\ run[r].dep = {d}}

(* The variables keep their types. *)
CloudTypeOK ==
    /\ storage \in {"memory", "postgres"}
    /\ registered \in BOOLEAN
    /\ staged \subseteq Versions
    /\ uploaded \in [Versions -> SUBSET Deployments]
    /\ token \in BOOLEAN
    /\ desired \subseteq Versions
    /\ number \in Nat
    /\ plan \in [Deployments -> [at : {"idle", "workerRead", "prepared", "planned", "refused"},
                                 desired : SUBSET Versions, number : Nat]]
    /\ dep \in [Deployments ->
                  [state : {"none", "submitted", "ready_for_provider", "running",
                            "succeeded", "failed"},
                   version : SUBSET Versions, kind : Kinds, previous : SUBSET Versions,
                   number : Nat, pv : SUBSET Deployments, pd : SUBSET Deployments,
                   error : BOOLEAN]]
    /\ run \in [Requests -> [at : Places, dep : SUBSET Deployments, pv : SUBSET Deployments]]
    /\ content \in [Deployments -> SUBSET Versions]
    /\ history \in Seq([by : Deployments, pv : Deployments])

(* Whatever number of requests try to execute a plan at the same time, a   *)
(* running deployment was claimed by one request, which has written no end *)
(* state, and Cloudflare is asked at most once to deploy the plan (the     *)
(* claim of runCloudflareDeployment is a compare-and-swap, and every path  *)
(* after it writes an end state or, when the clock was set back, fails to).*)
ExecutedOnce ==
    \A d \in Deployments :
        /\ dep[d].state = "running" <=> Executors(d) # {}
        /\ \A r1, r2 \in Executors(d) : r1 = r2
        /\ \A i, j \in DOMAIN history :
              history[i].by = d /\ history[j].by = d
              => i = j /\ dep[d].state \in {"running", "succeeded", "failed"}

(* A deployment recorded as succeeded is one Cloudflare has, of a provider *)
(* version whose module is the version the plan names, also when the       *)
(* provider version was read before another execution replaced it          *)
(* (runCloudflareDeployment, Client.Rollback).                             *)
SucceededMeansDeployed ==
    \A d \in Deployments : dep[d].state = "succeeded" =>
        \E pv \in dep[d].pv : AtFull(d, pv) /\ content[pv] = dep[d].version

(* The plans of a worker form a chain: each was made from the desired      *)
(* version that the plan before it set, the worker desires what the last   *)
(* one says, and a rollback goes back to another version than the one it   *)
(* replaces (PlanWorkerDeployment refuses a plan made from a stale read).  *)
PlansChain ==
    /\ \A d \in Planned :
          /\ dep[d].number \in 2..number
          /\ dep[d].number = number => desired = dep[d].version
          /\ dep[d].number = 2 => dep[d].previous = {}
          /\ dep[d].kind = "rollback" => dep[d].previous \notin {{}, dep[d].version}
    /\ \A d, e \in Planned :
          /\ dep[d].number = dep[e].number => d = e
          /\ dep[e].number = dep[d].number + 1 => dep[e].previous = dep[d].version

(* Only a clock that was set back keeps the end of an execution out of its *)
(* record: whatever path it took through the provider and whatever other   *)
(* requests did meanwhile, the record it is about to write is one that     *)
(* UpdateWorkerDeployment accepts when its times are in order              *)
(* (runCloudflareDeployment, failCloudflareDeploymentCode).                *)
EndIsAccepted ==
    \A r \in Requests :
        /\ run[r].at = "active" => MemoryUpdate(Target(r), Succeeded(r), "running", TRUE)
        /\ run[r].at = "failing" => MemoryUpdate(Target(r), Failed(r), "running", TRUE)

(* A superseded plan is not executed: once a later plan for another        *)
(* version has succeeded, no earlier plan is claimed                       *)
(* (executeWorkerDeployment refuses a plan "superseded by a newer desired  *)
(* version").                                                              *)
SupersededPlanNeverClaimed ==
    [][\A d, e \in Deployments :
          /\ dep[d].state = "ready_for_provider" /\ dep'[d].state = "running"
          /\ dep[e].state = "succeeded" /\ dep[e].number > dep[d].number
          => desired = dep[d].version]_vars

=============================================================================
