----------------------------- MODULE RunbookFlow -----------------------------
(***************************************************************************)
(* Runbook jobs end to end: previewRunbook and executeRunbook of the       *)
(* control plane (internal/api/runbooks.go) over the Connector of          *)
(* RunbookLedger, with requests that arrive late, answers that get lost,   *)
(* a Connector that restarts, and a host, a credential and a session that  *)
(* change under an approval.                                               *)
(*                                                                         *)
(* A member of Requests is an execute request of a user and the one call   *)
(* of the Connector it makes.  All jobs are for one host; session[j] is    *)
(* the session that asked for job j, the only one that may execute it.  A  *)
(* scope digest stands for the binding it is computed from.                *)
(***************************************************************************)
EXTENDS RunbookLedger, JobModel, Sequences

CONSTANTS Targets, \* address, port and user of the host
          Keys,    \* host keys
          Creds    \* SSH credentials

ASSUME ScopesAssumption == Scopes = [target : Targets, key : Keys, cred : Creds]

VARIABLES
    job,       \* the repository's job table
    binding,   \* per job, the binding of its preview
    previewer, \* place of the preview handler of a job
    hostSeen,  \* the preview handler's copy of the host
    handler,   \* place of the execute handler of a request
    asks,      \* the job a request wants to execute
    keySeen, credSeen, \* the execute handler's copies
    session, host, credential,
    closings,  \* per job, its closing audit events
    everRan    \* requests whose plan was ever started, in any process

flowVars == <<job, binding, previewer, hostSeen, handler, asks, keySeen, credSeen, session,
              host, credential, closings>>

vars == <<ledgerVars, flowVars, everRan>>

NoJob == [state |-> "absent", version |-> 0, started |-> FALSE, finished |-> FALSE]

AnyScope == CHOOSE s \in Scopes : TRUE

Init ==
    /\ LedgerInit
    /\ job = [j \in Jobs |-> NoJob]
    /\ binding = [j \in Jobs |-> AnyScope]
    /\ previewer = [j \in Jobs |-> "idle"]
    /\ hostSeen = [j \in Jobs |-> [target |-> AnyScope.target, key |-> AnyScope.key]]
    /\ handler = [r \in Requests |-> "idle"]
    /\ asks = [r \in Requests |-> CHOOSE j \in Jobs : TRUE]
    /\ keySeen = [r \in Requests |-> AnyScope.key]
    /\ credSeen = [r \in Requests |-> AnyScope.cred]
    /\ session = [j \in Jobs |-> "active"]
    /\ host \in {[target |-> t, key |-> {k}] : t \in Targets, k \in Keys}
    /\ credential \in {{c} : c \in Creds}
    /\ closings = [j \in Jobs |-> <<>>]
    /\ everRan = {}

-----------------------------------------------------------------------------
(* previewRunbook. *)

PreviewRequest(j) ==
    /\ previewer[j] = "idle" /\ session[j] = "active"
    /\ \E k \in host.key : hostSeen' = [hostSeen EXCEPT ![j] = [target |-> host.target, key |-> k]]
    /\ previewer' = [previewer EXCEPT ![j] = "hostRead"]
    /\ UNCHANGED <<ledgerVars, job, binding, handler, asks, keySeen, credSeen, session, host,
                   credential, closings, everRan>>

(* The credential is read and the job created; without a credential the    *)
(* request is rejected.                                                    *)
PreviewCreate(j) ==
    /\ previewer[j] = "hostRead"
    /\ \/ \E c \in credential :
             /\ binding' = [binding EXCEPT ![j] = [target |-> hostSeen[j].target,
                                                   key |-> hostSeen[j].key, cred |-> c]]
             /\ job' = [job EXCEPT ![j] = [@ EXCEPT !.state = "queued", !.version = 1]]
             /\ previewer' = [previewer EXCEPT ![j] = "created"]
       \/ /\ credential = {}
          /\ previewer' = [previewer EXCEPT ![j] = "closed"]
          /\ UNCHANGED <<binding, job>>
    /\ UNCHANGED <<ledgerVars, hostSeen, handler, asks, keySeen, credSeen, session, host,
                   credential, closings, everRan>>

PreviewStart(j) ==
    /\ previewer[j] = "created"
    /\ IF CanTransition(job[j].state, "running")
       THEN /\ job' = [job EXCEPT ![j] = TransitionJob(@, "running")]
            /\ previewer' = [previewer EXCEPT ![j] = "previewing"]
       ELSE /\ previewer' = [previewer EXCEPT ![j] = "closed"]
            /\ UNCHANGED job
    /\ UNCHANGED <<ledgerVars, binding, hostSeen, handler, asks, keySeen, credSeen, session,
                   host, credential, closings, everRan>>

(* Mutant: the failure is stored but not audited. *)
FailRunbookJobUnaudited(j) ==
    /\ job' = [job EXCEPT ![j] = TransitionJob(@, "failed")]
    /\ UNCHANGED closings

(* failRunbookJob and its audit event. *)
FailRunbookJob(j) ==
    IF job[j].state = "running"
    THEN /\ job' = [job EXCEPT ![j] = TransitionJob(@, "failed")]
         /\ closings' = [closings EXCEPT ![j] = Append(@, "runbook.failed")]
    ELSE UNCHANGED <<job, closings>>

(* The Connector's preview keeps no state: it answers with the binding and *)
(* its digest, or the call fails.                                          *)
PreviewResult(j) ==
    /\ previewer[j] = "previewing"
    /\ \/ /\ job' = IF CanTransition(job[j].state, "awaiting_approval")
                    THEN [job EXCEPT ![j] = TransitionJob(@, "awaiting_approval")] ELSE job
          /\ UNCHANGED closings
       \/ FailRunbookJob(j)
    /\ previewer' = [previewer EXCEPT ![j] = "closed"]
    /\ UNCHANGED <<ledgerVars, binding, hostSeen, handler, asks, keySeen, credSeen, session,
                   host, credential, everRan>>

-----------------------------------------------------------------------------
(* executeRunbook. *)

envOfExecute == <<binding, previewer, hostSeen, session, host, credential>>

(* Mutant: the requesting session is not looked up again. *)
ExecuteCheckStale(r, j, s) ==
    /\ handler[r] = "idle"
    /\ job[j].state = "awaiting_approval"
    /\ s = binding[j]
    /\ handler' = [handler EXCEPT ![r] = "checked"]
    /\ asks' = [asks EXCEPT ![r] = j]
    /\ UNCHANGED <<ledgerVars, envOfExecute, job, keySeen, credSeen, closings, everRan>>

(* The checks of the handler up to the reads of host and credential; any   *)
(* of them failing answers an error and changes nothing.                   *)
ExecuteCheck(r, j, s) ==
    /\ handler[r] = "idle"
    /\ job[j].state = "awaiting_approval"
    /\ session[j] = "active"
    /\ s = binding[j]
    /\ handler' = [handler EXCEPT ![r] = "checked"]
    /\ asks' = [asks EXCEPT ![r] = j]
    /\ UNCHANGED <<ledgerVars, envOfExecute, job, keySeen, credSeen, closings, everRan>>

(* Mutant: a missing host key is not noticed. *)
ReadHostUnchecked(r) ==
    /\ handler[r] = "checked"
    /\ keySeen' = [keySeen EXCEPT ![r] = IF host.key = {} THEN host.key
                                         ELSE CHOOSE k \in host.key : TRUE]
    /\ handler' = [handler EXCEPT ![r] = "hostRead"]
    /\ UNCHANGED <<ledgerVars, envOfExecute, job, asks, credSeen, closings, everRan>>

ReadHost(r) ==
    /\ handler[r] = "checked"
    /\ \/ \E k \in host.key : /\ keySeen' = [keySeen EXCEPT ![r] = k]
                              /\ handler' = [handler EXCEPT ![r] = "hostRead"]
       \/ /\ host.key = {}
          /\ handler' = [handler EXCEPT ![r] = "closed"]
          /\ UNCHANGED keySeen
    /\ UNCHANGED <<ledgerVars, envOfExecute, job, asks, credSeen, closings, everRan>>

ReadCredential(r) ==
    /\ handler[r] = "hostRead"
    /\ \/ \E c \in credential : /\ credSeen' = [credSeen EXCEPT ![r] = c]
                                /\ handler' = [handler EXCEPT ![r] = "ready"]
       \/ /\ credential = {}
          /\ handler' = [handler EXCEPT ![r] = "closed"]
          /\ UNCHANGED credSeen
    /\ UNCHANGED <<ledgerVars, envOfExecute, job, asks, keySeen, closings, everRan>>

(* Mutant: the job is marked running without asking the state machine. *)
StartExecutionUnchecked(r) ==
    /\ handler[r] = "ready"
    /\ job' = [job EXCEPT ![asks[r]] = TransitionJob(@, "running")]
    /\ handler' = [handler EXCEPT ![r] = "started"]
    /\ UNCHANGED <<ledgerVars, envOfExecute, asks, keySeen, credSeen, closings, everRan>>

StartExecution(r) ==
    /\ handler[r] = "ready"
    /\ \/ /\ CanTransition(job[asks[r]].state, "running")
          /\ job' = [job EXCEPT ![asks[r]] = TransitionJob(@, "running")]
          /\ handler' = [handler EXCEPT ![r] = "started"]
       \/ /\ ~CanTransition(job[asks[r]].state, "running")
          /\ handler' = [handler EXCEPT ![r] = "closed"]
          /\ UNCHANGED job
    /\ UNCHANGED <<ledgerVars, envOfExecute, asks, keySeen, credSeen, closings, everRan>>

(* credentials.Open and the call of the Connector. *)
Send(r) ==
    /\ handler[r] = "started"
    /\ handler' = [handler EXCEPT ![r] = "waiting"]
    /\ UNCHANGED <<ledgerVars, envOfExecute, job, asks, keySeen, credSeen, closings, everRan>>

(* The credential does not open, the connection fails, the handler's       *)
(* context ends, or the answer is lost.                                    *)
GiveUp(r) ==
    /\ \/ handler[r] = "started" /\ handler' = [handler EXCEPT ![r] = "unsent"]
       \/ handler[r] = "waiting" /\ handler' = [handler EXCEPT ![r] = "lost"]
    /\ UNCHANGED <<ledgerVars, envOfExecute, job, asks, keySeen, credSeen, closings, everRan>>

Receive(r) ==
    /\ handler[r] = "waiting" /\ place[r] = "answered"
    /\ handler' = [handler EXCEPT ![r] = IF answer[r] \in {"result", "replay"} THEN "received"
                                         ELSE "unsent"]
    /\ UNCHANGED <<ledgerVars, envOfExecute, job, asks, keySeen, credSeen, closings, everRan>>

(* Mutant: any answer of the Connector counts as success. *)
ResultStateOptimistic(r) == "succeeded"

ResultState(r) ==
    IF \E first \in source[r] : outcome[first] = "succeeded" THEN "succeeded" ELSE "failed"

(* The result is stored and audited. *)
StoreResult(r) ==
    /\ handler[r] = "received"
    /\ IF CanTransition(job[asks[r]].state, ResultState(r))
       THEN /\ job' = [job EXCEPT ![asks[r]] = TransitionJob(@, ResultState(r))]
            /\ closings' = [closings EXCEPT ![asks[r]] = Append(@, "runbook.executed")]
       ELSE UNCHANGED <<job, closings>>
    /\ handler' = [handler EXCEPT ![r] = "closed"]
    /\ UNCHANGED <<ledgerVars, envOfExecute, asks, keySeen, credSeen, everRan>>

(* Mutant: the handler returns without failing the job. *)
FailSilently(r) ==
    /\ handler[r] \in {"unsent", "lost"}
    /\ handler' = [handler EXCEPT ![r] = IF @ = "lost" THEN "abandoned" ELSE "closed"]
    /\ UNCHANGED <<ledgerVars, envOfExecute, job, asks, keySeen, credSeen, closings, everRan>>

(* Any error is stored as a failed execution.  A request that was sent may *)
(* still be on its way to the Connector, or running there.                 *)
Fail(r) ==
    /\ handler[r] \in {"unsent", "lost"}
    /\ FailRunbookJob(asks[r])
    /\ handler' = [handler EXCEPT ![r] = IF @ = "lost" THEN "abandoned" ELSE "closed"]
    /\ UNCHANGED <<ledgerVars, envOfExecute, asks, keySeen, credSeen, everRan>>

-----------------------------------------------------------------------------
(* The Connector. *)

(* Mutant: only the digest of the approval is compared. *)
SSHMaterialUnchecked(r) == TRUE

(* validateRunbookSSHMaterial: the host key and the credential that were   *)
(* sent are the ones of the approved binding.                              *)
SSHMaterialMatches(r) ==
    /\ keySeen[r] = binding[asks[r]].key
    /\ credSeen[r] = binding[asks[r]].cred

OnTheWay(r) == handler[r] \in {"waiting", "lost", "abandoned"}

(* A request that was sent arrives, perhaps after its sender gave up. *)
Deliver(r) ==
    /\ OnTheWay(r)
    /\ \/ SSHMaterialMatches(r) /\ Admit(r, asks[r], binding[asks[r]])
       \/ Refuse(r)
    /\ UNCHANGED <<flowVars, everRan>>

Connector(r) ==
    /\ Work(r) \/ Panic(r)
    /\ everRan' = everRan \cup Executing'
    /\ UNCHANGED flowVars

(* The ledger's clock stands still here: it only chooses among completed   *)
(* entries, and without it any of them may be the oldest.                  *)
RestartConnector ==
    /\ Restart
    /\ UNCHANGED <<flowVars, everRan>>

-----------------------------------------------------------------------------
(* The surroundings.  cancelJob is refused for every runbook job, which is *)
(* never in jobCancels, and has no action.                                 *)

EndSession(j) ==
    /\ session[j] = "active"
    /\ session' = [session EXCEPT ![j] = "ended"]
    /\ UNCHANGED <<ledgerVars, job, binding, previewer, hostSeen, handler, asks, keySeen,
                   credSeen, host, credential, closings, everRan>>

(* updateHost, with another user name or another address, which drops the  *)
(* key, and pinHostKey.                                                    *)
ChangeHost ==
    /\ \/ \E t \in Targets : host' = [host EXCEPT !.target = t]
       \/ \E t \in Targets \ {host.target} : host' = [target |-> t, key |-> {}]
       \/ \E k \in Keys : host' = [host EXCEPT !.key = {k}]
    /\ UNCHANGED <<ledgerVars, job, binding, previewer, hostSeen, handler, asks, keySeen,
                   credSeen, session, credential, closings, everRan>>

(* putCredential and deleteCredential. *)
ChangeCredential ==
    /\ \/ \E c \in Creds : credential' = {c}
       \/ credential' = {}
    /\ UNCHANGED <<ledgerVars, job, binding, previewer, hostSeen, handler, asks, keySeen,
                   credSeen, session, host, closings, everRan>>

-----------------------------------------------------------------------------
Preview(j) == PreviewCreate(j) \/ PreviewStart(j) \/ PreviewResult(j)

Execute(r) ==
    \/ ReadHost(r) \/ ReadCredential(r) \/ StartExecution(r) \/ Send(r) \/ GiveUp(r)
    \/ Receive(r) \/ StoreResult(r) \/ Fail(r)

Next ==
    \/ \E j \in Jobs : \/ PreviewRequest(j) \/ Preview(j) \/ EndSession(j)
                       \/ \E r \in Requests, s \in Scopes : ExecuteCheck(r, j, s)
    \/ \E r \in Requests : Execute(r) \/ Deliver(r) \/ Connector(r)
    \/ RestartConnector
    \/ ChangeHost \/ ChangeCredential

Spec == Init /\ [][Next]_vars

(* The control plane's handlers run on; a call of the Connector ends by    *)
(* its context if nothing else ends it, which GiveUp stands for.           *)
FairSpec ==
    /\ Spec
    /\ \A j \in Jobs : WF_vars(Preview(j))
    /\ \A r \in Requests : WF_vars(Execute(r))

-----------------------------------------------------------------------------
(* Properties.                                                             *)

(* Every variable of the control plane's side stays in its range. *)
FlowTypeOK ==
    /\ LedgerTypeOK
    /\ job \in [Jobs -> [state : JobStates \cup {"absent"}, version : Nat,
                         started : BOOLEAN, finished : BOOLEAN]]
    /\ binding \in [Jobs -> Scopes]
    /\ previewer \in [Jobs -> {"idle", "hostRead", "created", "previewing", "closed"}]
    /\ hostSeen \in [Jobs -> [target : Targets, key : Keys]]
    /\ handler \in [Requests -> {"idle", "checked", "hostRead", "ready", "started", "waiting",
                                 "unsent", "lost", "received", "abandoned", "closed"}]
    /\ asks \in [Requests -> Jobs]
    /\ keySeen \in [Requests -> Keys] /\ credSeen \in [Requests -> Creds]
    /\ session \in [Jobs -> {"active", "ended"}]
    /\ host \in [target : Targets, key : SUBSET Keys]
    /\ credential \subseteq Creds
    /\ closings \in [Jobs -> Seq({"runbook.failed", "runbook.executed"})]
    /\ everRan \subseteq Requests

StateMachine == INSTANCE JobStateMachine
                WITH state <- [j \in Jobs |-> job[j].state],
                     version <- [j \in Jobs |-> job[j].version]

(* Runbook jobs implement the same abstract state machine as SSH jobs. *)
ImplementsStateMachine == StateMachine!Spec

(* "No automatic retry": whatever is answered late, lost or repeated, and  *)
(* however often the Connector restarts and forgets its ledger, the plan   *)
(* of a job is started at most once.                                       *)
PlanStartsAtMostOnce ==
    \A r1, r2 \in everRan : asks[r1] = asks[r2] => r1 = r2

(* What runs is what was previewed and approved: the target, the host key  *)
(* and the credential of the binding, even if the host or the credential   *)
(* changed between the preview and the execution or during it.             *)
RunsApprovedBinding ==
    \A r \in everRan : /\ jobOf[r] = asks[r] /\ scopeOf[r] = binding[asks[r]]
                       /\ keySeen[r] = binding[asks[r]].key
                       /\ credSeen[r] = binding[asks[r]].cred

(* A job is reported succeeded only if the Connector ran every step of its *)
(* plan; the converse does not hold, an answer may be lost.                *)
SucceededMeansExecuted ==
    \A j \in Jobs : job[j].state = "succeeded" =>
        \E r \in everRan : asks[r] = j /\ outcome[r] = "succeeded" /\ progress[r] = Steps

(* A session that ended while its job was waiting for approval, and before *)
(* any execute request passed its check, keeps the plan from ever running. *)
RevokedBeforeApprovalNeverRuns ==
    \A j \in Jobs :
        [](session[j] = "ended" /\ (\A r \in Requests : asks[r] = j => handler[r] = "idle")
            => [](\A r \in everRan : asks[r] # j))

(* Every job that ended has one closing audit event, and no open job has.  *)
ClosedOnce ==
    \A j \in Jobs : Len(closings[j]) = IF job[j].state \in Terminal THEN 1 ELSE 0

(* A running runbook job comes to rest: it awaits approval or ends. *)
RunningComesToRest ==
    \A j \in Jobs : job[j].state = "running" ~> job[j].state # "running"

=============================================================================
