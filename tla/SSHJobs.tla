------------------------------- MODULE SSHJobs -------------------------------
(***************************************************************************)
(* Background SSH jobs of the control plane: runtime snapshots, read-only  *)
(* catalog commands and anomaly scans (internal/api/server.go and          *)
(* internal/api/operations.go, over the in-memory repository that the      *)
(* development mode, the only mode that decrypts credentials, uses).       *)
(*                                                                         *)
(* A job is created by a request handler, run by a goroutine of its own,   *)
(* and raced by cancelJob, by the end of the session that asked for it,    *)
(* by its deadline and by changes to the host and to its credential.  pc   *)
(* holds the place of the handler and then of the goroutine of each job;   *)
(* every step between two accesses to shared state is an action, except    *)
(* that Analyze writes its audit event together with the end of the job.   *)
(***************************************************************************)
EXTENDS JobModel, Sequences

CONSTANTS Jobs,        \* identifiers handed out by model.NewID
          Hosts,
          Sessions,
          Kinds,       \* job types
          Access,      \* <<session, host>>: role and scope allow the operation
          MaxCancels   \* bound: accepted cancel requests per job

ASSUME NonemptyAssumption == Jobs # {} /\ Hosts # {} /\ Sessions # {} /\ Kinds # {}
ASSUME KindsAssumption ==
    Kinds \subseteq {"runtime_snapshot", "read_only_command", "process_anomaly_scan"}
ASSUME AccessAssumption == Access \subseteq Sessions \X Hosts
ASSUME MaxCancelsAssumption == MaxCancels \in Nat

VARIABLES
    job,        \* the repository's job table
    jobCancels, \* jobs with an entry in Server.jobCancels
    ctx,        \* the job's context: "live", or why it is done
    pc,         \* place of the handler, then of the goroutine
    hostKey,    \* goroutine's copy of the host record: was a key pinned?
    opened,     \* the credential was decrypted for this job
    remote,     \* how far the job got on the target host
    canceller,  \* place of a cancelJob request for the job
    session,    \* auth.Sessions
    host,       \* the repository's host table
    credential, \* hosts with a credential binding
    audits      \* per job and action, the outcomes audited so far

vars == <<job, jobCancels, ctx, pc, hostKey, opened, remote, canceller,
          session, host, credential, audits>>

(***************************************************************************)
(* Places.  The handler ends in "rejected" or hands over at "spawned".     *)
(***************************************************************************)
HandlerPlaces == {"idle", "hostChecked", "credentialChecked", "created", "audited"}

BeforeRecheck == {"spawned", "authorized", "starting", "running", "hostRead",
                  "credentialRead"}

OnTarget == {"dialing", "handshake", "session", "executing", "scanned"}

Closing == {"finished", "unregister"}

Goroutine == BeforeRecheck \cup {"reauthorized"} \cup OnTarget \cup Closing

Places == HandlerPlaces \cup Goroutine \cup {"rejected", "done"}

Errors == {"none", "authorization_expired", "cancelled", "timeout", "failure"}

AuditActions == {"job.created", "job.cancel_requested", "job.finished",
                 "anomaly_scan.ai_analyzed"}

(* The job record before CreateJob; its last fields hold the request. *)
NoJob ==
    [state |-> "absent", version |-> 0, started |-> FALSE, finished |-> FALSE,
     kind |-> CHOOSE k \in Kinds : TRUE, host |-> CHOOSE h \in Hosts : TRUE,
     session |-> CHOOSE s \in Sessions : TRUE, error |-> "none"]

Init ==
    /\ job = [j \in Jobs |-> NoJob]
    /\ jobCancels = {}
    /\ ctx = [j \in Jobs |-> "live"]
    /\ pc = [j \in Jobs |-> "idle"]
    /\ hostKey = [j \in Jobs |-> FALSE]
    /\ opened = [j \in Jobs |-> FALSE]
    /\ remote = [j \in Jobs |-> "untouched"]
    /\ canceller = [j \in Jobs |-> "idle"]
    /\ session = [s \in Sessions |-> "active"]
    /\ host = [h \in Hosts |-> "unpinned"]
    /\ credential = {}
    /\ audits = [j \in Jobs |-> [a \in AuditActions |-> <<>>]]

-----------------------------------------------------------------------------
(* Helpers. *)

(* Sessions.Authenticate, then AuthorizeSession: the session is neither    *)
(* revoked nor expired and its principal may do this on this host.         *)
AuthorizeSession(s, h) == session[s] = "active" /\ <<s, h>> \in Access

Authorized(j) == AuthorizeSession(job[j].session, job[j].host)

Goto(j, from, to) == pc[j] = from /\ pc' = [pc EXCEPT ![j] = to]

Audit(j, action, outcome) ==
    audits' = [audits EXCEPT ![j][action] = Append(@, outcome)]

(* The callback of MutateJob: transition, then record the error code. *)
FinishedJob(r, to, error) == [TransitionJob(r, to) EXCEPT !.error = error]

(* MutateJob with that callback, then the audit step; a transition the     *)
(* state machine refuses leaves the job and goes straight to the deferred  *)
(* unregistration.                                                         *)
Finish(j, to, error) ==
    IF CanTransition(job[j].state, to)
    THEN /\ job' = [job EXCEPT ![j] = FinishedJob(@, to, error)]
         /\ pc' = [pc EXCEPT ![j] = "finished"]
    ELSE /\ pc' = [pc EXCEPT ![j] = "unregister"]
         /\ UNCHANGED job

envVars == <<session, host, credential>>
cancelVars == <<jobCancels, canceller>>

-----------------------------------------------------------------------------
(* The request handler: createRuntimeSnapshot, createReadOnlyCommand,      *)
(* createAnomalyScan.                                                      *)

Request(j, k, h, s) ==
    /\ AuthorizeSession(s, h)
    /\ host[h] = "pinned"
    /\ Goto(j, "idle", "hostChecked")
    /\ job' = [job EXCEPT ![j] = [@ EXCEPT !.kind = k, !.host = h, !.session = s]]
    /\ UNCHANGED <<cancelVars, ctx, hostKey, opened, remote, envVars, audits>>

CheckCredential(j) ==
    /\ pc[j] = "hostChecked"
    /\ pc' = [pc EXCEPT ![j] = IF job[j].host \in credential
                               THEN "credentialChecked" ELSE "rejected"]
    /\ UNCHANGED <<job, cancelVars, ctx, hostKey, opened, remote, envVars, audits>>

CreateJob(j) ==
    /\ Goto(j, "credentialChecked", "created")
    /\ job' = [job EXCEPT ![j] = [@ EXCEPT !.state = "queued", !.version = 1]]
    /\ UNCHANGED <<cancelVars, ctx, hostKey, opened, remote, envVars, audits>>

AuditCreated(j) ==
    /\ Goto(j, "created", "audited")
    /\ Audit(j, "job.created", "success")
    /\ UNCHANGED <<job, cancelVars, ctx, hostKey, opened, remote, envVars>>

(* Mutant: the goroutine starts before its cancel function is stored. *)
SpawnUnregistered(j) ==
    /\ Goto(j, "audited", "spawned")
    /\ UNCHANGED <<job, cancelVars, ctx, hostKey, opened, remote, envVars, audits>>

(* jobCancels[job.ID] = cancel; go run... *)
Spawn(j) ==
    /\ Goto(j, "audited", "spawned")
    /\ jobCancels' = jobCancels \cup {j}
    /\ UNCHANGED <<job, ctx, hostKey, opened, remote, canceller, envVars, audits>>

-----------------------------------------------------------------------------
(* The goroutine up to the decryption of the credential: runSnapshotJob,   *)
(* startAuthorizedJob, executeCatalog.                                     *)

AuthorizeQueued(j) ==
    /\ pc[j] = "spawned"
    /\ IF Authorized(j)
       THEN pc' = [pc EXCEPT ![j] = "authorized"] /\ UNCHANGED job
       ELSE Finish(j, "cancelled", "authorization_expired")
    /\ UNCHANGED <<cancelVars, ctx, hostKey, opened, remote, envVars, audits>>

(* A deadline that passed while the job was queued is reported as a        *)
(* cancellation too.                                                       *)
CheckContext(j) ==
    /\ pc[j] = "authorized"
    /\ IF ctx[j] = "live"
       THEN pc' = [pc EXCEPT ![j] = "starting"] /\ UNCHANGED job
       ELSE Finish(j, "cancelled", "cancelled")
    /\ UNCHANGED <<cancelVars, ctx, hostKey, opened, remote, envVars, audits>>

(* Mutant: the state is assigned without TransitionJob. *)
StartWithoutVersion(j) ==
    /\ Goto(j, "starting", "running")
    /\ job' = [job EXCEPT ![j].state = "running"]
    /\ UNCHANGED <<cancelVars, ctx, hostKey, opened, remote, envVars, audits>>

Start(j) ==
    /\ pc[j] = "starting"
    /\ IF CanTransition(job[j].state, "running")
       THEN /\ job' = [job EXCEPT ![j] = TransitionJob(@, "running")]
            /\ pc' = [pc EXCEPT ![j] = "running"]
       ELSE pc' = [pc EXCEPT ![j] = "unregister"] /\ UNCHANGED job
    /\ UNCHANGED <<cancelVars, ctx, hostKey, opened, remote, envVars, audits>>

ReadHost(j) ==
    /\ pc[j] = "running"
    /\ IF host[job[j].host] # "deleted"
       THEN /\ pc' = [pc EXCEPT ![j] = "hostRead"]
            /\ hostKey' = [hostKey EXCEPT ![j] = host[job[j].host] = "pinned"]
            /\ UNCHANGED job
       ELSE Finish(j, "failed", "failure") /\ UNCHANGED hostKey
    /\ UNCHANGED <<cancelVars, ctx, opened, remote, envVars, audits>>

(* Mutant: a missing credential returns without finishing the job. *)
ReadCredentialReturns(j) ==
    /\ pc[j] = "hostRead"
    /\ pc' = [pc EXCEPT ![j] = IF job[j].host \in credential
                               THEN "credentialRead" ELSE "unregister"]
    /\ UNCHANGED <<job, cancelVars, ctx, hostKey, opened, remote, envVars, audits>>

ReadCredential(j) ==
    /\ pc[j] = "hostRead"
    /\ IF job[j].host \in credential
       THEN pc' = [pc EXCEPT ![j] = "credentialRead"] /\ UNCHANGED job
       ELSE Finish(j, "failed", "failure")
    /\ UNCHANGED <<cancelVars, ctx, hostKey, opened, remote, envVars, audits>>

(* Mutants: the second check is dropped; its refusal is reported as a      *)
(* cancellation.                                                           *)
ReauthorizeDropped(j) ==
    /\ Goto(j, "credentialRead", "reauthorized")
    /\ UNCHANGED <<job, cancelVars, ctx, hostKey, opened, remote, envVars, audits>>

ReauthorizeMislabelled(j) ==
    /\ pc[j] = "credentialRead"
    /\ IF Authorized(j)
       THEN pc' = [pc EXCEPT ![j] = "reauthorized"] /\ UNCHANGED job
       ELSE Finish(j, "cancelled", "cancelled")
    /\ UNCHANGED <<cancelVars, ctx, hostKey, opened, remote, envVars, audits>>

Reauthorize(j) ==
    /\ pc[j] = "credentialRead"
    /\ IF Authorized(j)
       THEN pc' = [pc EXCEPT ![j] = "reauthorized"] /\ UNCHANGED job
       ELSE Finish(j, "cancelled", "authorization_expired")
    /\ UNCHANGED <<cancelVars, ctx, hostKey, opened, remote, envVars, audits>>

(* credentials.Open ignores the context; the callback refuses a host whose *)
(* copy has no pinned key, and the signer may not parse.                   *)
OpenCredential(j) ==
    /\ pc[j] = "reauthorized"
    /\ opened' = [opened EXCEPT ![j] = TRUE]
    /\ \/ /\ hostKey[j]
          /\ pc' = [pc EXCEPT ![j] = "dialing"]
          /\ UNCHANGED job
       \/ Finish(j, "failed", "failure")
    /\ UNCHANGED <<cancelVars, ctx, hostKey, remote, envVars, audits>>

-----------------------------------------------------------------------------
(* sshconnector.Client.Run.                                                *)

(* An error that wraps a context's error.  The connect and the command     *)
(* timeout are contexts too, and one of them may have expired before the   *)
(* job was cancelled.                                                      *)
FinishOnContext(j) ==
    \/ ctx[j] = "cancelled" /\ Finish(j, "cancelled", "cancelled")
    \/ Finish(j, "timed_out", "timeout")

(* Mutant: the dialler is given a background context. *)
DialDetached(j) ==
    /\ Goto(j, "dialing", "handshake")
    /\ remote' = [remote EXCEPT ![j] = "connected"]
    /\ UNCHANGED <<job, cancelVars, ctx, hostKey, opened, envVars, audits>>

(* Dialling honours the context; the connect timeout wraps                 *)
(* context.DeadlineExceeded as well.                                       *)
Dial(j) ==
    /\ pc[j] = "dialing"
    /\ \/ /\ ctx[j] = "live"
          /\ pc' = [pc EXCEPT ![j] = "handshake"]
          /\ remote' = [remote EXCEPT ![j] = "connected"]
          /\ UNCHANGED job
       \/ /\ Finish(j, "failed", "failure")
          /\ UNCHANGED remote
       \/ /\ FinishOnContext(j)
          /\ UNCHANGED remote
    /\ UNCHANGED <<cancelVars, ctx, hostKey, opened, envVars, audits>>

(* The handshake does not watch the context: only a connection deadline    *)
(* bounds it.  A host key other than the pinned one fails here.            *)
Handshake(j) ==
    /\ pc[j] = "handshake"
    /\ \/ pc' = [pc EXCEPT ![j] = "session"] /\ UNCHANGED job
       \/ Finish(j, "failed", "failure")
    /\ UNCHANGED <<cancelVars, ctx, hostKey, opened, remote, envVars, audits>>

(* NewSession and session.Start run before the context is looked at. *)
StartCommand(j) ==
    /\ pc[j] = "session"
    /\ \/ /\ pc' = [pc EXCEPT ![j] = "executing"]
          /\ remote' = [remote EXCEPT ![j] = "started"]
          /\ UNCHANGED job
       \/ Finish(j, "failed", "failure") /\ UNCHANGED remote
    /\ UNCHANGED <<cancelVars, ctx, hostKey, opened, envVars, audits>>

(* select of runSession: the command ended well or badly, exceeded its     *)
(* output budget or its own timeout, or the job's context was done; when   *)
(* several are ready any of them is taken.                                 *)
AwaitCommand(j) ==
    /\ pc[j] = "executing"
    /\ \/ Finish(j, "failed", "failure")
       \/ FinishOnContext(j)
       \/ /\ job[j].kind = "process_anomaly_scan"
          /\ pc' = [pc EXCEPT ![j] = "scanned"]
          /\ UNCHANGED job
       \/ /\ job[j].kind # "process_anomaly_scan"
          /\ Finish(j, "succeeded", "none")
    /\ UNCHANGED <<cancelVars, ctx, hostKey, opened, remote, envVars, audits>>

-----------------------------------------------------------------------------
(* The tail of runAnomalyScanJob: an unreadable inventory fails the job,   *)
(* an analysis that cannot run is audited and fails it, and every gateway  *)
(* problem, a done context included, falls back to the rules.              *)
Analyze(j) ==
    /\ pc[j] = "scanned"
    /\ \/ Finish(j, "failed", "failure") /\ UNCHANGED audits
       \/ /\ Audit(j, "anomaly_scan.ai_analyzed", "failed")
          /\ Finish(j, "failed", "failure")
       \/ /\ Audit(j, "anomaly_scan.ai_analyzed", "success")
          /\ Finish(j, "succeeded", "none")
    /\ UNCHANGED <<cancelVars, ctx, hostKey, opened, remote, envVars>>

(* Mutant: the audit is only written for jobs that succeeded. *)
AuditFinishedSuccesses(j) ==
    /\ Goto(j, "finished", "unregister")
    /\ IF job[j].state = "succeeded"
       THEN Audit(j, "job.finished", job[j].state) ELSE UNCHANGED audits
    /\ UNCHANGED <<job, cancelVars, ctx, hostKey, opened, remote, envVars>>

AuditFinished(j) ==
    /\ Goto(j, "finished", "unregister")
    /\ Audit(j, "job.finished", job[j].state)
    /\ UNCHANGED <<job, cancelVars, ctx, hostKey, opened, remote, envVars>>

(* Mutant: the deferred delete is missing. *)
UnregisterForgotten(j) ==
    /\ Goto(j, "unregister", "done")
    /\ UNCHANGED <<job, cancelVars, ctx, hostKey, opened, remote, envVars, audits>>

(* The deferred delete(s.jobCancels, jobID). *)
Unregister(j) ==
    /\ Goto(j, "unregister", "done")
    /\ jobCancels' = jobCancels \ {j}
    /\ UNCHANGED <<job, ctx, hostKey, opened, remote, canceller, envVars, audits>>

(* The JobTimeout of the goroutine's context. *)
Deadline(j) ==
    /\ pc[j] \in Goroutine
    /\ ctx[j] = "live"
    /\ ctx' = [ctx EXCEPT ![j] = "deadline"]
    /\ UNCHANGED <<job, cancelVars, pc, hostKey, opened, remote, envVars, audits>>

-----------------------------------------------------------------------------
(* cancelJob: read the job, look its cancel function up, call it, audit.   *)

CancelRead(j) ==
    /\ canceller[j] = "idle"
    /\ Len(audits[j]["job.cancel_requested"]) < MaxCancels
    /\ \E s \in Sessions : AuthorizeSession(s, job[j].host)
    /\ job[j].state \in {"queued", "running"}
    /\ canceller' = [canceller EXCEPT ![j] = "read"]
    /\ UNCHANGED <<job, jobCancels, ctx, pc, hostKey, opened, remote, envVars, audits>>

CancelLookup(j) ==
    /\ canceller[j] = "read"
    /\ canceller' = [canceller EXCEPT ![j] = IF j \in jobCancels THEN "held" ELSE "idle"]
    /\ UNCHANGED <<job, jobCancels, ctx, pc, hostKey, opened, remote, envVars, audits>>

CancelContext(j) ==
    /\ canceller[j] = "held"
    /\ canceller' = [canceller EXCEPT ![j] = "called"]
    /\ ctx' = [ctx EXCEPT ![j] = IF @ = "live" THEN "cancelled" ELSE @]
    /\ UNCHANGED <<job, jobCancels, pc, hostKey, opened, remote, envVars, audits>>

CancelAudit(j) ==
    /\ canceller[j] = "called"
    /\ canceller' = [canceller EXCEPT ![j] = "idle"]
    /\ Audit(j, "job.cancel_requested", "success")
    /\ UNCHANGED <<job, jobCancels, ctx, pc, hostKey, opened, remote, envVars>>

-----------------------------------------------------------------------------
(* Other requests that touch what a job reads. *)

jobVars == <<job, cancelVars, ctx, pc, hostKey, opened, remote, audits>>

(* revokeCurrentSession, or the expiry of the session. *)
EndSession(s) ==
    /\ session[s] = "active"
    /\ session' = [session EXCEPT ![s] = "ended"]
    /\ UNCHANGED <<jobVars, host, credential>>

(* pinHostKey. *)
PinHostKey(h) ==
    /\ host[h] = "unpinned"
    /\ host' = [host EXCEPT ![h] = "pinned"]
    /\ UNCHANGED <<jobVars, session, credential>>

(* updateHost with another address or port drops the pinned key. *)
ResetHostKey(h) ==
    /\ host[h] = "pinned"
    /\ host' = [host EXCEPT ![h] = "unpinned"]
    /\ UNCHANGED <<jobVars, session, credential>>

(* deleteHost: the store removes the credential with the host. *)
DeleteHost(h) ==
    /\ host[h] # "deleted"
    /\ host' = [host EXCEPT ![h] = "deleted"]
    /\ credential' = credential \ {h}
    /\ UNCHANGED <<jobVars, session>>

PutCredential(h) ==
    /\ host[h] # "deleted"
    /\ credential' = credential \cup {h}
    /\ UNCHANGED <<jobVars, session, host>>

DeleteCredential(h) ==
    /\ h \in credential
    /\ credential' = credential \ {h}
    /\ UNCHANGED <<jobVars, session, host>>

-----------------------------------------------------------------------------
Handler(j) == CheckCredential(j) \/ CreateJob(j) \/ AuditCreated(j) \/ Spawn(j)

Run(j) ==
    \/ AuthorizeQueued(j) \/ CheckContext(j) \/ Start(j)
    \/ ReadHost(j) \/ ReadCredential(j) \/ Reauthorize(j) \/ OpenCredential(j)
    \/ Dial(j) \/ Handshake(j) \/ StartCommand(j) \/ AwaitCommand(j) \/ Analyze(j)
    \/ AuditFinished(j) \/ Unregister(j)

Cancel(j) == CancelLookup(j) \/ CancelContext(j) \/ CancelAudit(j)

Environment ==
    \/ \E s \in Sessions : EndSession(s)
    \/ \E h \in Hosts : \/ PinHostKey(h) \/ ResetHostKey(h) \/ DeleteHost(h)
                        \/ PutCredential(h) \/ DeleteCredential(h)

Next ==
    \/ \E j \in Jobs :
          \/ \E k \in Kinds, h \in Hosts, s \in Sessions : Request(j, k, h, s)
          \/ Handler(j) \/ Run(j) \/ Deadline(j)
          \/ CancelRead(j) \/ Cancel(j)
    \/ Environment

Spec == Init /\ [][Next]_vars

(* A handler and a goroutine that can take a step take it: dialling, the   *)
(* handshake, the command and the gateway have timeouts, which the failing *)
(* branches of the actions stand for.  NewSession and session.Start have   *)
(* none, the deadline of the connection being cleared before them: nothing *)
(* makes a goroutine leave "session" if the target does not answer.        *)
Progress(j) == pc[j] # "session" /\ Run(j)

Fairness ==
    \A j \in Jobs : WF_vars(Handler(j)) /\ WF_vars(Progress(j)) /\ WF_vars(Cancel(j))

FairSpec == Spec /\ Fairness

-----------------------------------------------------------------------------
(* Properties.                                                             *)

JobRecord ==
    [state : JobStates \cup {"absent"}, version : Nat, started : BOOLEAN,
     finished : BOOLEAN, kind : Kinds, host : Hosts, session : Sessions,
     error : Errors]

(* Every variable stays in its range. *)
TypeOK ==
    /\ job \in [Jobs -> JobRecord]
    /\ jobCancels \subseteq Jobs
    /\ ctx \in [Jobs -> {"live", "cancelled", "deadline"}]
    /\ pc \in [Jobs -> Places]
    /\ hostKey \in [Jobs -> BOOLEAN]
    /\ opened \in [Jobs -> BOOLEAN]
    /\ remote \in [Jobs -> {"untouched", "connected", "started"}]
    /\ canceller \in [Jobs -> {"idle", "read", "held", "called"}]
    /\ session \in [Sessions -> {"active", "ended"}]
    /\ host \in [Hosts -> {"unpinned", "pinned", "deleted"}]
    /\ credential \subseteq Hosts
    /\ audits \in [Jobs -> [AuditActions -> Seq(JobStates \cup {"success"})]]

(* The jobs implement the abstract state machine: whatever interleaving of *)
(* goroutine, cancellation and revocation, the stored state moves only     *)
(* along CanTransition and the version counts the moves.                   *)
StateMachine == INSTANCE JobStateMachine
                WITH state <- [j \in Jobs |-> job[j].state],
                     version <- [j \in Jobs |-> job[j].version]

ImplementsStateMachine == StateMachine!Spec

(* The audit trail and the job table agree: "job.finished" is audited      *)
(* exactly once for a job whose goroutine ended, with the state the job    *)
(* ended in, and never for a job that is still open or was never created.  *)
FinishAuditedOnce ==
    \A j \in Jobs :
        LET finish == audits[j]["job.finished"] IN
        /\ finish # <<>> => job[j].state \in Terminal /\ finish = <<job[j].state>>
        /\ pc[j] = "done" => finish # <<>>

(* A queued or running job whose goroutine was started can be cancelled:   *)
(* its cancel function stays in jobCancels until the job is finished, and  *)
(* it is not left behind afterwards.                                       *)
OpenJobsAreCancellable ==
    \A j \in Jobs :
        /\ pc[j] \in Goroutine /\ job[j].state \notin Terminal => j \in jobCancels
        /\ j \in jobCancels => pc[j] \in Goroutine

(* A job is reported cancelled only for a cause that really happened: its  *)
(* session lost its authority, or its context was cancelled or ran out.    *)
CancellationHasCause ==
    \A j \in Jobs :
        job[j].state = "cancelled" =>
            \/ job[j].error = "authorization_expired" /\ ~Authorized(j)
            \/ job[j].error = "cancelled" /\ ctx[j] # "live"

(* A job's cancel request is on record only after its creation is, and     *)
(* only when the job's context has been stopped.                           *)
CancelRecordIsConsistent ==
    \A j \in Jobs :
        audits[j]["job.cancel_requested"] # <<>> =>
            audits[j]["job.created"] # <<>> /\ ctx[j] # "live"

(* "Re-check ... immediately before decrypting credentials or opening a    *)
(* network connection": once its session has ended, a job that has not     *)
(* passed the second authorization never has its credential decrypted and  *)
(* never reaches the target.                                               *)
RevocationStopsExecution ==
    \A j \in Jobs :
        [](session[job[j].session] = "ended" /\ pc[j] \in BeforeRecheck
            => [](~opened[j] /\ remote[j] = "untouched"))

(* A job whose context is done before it dials never opens a connection:   *)
(* an accepted cancel that comes early enough leaves the host alone.       *)
CancelBeforeDialStopsExecution ==
    \A j \in Jobs :
        [](ctx[j] # "live" /\ remote[j] = "untouched" => [](remote[j] = "untouched"))

(* Every job that is stored ends in a terminal state, unless its target    *)
(* stalls for ever while the command is being started.                     *)
EveryJobEnds ==
    \A j \in Jobs :
        job[j].state = "queued" ~> (job[j].state \in Terminal \/ [](pc[j] = "session"))

(* Every entry of jobCancels is removed again, with the same exception. *)
CancelHandlesAreReleased ==
    \A j \in Jobs :
        j \in jobCancels ~> (j \notin jobCancels \/ [](pc[j] = "session"))

(* OPERATIONS.md: a command is bounded by the global job timeout, and a    *)
(* queued or running job can be cancelled.  A job whose context is done    *)
(* ends.                                                                   *)
StoppedJobsEnd ==
    \A j \in Jobs : ctx[j] # "live" ~> job[j].state \in Terminal

=============================================================================
