--------------------------- MODULE SSHJobs_proofs ---------------------------
(***************************************************************************)
(* Proofs about SSHJobs, for every set of jobs, hosts and sessions.        *)
(*                                                                         *)
(* The inductive invariant ties the stored job, the cancel table, the      *)
(* audit trail and what happened on the target to the place of the job's   *)
(* goroutine; none of the safety properties is inductive without it.       *)
(***************************************************************************)
EXTENDS SSHJobs, TLAPS

QueuedPlaces == {"created", "audited", "spawned", "authorized", "starting"}

RunningPlaces == {"running", "hostRead", "credentialRead", "reauthorized", "dialing",
                  "handshake", "session", "executing", "scanned"}

EndPlaces == {"finished", "unregister", "done"}

(* The stored state follows the place of the goroutine. *)
StateAt(j) ==
    /\ pc[j] \in {"idle", "hostChecked", "credentialChecked", "rejected"}
            => job[j].state = "absent" /\ job[j].version = 0
    /\ pc[j] \in QueuedPlaces => job[j].state = "queued"
    /\ pc[j] \in RunningPlaces => job[j].state = "running"
    /\ pc[j] \in EndPlaces => job[j].state \in Terminal

(* The cancel table holds exactly the jobs with a live goroutine. *)
RegisteredAt(j) == j \in jobCancels <=> pc[j] \in Goroutine

(* "job.finished" is written between "finished" and "unregister". *)
AuditedAt(j) ==
    /\ pc[j] \in {"unregister", "done"} => audits[j]["job.finished"] = <<job[j].state>>
    /\ pc[j] \notin {"unregister", "done"} => audits[j]["job.finished"] = <<>>
    /\ pc[j] \in Goroutine \cup {"audited", "done"} => audits[j]["job.created"] # <<>>

(* What the cancel handler has done so far. *)
CancellerAt(j) ==
    /\ canceller[j] \in {"held", "called"} => audits[j]["job.created"] # <<>>
    /\ canceller[j] = "called" => ctx[j] # "live"

(* Before the second authorization the credential is closed and the target *)
(* untouched; after the dial it is not.                                    *)
TargetAt(j) ==
    /\ pc[j] \in HandlerPlaces \cup BeforeRecheck \cup {"reauthorized"} => ~opened[j]
    /\ pc[j] \in HandlerPlaces \cup BeforeRecheck \cup {"reauthorized", "dialing"}
            => remote[j] = "untouched"
    /\ pc[j] \in OnTarget \ {"dialing"} => remote[j] # "untouched"

(* A recorded cancellation has its cause. *)
CauseAt(j) ==
    job[j].state = "cancelled" =>
        \/ job[j].error = "authorization_expired" /\ ~Authorized(j)
        \/ job[j].error = "cancelled" /\ ctx[j] # "live"

(* A recorded cancel request had a created job and stopped its context. *)
RecordAt(j) ==
    audits[j]["job.cancel_requested"] # <<>> =>
        audits[j]["job.created"] # <<>> /\ ctx[j] # "live"

JobInv(j) ==
    /\ StateAt(j)
    /\ RegisteredAt(j)
    /\ AuditedAt(j)
    /\ CancellerAt(j)
    /\ TargetAt(j)
    /\ CauseAt(j)
    /\ RecordAt(j)

PlaceInv == \A j \in Jobs : JobInv(j)

IndInv == TypeOK /\ PlaceInv

-----------------------------------------------------------------------------
(* The updates of a job record that the actions make yield a job record.   *)
LEMMA RequestRecord ==
    ASSUME NEW r \in JobRecord, NEW k \in Kinds, NEW h \in Hosts, NEW s \in Sessions
    PROVE  [r EXCEPT !.kind = k, !.host = h, !.session = s] \in JobRecord
BY DEF JobRecord

(* A handler's new job, queued at version 1, is a job record. *)
LEMMA CreateRecord ==
    ASSUME NEW r \in JobRecord
    PROVE  [r EXCEPT !.state = "queued", !.version = 1] \in JobRecord
BY DEF JobRecord, JobStates

(* A transition yields a job record with the new state and the next        *)
(* version, for the same request.                                          *)
LEMMA TransitionRecord ==
    ASSUME NEW r \in JobRecord, NEW to \in JobStates
    PROVE  /\ TransitionJob(r, to) \in JobRecord
           /\ TransitionJob(r, to).state = to
           /\ TransitionJob(r, to).version = r.version + 1
           /\ TransitionJob(r, to).session = r.session
           /\ TransitionJob(r, to).host = r.host
           /\ TransitionJob(r, to).error = r.error
<1> DEFINE v == r.version + 1
           started == r.started \/ to = "running"
           finished == r.finished \/ to \in Terminal
<1>1. v \in Nat
    BY DEF JobRecord
<1>2. started \in BOOLEAN /\ finished \in BOOLEAN
    OBVIOUS
<1>3. TransitionJob(r, to) = [r EXCEPT !.state = to, !.version = v, !.started = started,
                                       !.finished = finished]
    BY DEF TransitionJob
<1>4. TransitionJob(r, to) \in JobRecord
    <2> HIDE DEF v, started, finished
    <2> QED
        BY <1>1, <1>2, <1>3 DEF JobRecord
<1> QED
    BY <1>4 DEF TransitionJob, JobRecord

(* The record that Finish stores. *)
LEMMA FinishRecord ==
    ASSUME NEW r \in JobRecord, NEW to \in JobStates, NEW error \in Errors
    PROVE  /\ FinishedJob(r, to, error) \in JobRecord
           /\ FinishedJob(r, to, error).state = to
           /\ FinishedJob(r, to, error).version = r.version + 1
           /\ FinishedJob(r, to, error).session = r.session
           /\ FinishedJob(r, to, error).host = r.host
           /\ FinishedJob(r, to, error).error = error
<1> DEFINE t == TransitionJob(r, to)
<1>1. /\ t \in JobRecord
      /\ t.state = to
      /\ t.version = r.version + 1
      /\ t.session = r.session
      /\ t.host = r.host
    BY TransitionRecord
<1>2. /\ [t EXCEPT !.error = error] \in JobRecord
      /\ [t EXCEPT !.error = error].state = t.state
      /\ [t EXCEPT !.error = error].version = t.version
      /\ [t EXCEPT !.error = error].session = t.session
      /\ [t EXCEPT !.error = error].host = t.host
      /\ [t EXCEPT !.error = error].error = error
    <2> HIDE DEF t
    <2> QED
        BY <1>1 DEF JobRecord
<1> QED
    BY <1>1, <1>2 DEF FinishedJob

(* Finish, whatever its verdict, keeps the ranges of job and pc. *)
LEMMA FinishType ==
    ASSUME TypeOK, NEW j \in Jobs, NEW to \in Terminal, NEW error \in Errors,
           Finish(j, to, error)
    PROVE  job' \in [Jobs -> JobRecord] /\ pc' \in [Jobs -> Places]
<1> DEFINE r == FinishedJob(job[j], to, error)
<1>1. r \in JobRecord
    BY FinishRecord DEF TypeOK, JobStates
<1>2. job' = [job EXCEPT ![j] = r] \/ job' = job
    BY DEF Finish, TypeOK
<1>3. pc' \in [Jobs -> Places]
    BY DEF Finish, TypeOK, Places, Goroutine, Closing
<1> HIDE DEF r
<1> QED
    BY <1>1, <1>2, <1>3 DEF TypeOK

(* Appending an outcome keeps the range of the audit trail. *)
LEMMA AuditType ==
    ASSUME TypeOK, NEW j \in Jobs, NEW action \in AuditActions,
           NEW outcome \in JobStates \cup {"success"}, Audit(j, action, outcome)
    PROVE  audits' \in [Jobs -> [AuditActions -> Seq(JobStates \cup {"success"})]]
BY DEF TypeOK, Audit

(* So does finishing on a done context. *)
LEMMA FinishOnContextType ==
    ASSUME TypeOK, NEW j \in Jobs, FinishOnContext(j)
    PROVE  job' \in [Jobs -> JobRecord] /\ pc' \in [Jobs -> Places]
BY FinishType DEF FinishOnContext, Terminal, Errors

(* The empty repository and the idle places are in range. *)
LEMMA InitType == Init => TypeOK
<1> SUFFICES ASSUME Init PROVE TypeOK
    OBVIOUS
<1>1. NoJob \in JobRecord
    BY NonemptyAssumption DEF NoJob, JobRecord, JobStates, Errors
<1>2. audits \in [Jobs -> [AuditActions -> Seq(JobStates \cup {"success"})]]
    BY DEF Init
<1> QED
    BY <1>1, <1>2 DEF Init, TypeOK, Places, HandlerPlaces

(* The type invariant, one step for each action of Next. *)
LEMMA NextType == TypeOK /\ PlaceInv /\ [Next]_vars => TypeOK'
<1> SUFFICES ASSUME TypeOK, PlaceInv, [Next]_vars PROVE TypeOK'
    OBVIOUS
<1> USE DEF envVars, cancelVars, jobVars
<1>1. ASSUME NEW j \in Jobs, NEW k \in Kinds, NEW h \in Hosts, NEW s \in Sessions,
             Request(j, k, h, s)
      PROVE  TypeOK'
    BY <1>1, RequestRecord DEF TypeOK, Request, Goto, Places, HandlerPlaces
<1>2. ASSUME NEW j \in Jobs, Handler(j) PROVE TypeOK'
    <2>1. CASE CheckCredential(j)
        BY <2>1 DEF TypeOK, CheckCredential, Places, HandlerPlaces
    <2>2. CASE CreateJob(j)
        BY <2>2, CreateRecord DEF TypeOK, CreateJob, Goto, Places, HandlerPlaces
    <2>3. CASE AuditCreated(j)
        <3>1. audits' \in [Jobs -> [AuditActions -> Seq(JobStates \cup {"success"})]]
            BY <2>3, AuditType DEF AuditCreated, AuditActions
        <3> QED
            BY <2>3, <3>1 DEF TypeOK, AuditCreated, Goto, Places, HandlerPlaces
    <2>4. CASE Spawn(j)
        BY <2>4 DEF TypeOK, Spawn, Goto, Places, Goroutine, BeforeRecheck
    <2> QED
        BY <1>2, <2>1, <2>2, <2>3, <2>4 DEF Handler
<1>3. ASSUME NEW j \in Jobs, Run(j) PROVE TypeOK'
    <2> USE DEF Places, Goroutine, BeforeRecheck, OnTarget, Closing, Terminal, Errors
    <2>1. CASE AuthorizeQueued(j)
        BY <2>1, FinishType DEF TypeOK, AuthorizeQueued
    <2>2. CASE CheckContext(j)
        BY <2>2, FinishType DEF TypeOK, CheckContext
    <2>3. CASE Start(j)
        <3> DEFINE t == TransitionJob(job[j], "running")
        <3>1. t \in JobRecord
            BY TransitionRecord DEF TypeOK, JobStates
        <3>2. job' = [job EXCEPT ![j] = t] \/ job' = job
            BY <2>3 DEF Start
        <3> HIDE DEF t
        <3>3. job' \in [Jobs -> JobRecord]
            BY <3>1, <3>2 DEF TypeOK
        <3> QED
            BY <2>3, <3>3 DEF TypeOK, Start
    <2>4. CASE ReadHost(j)
        BY <2>4, FinishType DEF TypeOK, ReadHost
    <2>5. CASE ReadCredential(j)
        BY <2>5, FinishType DEF TypeOK, ReadCredential
    <2>6. CASE Reauthorize(j)
        BY <2>6, FinishType DEF TypeOK, Reauthorize
    <2>7. CASE OpenCredential(j)
        BY <2>7, FinishType DEF TypeOK, OpenCredential
    <2>8. CASE Dial(j)
        <3>1. job' \in [Jobs -> JobRecord] /\ pc' \in [Jobs -> Places]
            <4>1. CASE FinishOnContext(j)
                BY <4>1, FinishOnContextType
            <4>2. CASE ~FinishOnContext(j)
                BY <2>8, <4>2, FinishType DEF TypeOK, Dial
            <4> QED
                BY <4>1, <4>2
        <3> QED
            BY <2>8, <3>1 DEF TypeOK, Dial
    <2>9. CASE Handshake(j)
        BY <2>9, FinishType DEF TypeOK, Handshake
    <2>10. CASE StartCommand(j)
        BY <2>10, FinishType DEF TypeOK, StartCommand
    <2>11. CASE AwaitCommand(j)
        <3>1. job' \in [Jobs -> JobRecord] /\ pc' \in [Jobs -> Places]
            <4>1. CASE FinishOnContext(j)
                BY <4>1, FinishOnContextType
            <4>2. CASE ~FinishOnContext(j)
                BY <2>11, <4>2, FinishType DEF TypeOK, AwaitCommand
            <4> QED
                BY <4>1, <4>2
        <3> QED
            BY <2>11, <3>1 DEF TypeOK, AwaitCommand
    <2>12. CASE Analyze(j)
        <3>1. job' \in [Jobs -> JobRecord] /\ pc' \in [Jobs -> Places]
            BY <2>12, FinishType DEF Analyze
        <3>2. audits' \in [Jobs -> [AuditActions -> Seq(JobStates \cup {"success"})]]
            BY <2>12, AuditType DEF Analyze, AuditActions, JobStates, TypeOK
        <3> QED
            BY <2>12, <3>1, <3>2 DEF TypeOK, Analyze
    <2>13. CASE AuditFinished(j)
        <3>1. job[j].state \in JobStates
            BY <2>13 DEF AuditFinished, Goto, PlaceInv, JobInv, StateAt, EndPlaces, JobStates
        <3>2. audits' \in [Jobs -> [AuditActions -> Seq(JobStates \cup {"success"})]]
            BY <2>13, <3>1, AuditType DEF AuditFinished, AuditActions
        <3> QED
            BY <2>13, <3>2 DEF TypeOK, AuditFinished, Goto
    <2>14. CASE Unregister(j)
        BY <2>14 DEF TypeOK, Unregister, Goto
    <2> QED
        BY <1>3, <2>1, <2>2, <2>3, <2>4, <2>5, <2>6, <2>7, <2>8, <2>9, <2>10, <2>11,
           <2>12, <2>13, <2>14 DEF Run
<1>4. ASSUME NEW j \in Jobs, Deadline(j) PROVE TypeOK'
    BY <1>4 DEF TypeOK, Deadline
<1>5. ASSUME NEW j \in Jobs, CancelRead(j) PROVE TypeOK'
    BY <1>5 DEF TypeOK, CancelRead
<1>6. ASSUME NEW j \in Jobs, Cancel(j) PROVE TypeOK'
    <2>1. CASE CancelLookup(j)
        BY <2>1 DEF TypeOK, CancelLookup
    <2>2. CASE CancelContext(j)
        BY <2>2 DEF TypeOK, CancelContext
    <2>3. CASE CancelAudit(j)
        <3>1. audits' \in [Jobs -> [AuditActions -> Seq(JobStates \cup {"success"})]]
            BY <2>3, AuditType DEF CancelAudit, AuditActions
        <3> QED
            BY <2>3, <3>1 DEF TypeOK, CancelAudit
    <2> QED
        BY <1>6, <2>1, <2>2, <2>3 DEF Cancel
<1>7. CASE Environment
    BY <1>7 DEF TypeOK, Environment, EndSession, PinHostKey, ResetHostKey, DeleteHost,
                PutCredential, DeleteCredential
<1>8. CASE UNCHANGED vars
    BY <1>8 DEF TypeOK, vars
<1> QED
    BY <1>1, <1>2, <1>3, <1>4, <1>5, <1>6, <1>7, <1>8 DEF Next

-----------------------------------------------------------------------------
(* What a step of job j does to the other jobs: nothing.                   *)

Same(i) ==
    /\ job'[i] = job[i] /\ pc'[i] = pc[i] /\ ctx'[i] = ctx[i]
    /\ opened'[i] = opened[i] /\ remote'[i] = remote[i]
    /\ canceller'[i] = canceller[i] /\ audits'[i] = audits[i]
    /\ (i \in jobCancels') <=> (i \in jobCancels)
    /\ session' = session

StepOf(j) ==
    \/ \E k \in Kinds, h \in Hosts, s \in Sessions : Request(j, k, h, s)
    \/ Handler(j) \/ Run(j) \/ Deadline(j) \/ CancelRead(j) \/ Cancel(j)

(* A step of one job's handler, goroutine, deadline or canceller leaves    *)
(* everything that belongs to another job alone.                           *)
LEMMA OtherJobsSame ==
    ASSUME TypeOK, NEW j \in Jobs, StepOf(j), NEW i \in Jobs, i # j
    PROVE  Same(i)
<1> USE DEF TypeOK, Same, Goto, Audit, envVars, cancelVars
<1>1. ASSUME NEW to, NEW error, Finish(j, to, error)
      PROVE  job'[i] = job[i] /\ pc'[i] = pc[i]
    BY <1>1 DEF Finish
<1>2. ASSUME NEW k \in Kinds, NEW h \in Hosts, NEW s \in Sessions, Request(j, k, h, s)
      PROVE  Same(i)
    BY <1>2 DEF Request
<1>3. CASE Handler(j)
    BY <1>3 DEF Handler, CheckCredential, CreateJob, AuditCreated, Spawn
<1>4. CASE Run(j)
    <2>1. CASE AuthorizeQueued(j) \/ CheckContext(j) \/ Start(j)
        BY <1>1, <2>1 DEF AuthorizeQueued, CheckContext, Start
    <2>2. CASE ReadHost(j) \/ ReadCredential(j) \/ Reauthorize(j) \/ OpenCredential(j)
        BY <1>1, <2>2 DEF ReadHost, ReadCredential, Reauthorize, OpenCredential
    <2>3. CASE Dial(j) \/ Handshake(j) \/ StartCommand(j)
        BY <1>1, <2>3 DEF Dial, FinishOnContext, Handshake, StartCommand
    <2>4. CASE AwaitCommand(j) \/ Analyze(j)
        BY <1>1, <2>4 DEF AwaitCommand, FinishOnContext, Analyze
    <2>5. CASE AuditFinished(j) \/ Unregister(j)
        BY <2>5 DEF AuditFinished, Unregister
    <2> QED
        BY <1>4, <2>1, <2>2, <2>3, <2>4, <2>5 DEF Run
<1>5. CASE Deadline(j) \/ CancelRead(j)
    BY <1>5 DEF Deadline, CancelRead
<1>6. CASE Cancel(j)
    BY <1>6 DEF Cancel, CancelLookup, CancelContext, CancelAudit
<1> QED
    BY <1>2, <1>3, <1>4, <1>5, <1>6 DEF StepOf

(* A job whose state nobody touches keeps its invariant. *)
LEMMA SameInv ==
    ASSUME NEW i \in Jobs, JobInv(i), Same(i)
    PROVE  JobInv(i)'
BY DEF JobInv, Same, StateAt, RegisteredAt, AuditedAt, CancellerAt, TargetAt, CauseAt,
       RecordAt, Authorized, AuthorizeSession

(* An audit appends to one trail of one job. *)
LEMMA AuditEffect ==
    ASSUME TypeOK, NEW j \in Jobs, NEW action \in AuditActions,
           NEW outcome \in JobStates \cup {"success"}, Audit(j, action, outcome)
    PROVE  /\ audits'[j][action] = Append(audits[j][action], outcome)
           /\ audits'[j][action] # <<>>
           /\ audits[j][action] = <<>> => audits'[j][action] = <<outcome>>
           /\ \A b \in AuditActions \ {action} : audits'[j][b] = audits[j][b]
<1> DEFINE Outcomes == JobStates \cup {"success"}
           trail == audits[j][action]
<1>1. trail \in Seq(Outcomes) /\ outcome \in Outcomes
    BY DEF TypeOK
<1>2. audits'[j][action] = Append(trail, outcome)
    BY DEF TypeOK, Audit
<1>3. \A b \in AuditActions \ {action} : audits'[j][b] = audits[j][b]
    BY DEF TypeOK, Audit
<1> HIDE DEF trail, Outcomes
<1>4. Append(trail, outcome) # <<>>
    <2>1. Len(Append(trail, outcome)) = Len(trail) + 1 /\ Len(trail) \in Nat
        BY <1>1
    <2>2. Len(<<>>) = 0
        OBVIOUS
    <2> QED
        BY <2>1, <2>2
<1>5. trail = <<>> => Append(trail, outcome) = <<outcome>>
    BY <1>1
<1> QED
    BY <1>2, <1>3, <1>4, <1>5 DEF trail

(* At the places where the goroutine finishes its job the state machine    *)
(* accepts the verdict, so Finish takes its first branch.                  *)
LEMMA FinishEffect ==
    ASSUME TypeOK, NEW j \in Jobs, StateAt(j), NEW to \in Terminal, NEW error \in Errors,
           Finish(j, to, error),
           \/ pc[j] \in QueuedPlaces /\ to = "cancelled"
           \/ pc[j] \in RunningPlaces
    PROVE  /\ job'[j].state = to
           /\ job'[j].version = job[j].version + 1
           /\ job'[j].session = job[j].session
           /\ job'[j].host = job[j].host
           /\ job'[j].error = error
           /\ pc'[j] = "finished"
           /\ CanTransition(job[j].state, to)
<1>1. CanTransition(job[j].state, to)
    BY DEF StateAt, CanTransition, Terminal
<1> DEFINE f == FinishedJob(job[j], to, error)
<1>2. job[j] \in JobRecord /\ to \in JobStates
    BY DEF TypeOK, JobStates
<1>3. /\ f.state = to
      /\ f.version = job[j].version + 1
      /\ f.session = job[j].session
      /\ f.host = job[j].host
      /\ f.error = error
    BY <1>2, FinishRecord
<1>4. job'[j] = f /\ pc'[j] = "finished"
    BY <1>1 DEF Finish, TypeOK
<1> HIDE DEF f
<1> QED
    BY <1>1, <1>3, <1>4

(* Finishing a job keeps its invariant when the verdict has its cause: the *)
(* audit of the end is still to come.                                      *)
LEMMA FinishInv ==
    ASSUME IndInv, NEW j \in Jobs, NEW to \in Terminal, NEW error \in Errors,
           Finish(j, to, error),
           \/ pc[j] \in QueuedPlaces \ {"created", "audited"} /\ to = "cancelled"
           \/ pc[j] \in RunningPlaces,
           to = "cancelled" => \/ error = "authorization_expired" /\ ~Authorized(j)
                               \/ error = "cancelled" /\ ctx[j] # "live",
           UNCHANGED <<ctx, jobCancels, canceller, session>>,
           \A b \in AuditActions \ {"anomaly_scan.ai_analyzed"} : audits'[j][b] = audits[j][b]
    PROVE  JobInv(j)'
<1>1. JobInv(j)
    BY DEF IndInv, PlaceInv
<1>2. /\ job'[j].state = to
      /\ job'[j].session = job[j].session
      /\ job'[j].host = job[j].host
      /\ job'[j].error = error
      /\ pc'[j] = "finished"
    BY <1>1, FinishEffect DEF IndInv, JobInv
<1>3. /\ audits'[j]["job.created"] = audits[j]["job.created"]
      /\ audits'[j]["job.finished"] = audits[j]["job.finished"]
      /\ audits'[j]["job.cancel_requested"] = audits[j]["job.cancel_requested"]
    BY DEF AuditActions
<1> USE DEF QueuedPlaces, RunningPlaces, Goroutine, BeforeRecheck, OnTarget, Closing
<1>4. StateAt(j)'
    BY <1>2 DEF StateAt, EndPlaces
<1>5. RegisteredAt(j)'
    BY <1>1, <1>2 DEF RegisteredAt, JobInv
<1>6. AuditedAt(j)'
    BY <1>1, <1>2, <1>3 DEF AuditedAt, JobInv
<1>7. CancellerAt(j)' /\ RecordAt(j)'
    BY <1>1, <1>3 DEF CancellerAt, RecordAt, JobInv
<1>8. TargetAt(j)'
    BY <1>2 DEF TargetAt, HandlerPlaces
<1>9. CauseAt(j)'
    BY <1>2 DEF CauseAt, Authorized, AuthorizeSession
<1> QED
    BY <1>4, <1>5, <1>6, <1>7, <1>8, <1>9 DEF JobInv

-----------------------------------------------------------------------------
(* The invariant of the job that takes the step, one lemma for each of the *)
(* three processes.                                                        *)

(* The request handler, up to the start of the goroutine, keeps the        *)
(* invariant of its job.                                                   *)
LEMMA HandlerInv ==
    ASSUME IndInv, NEW j \in Jobs,
           \/ \E k \in Kinds, h \in Hosts, s \in Sessions : Request(j, k, h, s)
           \/ Handler(j)
    PROVE  JobInv(j)'
<1>1. JobInv(j) /\ TypeOK
    BY DEF IndInv, PlaceInv
<1> USE DEF envVars, cancelVars, Goto
<1> USE DEF QueuedPlaces, RunningPlaces, EndPlaces, HandlerPlaces, Goroutine, BeforeRecheck,
            OnTarget, Closing
<1>2. ASSUME NEW k \in Kinds, NEW h \in Hosts, NEW s \in Sessions, Request(j, k, h, s)
      PROVE  JobInv(j)'
    <2>1. job'[j] = [job[j] EXCEPT !.kind = k, !.host = h, !.session = s]
        BY <1>1, <1>2 DEF Request, TypeOK
    <2>2. job'[j].state = job[j].state /\ job'[j].version = job[j].version
        BY <1>1, <2>1 DEF TypeOK, JobRecord
    <2>3. pc[j] = "idle" /\ pc'[j] = "hostChecked"
        BY <1>1, <1>2 DEF Request, TypeOK
    <2> QED
        BY <1>1, <1>2, <2>2, <2>3
        DEF Request, JobInv, StateAt, RegisteredAt, AuditedAt, CancellerAt, TargetAt, CauseAt,
            RecordAt
<1>3. CASE CheckCredential(j)
    <2>1. pc[j] = "hostChecked" /\ pc'[j] \in {"credentialChecked", "rejected"}
        BY <1>1, <1>3 DEF CheckCredential, TypeOK
    <2> QED
        BY <1>1, <1>3, <2>1
        DEF CheckCredential, JobInv, StateAt, RegisteredAt, AuditedAt, CancellerAt, TargetAt,
            CauseAt, RecordAt, Authorized, AuthorizeSession
<1>4. CASE CreateJob(j)
    <2>1. job'[j] = [job[j] EXCEPT !.state = "queued", !.version = 1]
        BY <1>1, <1>4 DEF CreateJob, TypeOK
    <2>2. job'[j].state = "queued"
        BY <1>1, <2>1 DEF TypeOK, JobRecord
    <2>3. pc[j] = "credentialChecked" /\ pc'[j] = "created"
        BY <1>1, <1>4 DEF CreateJob, TypeOK
    <2> QED
        BY <1>1, <1>4, <2>2, <2>3
        DEF CreateJob, JobInv, StateAt, RegisteredAt, AuditedAt, CancellerAt, TargetAt, CauseAt,
            RecordAt
<1>5. CASE AuditCreated(j)
    <2>1. pc[j] = "created" /\ pc'[j] = "audited"
        BY <1>1, <1>5 DEF AuditCreated, TypeOK
    <2>2. /\ audits'[j]["job.created"] # <<>>
          /\ audits'[j]["job.finished"] = audits[j]["job.finished"]
          /\ audits'[j]["job.cancel_requested"] = audits[j]["job.cancel_requested"]
        BY <1>1, <1>5, AuditEffect DEF AuditCreated, AuditActions
    <2> QED
        BY <1>1, <1>5, <2>1, <2>2
        DEF AuditCreated, JobInv, StateAt, RegisteredAt, AuditedAt, CancellerAt, TargetAt,
            CauseAt, RecordAt, Authorized, AuthorizeSession
<1>6. CASE Spawn(j)
    <2>1. pc[j] = "audited" /\ pc'[j] = "spawned" /\ j \in jobCancels'
        BY <1>1, <1>6 DEF Spawn, TypeOK
    <2> QED
        BY <1>1, <1>6, <2>1
        DEF Spawn, JobInv, StateAt, RegisteredAt, AuditedAt, CancellerAt, TargetAt, CauseAt,
            RecordAt, Authorized, AuthorizeSession
<1> QED
    BY <1>2, <1>3, <1>4, <1>5, <1>6 DEF Handler

(* cancelJob and the deadline keep the invariant of the job they stop:     *)
(* they only end its context and record the request.                       *)
LEMMA CancelInv ==
    ASSUME IndInv, NEW j \in Jobs, Deadline(j) \/ CancelRead(j) \/ Cancel(j)
    PROVE  JobInv(j)'
<1>1. JobInv(j) /\ TypeOK
    BY DEF IndInv, PlaceInv
<1> USE DEF envVars, cancelVars
<1>2. CASE Deadline(j)
    BY <1>1, <1>2
    DEF Deadline, TypeOK, JobInv, StateAt, RegisteredAt, AuditedAt, CancellerAt, TargetAt,
        CauseAt, RecordAt, Authorized, AuthorizeSession
<1>3. CASE CancelRead(j)
    BY <1>1, <1>3
    DEF CancelRead, TypeOK, JobInv, StateAt, RegisteredAt, AuditedAt, CancellerAt, TargetAt,
        CauseAt, RecordAt, Authorized, AuthorizeSession
<1>4. CASE CancelLookup(j)
    <2>1. canceller'[j] # "idle" => canceller'[j] = "held" /\ audits[j]["job.created"] # <<>>
        BY <1>1, <1>4 DEF CancelLookup, TypeOK, JobInv, RegisteredAt, AuditedAt
    <2> QED
        BY <1>1, <1>4, <2>1
        DEF CancelLookup, JobInv, StateAt, RegisteredAt, AuditedAt, CancellerAt, TargetAt,
            CauseAt, RecordAt, Authorized, AuthorizeSession
<1>5. CASE CancelContext(j)
    <2>1. ctx'[j] # "live" /\ canceller[j] = "held" /\ canceller'[j] = "called"
        BY <1>1, <1>5 DEF CancelContext, TypeOK
    <2> QED
        BY <1>1, <1>5, <2>1
        DEF CancelContext, JobInv, StateAt, RegisteredAt, AuditedAt, CancellerAt, TargetAt,
            CauseAt, RecordAt, Authorized, AuthorizeSession
<1>6. CASE CancelAudit(j)
    <2>1. canceller[j] = "called" /\ canceller'[j] = "idle"
        BY <1>1, <1>6 DEF CancelAudit, TypeOK
    <2>2. /\ audits'[j]["job.created"] = audits[j]["job.created"]
          /\ audits'[j]["job.finished"] = audits[j]["job.finished"]
        BY <1>1, <1>6, AuditEffect DEF CancelAudit, AuditActions
    <2> QED
        BY <1>1, <1>6, <2>1, <2>2
        DEF CancelAudit, JobInv, StateAt, RegisteredAt, AuditedAt, CancellerAt, TargetAt,
            CauseAt, RecordAt, Authorized, AuthorizeSession
<1> QED
    BY <1>2, <1>3, <1>4, <1>5, <1>6 DEF Cancel

(* Moving on between two places of the same phase, nothing but the copy of *)
(* the host changed, keeps the invariant.                                  *)
LEMMA MoveInv ==
    ASSUME IndInv, NEW j \in Jobs, NEW to,
           pc' = [pc EXCEPT ![j] = to],
           \/ pc[j] \in {"spawned", "authorized"} /\ to \in {"authorized", "starting"}
           \/ /\ pc[j] \in {"running", "hostRead", "credentialRead"}
              /\ to \in {"hostRead", "credentialRead", "reauthorized"}
           \/ /\ pc[j] \in OnTarget \ {"dialing"}
              /\ to \in OnTarget \ {"dialing"},
           UNCHANGED <<job, ctx, opened, remote, cancelVars, envVars, audits>>
    PROVE  JobInv(j)'
<1>1. JobInv(j) /\ TypeOK
    BY DEF IndInv, PlaceInv
<1>2. pc'[j] = to
    BY <1>1 DEF TypeOK
<1> USE DEF QueuedPlaces, RunningPlaces, EndPlaces, HandlerPlaces, Goroutine, BeforeRecheck,
            OnTarget, Closing
<1> QED
    BY <1>1, <1>2
    DEF envVars, cancelVars, JobInv, StateAt, RegisteredAt, AuditedAt, CancellerAt, TargetAt,
        CauseAt, RecordAt, Authorized, AuthorizeSession

(* The goroutine keeps the invariant of its job, one step for each place. *)
LEMMA RunInv ==
    ASSUME IndInv, NEW j \in Jobs, Run(j)
    PROVE  JobInv(j)'
<1>1. JobInv(j) /\ TypeOK
    BY DEF IndInv, PlaceInv
<1> USE DEF envVars, cancelVars, QueuedPlaces, RunningPlaces, OnTarget
<1>f. ASSUME Finish(j, "failed", "failure"), pc[j] \in RunningPlaces,
             UNCHANGED <<ctx, jobCancels, canceller, session>>,
             \A b \in AuditActions \ {"anomaly_scan.ai_analyzed"} : audits'[j][b] = audits[j][b]
      PROVE  JobInv(j)'
    BY <1>f, FinishInv DEF Terminal, Errors
<1>s. ASSUME Finish(j, "succeeded", "none"), pc[j] \in RunningPlaces,
             UNCHANGED <<ctx, jobCancels, canceller, session>>,
             \A b \in AuditActions \ {"anomaly_scan.ai_analyzed"} : audits'[j][b] = audits[j][b]
      PROVE  JobInv(j)'
    BY <1>s, FinishInv DEF Terminal, Errors
<1>c. ASSUME FinishOnContext(j), pc[j] \in RunningPlaces,
             UNCHANGED <<ctx, jobCancels, canceller, session>>, UNCHANGED audits
      PROVE  JobInv(j)'
    <2>1. CASE ctx[j] = "cancelled" /\ Finish(j, "cancelled", "cancelled")
        BY <1>c, <2>1, FinishInv DEF Terminal, Errors
    <2>2. CASE Finish(j, "timed_out", "timeout")
        BY <1>c, <2>2, FinishInv DEF Terminal, Errors
    <2> QED
        BY <1>c, <2>1, <2>2 DEF FinishOnContext
<1>2. CASE AuthorizeQueued(j)
    <2>1. CASE Authorized(j)
        BY <1>2, <2>1, MoveInv DEF AuthorizeQueued
    <2>2. CASE ~Authorized(j)
        BY <1>2, <2>2, FinishInv DEF AuthorizeQueued, Terminal, Errors
    <2> QED
        BY <2>1, <2>2
<1>3. CASE CheckContext(j)
    <2>1. CASE ctx[j] = "live"
        BY <1>3, <2>1, MoveInv DEF CheckContext
    <2>2. CASE ctx[j] # "live"
        BY <1>3, <2>2, FinishInv DEF CheckContext, Terminal, Errors
    <2> QED
        BY <2>1, <2>2
<1>4. CASE Start(j)
    <2>1. CanTransition(job[j].state, "running")
        BY <1>1, <1>4 DEF Start, CanTransition, JobInv, StateAt
    <2>2. job'[j] = TransitionJob(job[j], "running") /\ pc'[j] = "running"
        BY <1>1, <1>4, <2>1 DEF Start, TypeOK
    <2>3. job[j] \in JobRecord /\ "running" \in JobStates
        BY <1>1 DEF TypeOK, JobStates
    <2>4. job'[j].state = "running"
        BY <2>2, <2>3, TransitionRecord
    <2> QED
        BY <1>1, <1>4, <2>2, <2>4
        DEF Start, HandlerPlaces, EndPlaces, Goroutine, BeforeRecheck, Closing, JobInv, StateAt,
            RegisteredAt, AuditedAt, CancellerAt, TargetAt, CauseAt, RecordAt
<1>5. CASE ReadHost(j)
    <2>1. CASE host[job[j].host] # "deleted"
        BY <1>5, <2>1, MoveInv DEF ReadHost
    <2>2. CASE ~(host[job[j].host] # "deleted")
        BY <1>f, <1>5, <2>2 DEF ReadHost
    <2> QED
        BY <2>1, <2>2
<1>6. CASE ReadCredential(j)
    <2>1. CASE job[j].host \in credential
        BY <1>6, <2>1, MoveInv DEF ReadCredential
    <2>2. CASE job[j].host \notin credential
        BY <1>f, <1>6, <2>2 DEF ReadCredential
    <2> QED
        BY <2>1, <2>2
<1>7. CASE Reauthorize(j)
    <2>1. CASE Authorized(j)
        BY <1>7, <2>1, MoveInv DEF Reauthorize
    <2>2. CASE ~Authorized(j)
        BY <1>7, <2>2, FinishInv DEF Reauthorize, Terminal, Errors
    <2> QED
        BY <2>1, <2>2
<1>8. CASE OpenCredential(j)
    <2>1. CASE Finish(j, "failed", "failure")
        BY <1>f, <1>8, <2>1 DEF OpenCredential
    <2>2. CASE pc' = [pc EXCEPT ![j] = "dialing"] /\ UNCHANGED job
        <3>1. pc'[j] = "dialing"
            BY <1>1, <2>2 DEF TypeOK
        <3> QED
            BY <1>1, <1>8, <2>2, <3>1
            DEF OpenCredential, HandlerPlaces, EndPlaces, Goroutine, BeforeRecheck, Closing,
                JobInv, StateAt, RegisteredAt, AuditedAt, CancellerAt, TargetAt, CauseAt,
                RecordAt, Authorized, AuthorizeSession
    <2> QED
        BY <1>8, <2>1, <2>2 DEF OpenCredential
<1>9. CASE Dial(j)
    <2>1. CASE Finish(j, "failed", "failure")
        BY <1>f, <1>9, <2>1 DEF Dial
    <2>2. CASE FinishOnContext(j)
        BY <1>c, <1>9, <2>2 DEF Dial
    <2>3. CASE /\ pc' = [pc EXCEPT ![j] = "handshake"]
               /\ remote' = [remote EXCEPT ![j] = "connected"]
               /\ UNCHANGED job
        <3>1. pc'[j] = "handshake" /\ remote'[j] = "connected"
            BY <1>1, <2>3 DEF TypeOK
        <3> QED
            BY <1>1, <1>9, <2>3, <3>1
            DEF Dial, HandlerPlaces, EndPlaces, Goroutine, BeforeRecheck, Closing, JobInv,
                StateAt, RegisteredAt, AuditedAt, CancellerAt, TargetAt, CauseAt, RecordAt,
                Authorized, AuthorizeSession
    <2> QED
        BY <1>9, <2>1, <2>2, <2>3 DEF Dial
<1>10. CASE Handshake(j)
    <2>1. CASE Finish(j, "failed", "failure")
        BY <1>f, <1>10, <2>1 DEF Handshake
    <2>2. CASE pc' = [pc EXCEPT ![j] = "session"] /\ UNCHANGED job
        BY <1>10, <2>2, MoveInv DEF Handshake
    <2> QED
        BY <1>10, <2>1, <2>2 DEF Handshake
<1>11. CASE StartCommand(j)
    <2>1. CASE Finish(j, "failed", "failure")
        BY <1>f, <1>11, <2>1 DEF StartCommand
    <2>2. CASE /\ pc' = [pc EXCEPT ![j] = "executing"]
               /\ remote' = [remote EXCEPT ![j] = "started"]
               /\ UNCHANGED job
        <3>1. pc'[j] = "executing" /\ remote'[j] = "started"
            BY <1>1, <2>2 DEF TypeOK
        <3> QED
            BY <1>1, <1>11, <2>2, <3>1
            DEF StartCommand, HandlerPlaces, EndPlaces, Goroutine, BeforeRecheck, Closing,
                JobInv, StateAt, RegisteredAt, AuditedAt, CancellerAt, TargetAt, CauseAt,
                RecordAt, Authorized, AuthorizeSession
    <2> QED
        BY <1>11, <2>1, <2>2 DEF StartCommand
<1>12. CASE AwaitCommand(j)
    <2>1. CASE Finish(j, "failed", "failure")
        BY <1>f, <1>12, <2>1 DEF AwaitCommand
    <2>2. CASE FinishOnContext(j)
        BY <1>c, <1>12, <2>2 DEF AwaitCommand
    <2>3. CASE pc' = [pc EXCEPT ![j] = "scanned"] /\ UNCHANGED job
        BY <1>12, <2>3, MoveInv DEF AwaitCommand
    <2>4. CASE Finish(j, "succeeded", "none")
        BY <1>s, <1>12, <2>4 DEF AwaitCommand
    <2> QED
        BY <1>12, <2>1, <2>2, <2>3, <2>4 DEF AwaitCommand
<1>13. CASE Analyze(j)
    <2>1. \A b \in AuditActions \ {"anomaly_scan.ai_analyzed"} : audits'[j][b] = audits[j][b]
        BY <1>1, <1>13, AuditEffect DEF Analyze, AuditActions, JobStates, Terminal
    <2>2. CASE Finish(j, "failed", "failure")
        BY <1>f, <1>13, <2>1, <2>2 DEF Analyze
    <2>3. CASE Finish(j, "succeeded", "none")
        BY <1>s, <1>13, <2>1, <2>3 DEF Analyze
    <2> QED
        BY <1>13, <2>2, <2>3 DEF Analyze
<1>14. CASE AuditFinished(j)
    <2>1. pc[j] = "finished" /\ pc'[j] = "unregister"
        BY <1>1, <1>14 DEF AuditFinished, Goto, TypeOK
    <2>2. job[j].state \in JobStates /\ audits[j]["job.finished"] = <<>>
        BY <1>1, <2>1 DEF JobInv, StateAt, EndPlaces, AuditedAt, JobStates
    <2>3. /\ audits'[j]["job.finished"] = <<job[j].state>>
          /\ audits'[j]["job.created"] = audits[j]["job.created"]
          /\ audits'[j]["job.cancel_requested"] = audits[j]["job.cancel_requested"]
        BY <1>1, <1>14, <2>2, AuditEffect DEF AuditFinished, AuditActions
    <2> QED
        BY <1>1, <1>14, <2>1, <2>3
        DEF AuditFinished, HandlerPlaces, EndPlaces, Goroutine, BeforeRecheck, Closing, JobInv,
            StateAt, RegisteredAt, AuditedAt, CancellerAt, TargetAt, CauseAt, RecordAt,
            Authorized, AuthorizeSession
<1>15. CASE Unregister(j)
    <2>1. pc[j] = "unregister" /\ pc'[j] = "done" /\ j \notin jobCancels'
        BY <1>1, <1>15 DEF Unregister, Goto, TypeOK
    <2> QED
        BY <1>1, <1>15, <2>1
        DEF Unregister, HandlerPlaces, EndPlaces, Goroutine, BeforeRecheck, Closing, JobInv,
            StateAt, RegisteredAt, AuditedAt, CancellerAt, TargetAt, CauseAt, RecordAt,
            Authorized, AuthorizeSession
<1> QED
    BY <1>2, <1>3, <1>4, <1>5, <1>6, <1>7, <1>8, <1>9, <1>10, <1>11, <1>12, <1>13, <1>14,
       <1>15 DEF Run

(* The environment only takes authority away. *)
LEMMA EnvironmentInv ==
    ASSUME IndInv, Environment, NEW j \in Jobs
    PROVE  JobInv(j)'
<1>1. JobInv(j) /\ TypeOK
    BY DEF IndInv, PlaceInv
<1>2. UNCHANGED jobVars
    BY DEF Environment, EndSession, PinHostKey, ResetHostKey, DeleteHost, PutCredential,
           DeleteCredential
<1>3. \A s \in Sessions : session'[s] = "active" => session[s] = "active"
    BY <1>1 DEF TypeOK, Environment, EndSession, PinHostKey, ResetHostKey, DeleteHost,
                PutCredential, DeleteCredential
<1>4. job[j].session \in Sessions
    BY <1>1 DEF TypeOK, JobRecord
<1>5. Authorized(j)' => Authorized(j)
    BY <1>2, <1>3, <1>4 DEF Authorized, AuthorizeSession, jobVars
<1> QED
    BY <1>1, <1>2, <1>5
    DEF jobVars, cancelVars, JobInv, StateAt, RegisteredAt, AuditedAt, CancellerAt, TargetAt,
        CauseAt, RecordAt

-----------------------------------------------------------------------------
(* The inductive invariant and the safety properties.                      *)

(* The initial state satisfies the inductive invariant. *)
LEMMA InitInv == Init => IndInv
<1> SUFFICES ASSUME Init PROVE IndInv
    OBVIOUS
<1>1. TypeOK
    BY InitType
<1>2. ASSUME NEW j \in Jobs PROVE JobInv(j)
    <2>1. job[j].state = "absent" /\ job[j].version = 0
        BY DEF Init, NoJob
    <2>2. audits[j]["job.finished"] = <<>> /\ audits[j]["job.cancel_requested"] = <<>>
        BY DEF Init, AuditActions
    <2> QED
        BY <2>1, <2>2
        DEF Init, QueuedPlaces, RunningPlaces, EndPlaces, HandlerPlaces, Goroutine,
            BeforeRecheck, OnTarget, Closing, JobInv, StateAt, RegisteredAt, AuditedAt,
            CancellerAt, TargetAt, CauseAt, RecordAt
<1> QED
    BY <1>1, <1>2 DEF IndInv, PlaceInv

(* Every step of any process keeps the inductive invariant. *)
LEMMA NextInv == IndInv /\ [Next]_vars => IndInv'
<1> SUFFICES ASSUME IndInv, [Next]_vars PROVE IndInv'
    OBVIOUS
<1>1. TypeOK'
    BY NextType DEF IndInv
<1>2. ASSUME NEW j \in Jobs, StepOf(j), NEW i \in Jobs PROVE JobInv(i)'
    <2>1. CASE i = j
        BY <1>2, <2>1, HandlerInv, RunInv, CancelInv DEF StepOf
    <2>2. CASE i # j
        <3>1. JobInv(i) /\ Same(i)
            BY <1>2, <2>2, OtherJobsSame DEF IndInv, PlaceInv
        <3> QED
            BY <3>1, SameInv
    <2> QED
        BY <2>1, <2>2
<1>3. CASE UNCHANGED vars
    <2>1. ASSUME NEW i \in Jobs PROVE JobInv(i)'
        BY <1>3, SameInv DEF IndInv, PlaceInv, vars, Same
    <2> QED
        BY <1>1, <2>1 DEF IndInv, PlaceInv
<1>4. CASE Environment
    BY <1>1, <1>4, EnvironmentInv DEF IndInv, PlaceInv
<1> QED
    BY <1>1, <1>2, <1>3, <1>4 DEF Next, StepOf, IndInv, PlaceInv

(* The inductive invariant, which ties the place of every goroutine to its *)
(* job record, its cancel function and its audit trail, holds in every     *)
(* behaviour.                                                              *)
THEOREM Invariance == Spec => []IndInv
BY InitInv, NextInv, PTL DEF Spec

(* Every variable stays in its range, for any number of jobs, hosts and    *)
(* sessions.                                                               *)
THEOREM TypeCorrect == Spec => []TypeOK
<1>1. IndInv => TypeOK
    BY DEF IndInv
<1> QED
    BY <1>1, Invariance, PTL

(* runSnapshotJob and finishOperationJob audit each end exactly once, with *)
(* the state that was stored, however their steps interleave with          *)
(* cancelJob and with other jobs.                                          *)
THEOREM AuditTrailCorrect == Spec => []FinishAuditedOnce
<1>1. IndInv => FinishAuditedOnce
    BY DEF IndInv, PlaceInv, JobInv, StateAt, EndPlaces, AuditedAt, FinishAuditedOnce
<1> QED
    BY <1>1, Invariance, PTL

(* The cancel table covers every open job with a goroutine and nothing     *)
(* else.                                                                   *)
THEOREM CancelTableCorrect == Spec => []OpenJobsAreCancellable
<1>1. IndInv => OpenJobsAreCancellable
    BY DEF IndInv, PlaceInv, JobInv, RegisteredAt, OpenJobsAreCancellable
<1> QED
    BY <1>1, Invariance, PTL

(* No job is reported cancelled without a lost authorization or a done     *)
(* context.                                                                *)
THEOREM CancellationJustified == Spec => []CancellationHasCause
<1>1. IndInv => CancellationHasCause
    BY DEF IndInv, PlaceInv, JobInv, CauseAt, CancellationHasCause
<1> QED
    BY <1>1, Invariance, PTL

(* cancelJob leaves "job.cancel_requested" only for created jobs whose     *)
(* context it or the deadline stopped.                                     *)
THEOREM CancelRecordCorrect == Spec => []CancelRecordIsConsistent
<1>1. IndInv => CancelRecordIsConsistent
    BY DEF IndInv, PlaceInv, JobInv, RecordAt, CancelRecordIsConsistent
<1> QED
    BY <1>1, Invariance, PTL

-----------------------------------------------------------------------------
(* The jobs implement the abstract state machine.                          *)

(* What one step of its own does to the stored state and version of a job. *)
Moves(j) ==
    \/ job'[j].state = job[j].state /\ job'[j].version = job[j].version
    \/ /\ job[j].state = "absent"
       /\ job'[j].state = "queued" /\ job'[j].version = 1
    \/ \E to \in JobStates :
          /\ CanTransition(job[j].state, to)
          /\ job'[j].state = to /\ job'[j].version = job[j].version + 1

(* A step leaves the stored state and version of a job alone, creates the  *)
(* job, or moves it along CanTransition and counts the move.               *)
LEMMA StepMoves ==
    ASSUME IndInv, NEW j \in Jobs, StepOf(j)
    PROVE  Moves(j)
<1>1. StateAt(j) /\ TypeOK /\ job[j] \in JobRecord
    BY DEF IndInv, PlaceInv, JobInv, TypeOK
<1> USE DEF envVars, cancelVars, Goto
<1>f. ASSUME NEW to \in Terminal, NEW error \in Errors, Finish(j, to, error),
             \/ pc[j] \in QueuedPlaces /\ to = "cancelled"
             \/ pc[j] \in RunningPlaces
      PROVE  Moves(j)
    <2>1. to \in JobStates
        BY DEF JobStates
    <2> QED
        BY <1>1, <1>f, <2>1, FinishEffect DEF Moves
<1>2. ASSUME NEW k \in Kinds, NEW h \in Hosts, NEW s \in Sessions, Request(j, k, h, s)
      PROVE  Moves(j)
    <2>1. job'[j] = [job[j] EXCEPT !.kind = k, !.host = h, !.session = s]
        BY <1>1, <1>2 DEF Request, TypeOK
    <2> QED
        BY <1>1, <2>1 DEF Moves, JobRecord
<1>3. CASE CreateJob(j)
    <2>1. job'[j] = [job[j] EXCEPT !.state = "queued", !.version = 1]
        BY <1>1, <1>3 DEF CreateJob, TypeOK
    <2> QED
        BY <1>1, <1>3, <2>1 DEF CreateJob, StateAt, Moves, JobRecord
<1>4. CASE Start(j)
    <2>1. "running" \in JobStates
        BY DEF JobStates
    <2>2. \/ UNCHANGED job
          \/ /\ CanTransition(job[j].state, "running")
             /\ job'[j] = TransitionJob(job[j], "running")
        BY <1>1, <1>4 DEF Start, TypeOK
    <2> QED
        BY <1>1, <2>1, <2>2, TransitionRecord DEF Moves
<1>5. CASE Run(j) /\ ~Start(j)
    <2> USE DEF QueuedPlaces, RunningPlaces, Terminal, Errors
    <2>1. CASE AuthorizeQueued(j) \/ CheckContext(j) \/ Reauthorize(j)
        BY <1>f, <2>1 DEF AuthorizeQueued, CheckContext, Reauthorize, Moves
    <2>2. CASE ReadHost(j) \/ ReadCredential(j) \/ OpenCredential(j)
        BY <1>f, <2>2 DEF ReadHost, ReadCredential, OpenCredential, Moves
    <2>3. CASE FinishOnContext(j) /\ pc[j] \in RunningPlaces
        BY <1>f, <2>3 DEF FinishOnContext
    <2>4. CASE Dial(j) \/ Handshake(j) \/ StartCommand(j)
        BY <1>f, <2>3, <2>4 DEF Dial, Handshake, StartCommand, Moves
    <2>5. CASE AwaitCommand(j) \/ Analyze(j)
        BY <1>f, <2>3, <2>5 DEF AwaitCommand, Analyze, Moves
    <2>6. CASE AuditFinished(j) \/ Unregister(j)
        BY <2>6 DEF AuditFinished, Unregister, Moves
    <2> QED
        BY <1>5, <2>1, <2>2, <2>4, <2>5, <2>6 DEF Run
<1>6. CASE (Handler(j) /\ ~CreateJob(j)) \/ Deadline(j) \/ CancelRead(j) \/ Cancel(j)
    BY <1>6 DEF Handler, CheckCredential, AuditCreated, Spawn, Deadline, CancelRead, Cancel,
                CancelLookup, CancelContext, CancelAudit, Moves
<1> QED
    BY <1>2, <1>3, <1>4, <1>5, <1>6 DEF StepOf

(* Every job of startAuthorizedJob, runSnapshotJob and finishOperationJob  *)
(* moves through the table of CanTransition and no other way, and its      *)
(* version counts the moves.                                               *)
THEOREM Refinement == Spec => ImplementsStateMachine
<1> USE DEF StateMachine!Init, StateMachine!Next, StateMachine!Create,
            StateMachine!Transition, StateMachine!smVars
<1>1. Init => StateMachine!Init
    <2> SUFFICES ASSUME Init PROVE StateMachine!Init
        OBVIOUS
    <2>1. \A j \in Jobs : job[j].state = "absent" /\ job[j].version = 0
        BY DEF Init, NoJob
    <2> QED
        BY <2>1
<1>2. IndInv /\ [Next]_vars => [StateMachine!Next]_StateMachine!smVars
    <2> SUFFICES ASSUME IndInv, [Next]_vars
                 PROVE  [StateMachine!Next]_StateMachine!smVars
        OBVIOUS
    <2>1. ASSUME NEW j \in Jobs, StepOf(j)
          PROVE  [StateMachine!Next]_StateMachine!smVars
        <3>1. \A i \in Jobs \ {j} : job'[i] = job[i]
            BY <2>1, OtherJobsSame DEF IndInv, Same
        <3>2. Moves(j)
            BY <2>1, StepMoves
        <3> DEFINE state == [i \in Jobs |-> job[i].state]
                   version == [i \in Jobs |-> job[i].version]
        <3>3. CASE job'[j].state = job[j].state /\ job'[j].version = job[j].version
            BY <3>1, <3>3
        <3>4. CASE job[j].state = "absent" /\ job'[j].state = "queued" /\ job'[j].version = 1
            <4>1. StateMachine!Create(j)
                BY <3>1, <3>4
            <4> QED
                BY <4>1
        <3>5. ASSUME NEW to \in JobStates, CanTransition(job[j].state, to),
                     job'[j].state = to, job'[j].version = job[j].version + 1
              PROVE  [StateMachine!Next]_StateMachine!smVars
            <4>1. StateMachine!Transition(j, to)
                BY <3>1, <3>5 DEF StateMachine!CanTransition, StateMachine!Terminal, CanTransition, Terminal
            <4> QED
                BY <4>1 DEF StateMachine!JobStates, StateMachine!Terminal, JobStates, Terminal
        <3> QED
            BY <3>2, <3>3, <3>4, <3>5 DEF Moves
    <2>2. CASE UNCHANGED job
        BY <2>2
    <2>3. Environment => UNCHANGED job
        BY DEF Environment, EndSession, PinHostKey, ResetHostKey, DeleteHost, PutCredential,
               DeleteCredential, jobVars
    <2> QED
        BY <2>1, <2>2, <2>3 DEF Next, StepOf, vars
<1> QED
    BY <1>1, <1>2, Invariance, PTL DEF Spec, ImplementsStateMachine, StateMachine!Spec

-----------------------------------------------------------------------------
(* What an early revocation and an early cancellation prevent.  Each needs *)
(* a predicate that is stable once it holds.                               *)

(* The session is gone and the goroutine has not passed its second check,  *)
(* or is closing.                                                          *)
RevokedInTime(j) ==
    /\ session[job[j].session] = "ended"
    /\ pc[j] \in BeforeRecheck \cup Closing \cup {"done"}
    /\ ~opened[j]
    /\ remote[j] = "untouched"

(* A job whose session ended before its second check stays away from the   *)
(* credential and the target, whatever happens next.                       *)
LEMMA RevokedInTimeStable ==
    ASSUME IndInv, NEW j \in Jobs, RevokedInTime(j), [Next]_vars
    PROVE  RevokedInTime(j)'
<1>1. TypeOK /\ job[j] \in JobRecord /\ job[j].session \in Sessions
    BY DEF IndInv, TypeOK, JobRecord
<1> USE DEF envVars, cancelVars, Goto, RevokedInTime, BeforeRecheck, Closing
<1>f. ASSUME NEW to \in Terminal, NEW error \in Errors, Finish(j, to, error),
             UNCHANGED <<opened, remote, session>>
      PROVE  RevokedInTime(j)'
    <2>1. CASE CanTransition(job[j].state, to)
        <3>1. job'[j] = FinishedJob(job[j], to, error) /\ pc'[j] = "finished"
            BY <1>1, <1>f, <2>1 DEF Finish, TypeOK
        <3>2. to \in JobStates
            BY DEF JobStates
        <3>3. job'[j].session = job[j].session
            BY <1>1, <3>1, <3>2, FinishRecord
        <3> QED
            BY <1>f, <3>1, <3>3
    <2>2. CASE ~CanTransition(job[j].state, to)
        <3>1. UNCHANGED job /\ pc'[j] = "unregister"
            BY <1>1, <1>f, <2>2 DEF Finish, TypeOK
        <3> QED
            BY <1>f, <3>1
    <2> QED
        BY <2>1, <2>2
<1>2. CASE Run(j)
    <2>1. ~Authorized(j)
        BY DEF Authorized, AuthorizeSession
    <2>2. CASE Start(j)
        <3>1. "running" \in JobStates
            BY DEF JobStates
        <3>2. job'[j] = job[j] \/ job'[j] = TransitionJob(job[j], "running")
            BY <1>1, <2>2 DEF Start, TypeOK
        <3>3. job'[j].session = job[j].session
            BY <1>1, <3>1, <3>2, TransitionRecord
        <3> QED
            BY <1>1, <2>2, <3>3 DEF Start, TypeOK
    <2>3. CASE AuthorizeQueued(j) \/ Reauthorize(j)
        BY <1>f, <2>1, <2>3 DEF AuthorizeQueued, Reauthorize, Terminal, Errors
    <2>4. CASE CheckContext(j)
        BY <1>1, <1>f, <2>4 DEF CheckContext, TypeOK, Terminal, Errors
    <2>5. CASE ReadHost(j) \/ ReadCredential(j)
        BY <1>1, <1>f, <2>5 DEF ReadHost, ReadCredential, TypeOK, Terminal, Errors
    <2>6. CASE AuditFinished(j) \/ Unregister(j)
        BY <1>1, <2>6 DEF AuditFinished, Unregister, TypeOK
    <2> QED
        BY <1>2, <2>2, <2>3, <2>4, <2>5, <2>6
        DEF Run, OpenCredential, Dial, Handshake, StartCommand, AwaitCommand, Analyze
<1>3. ASSUME NEW i \in Jobs, StepOf(i), i # j PROVE RevokedInTime(j)'
    BY <1>1, <1>3, OtherJobsSame DEF Same
<1>4. CASE StepOf(j) /\ ~Run(j)
    <2>1. UNCHANGED <<job, pc, opened, remote, session>>
        BY <1>1, <1>4
        DEF StepOf, Request, Handler, CheckCredential, CreateJob, AuditCreated, Spawn,
            Deadline, CancelRead, Cancel, CancelLookup, CancelContext, CancelAudit
    <2> QED
        BY <2>1
<1>5. CASE Environment
    <2>1. UNCHANGED jobVars
        BY <1>5 DEF Environment, EndSession, PinHostKey, ResetHostKey, DeleteHost,
                    PutCredential, DeleteCredential
    <2>2. \A s \in Sessions : session[s] = "ended" => session'[s] = "ended"
        BY <1>1, <1>5 DEF TypeOK, Environment, EndSession, PinHostKey, ResetHostKey,
                          DeleteHost, PutCredential, DeleteCredential
    <2> QED
        BY <1>1, <2>1, <2>2 DEF jobVars
<1>6. CASE UNCHANGED vars
    BY <1>6 DEF vars
<1> QED
    BY <1>2, <1>3, <1>4, <1>5, <1>6 DEF Next, StepOf

(* The second AuthorizeSession, right before the credential is decrypted,  *)
(* stops every job whose session ended by then.                            *)
THEOREM RevocationIsEffective == Spec => RevocationStopsExecution
<1>1. ASSUME NEW j \in Jobs
      PROVE  Spec => [](session[job[j].session] = "ended" /\ pc[j] \in BeforeRecheck
                            => [](~opened[j] /\ remote[j] = "untouched"))
    <2>1. IndInv /\ session[job[j].session] = "ended" /\ pc[j] \in BeforeRecheck
            => RevokedInTime(j)
        BY DEF IndInv, PlaceInv, JobInv, TargetAt, RevokedInTime
    <2>2. IndInv /\ RevokedInTime(j) /\ [Next]_vars => RevokedInTime(j)'
        BY RevokedInTimeStable
    <2>3. RevokedInTime(j) => ~opened[j] /\ remote[j] = "untouched"
        BY DEF RevokedInTime
    <2> QED
        BY <2>1, <2>2, <2>3, Invariance, PTL DEF Spec
<1> QED
    BY <1>1 DEF RevocationStopsExecution

(* The context is done and the target has not been reached. *)
StoppedInTime(j) == ctx[j] # "live" /\ remote[j] = "untouched"

(* A job whose context is done before it dials stays away from the target. *)
LEMMA StoppedInTimeStable ==
    ASSUME IndInv, NEW j \in Jobs, StoppedInTime(j), [Next]_vars
    PROVE  StoppedInTime(j)'
<1>1. TypeOK /\ TargetAt(j)
    BY DEF IndInv, PlaceInv, JobInv
<1> USE DEF envVars, cancelVars, StoppedInTime
<1>2. CASE Run(j)
    <2>1. CASE StartCommand(j)
        BY <1>1, <2>1 DEF StartCommand, TargetAt, OnTarget
    <2>2. CASE ~StartCommand(j)
        <3>1. UNCHANGED <<ctx, remote>>
            BY <1>2, <2>2
            DEF Run, AuthorizeQueued, CheckContext, Start, ReadHost, ReadCredential,
                Reauthorize, OpenCredential, Dial, Handshake, AwaitCommand, Analyze,
                AuditFinished, Unregister
        <3> QED
            BY <3>1
    <2> QED
        BY <2>1, <2>2
<1>3. ASSUME NEW i \in Jobs, StepOf(i), i # j PROVE StoppedInTime(j)'
    BY <1>1, <1>3, OtherJobsSame DEF Same
<1>4. CASE StepOf(j) /\ ~Run(j)
    <2>1. ctx'[j] # "live" /\ UNCHANGED remote
        BY <1>1, <1>4
        DEF TypeOK, StepOf, Request, Handler, CheckCredential, CreateJob, AuditCreated, Spawn,
            Deadline, CancelRead, Cancel, CancelLookup, CancelContext, CancelAudit
    <2> QED
        BY <2>1
<1>5. CASE Environment
    BY <1>5 DEF Environment, EndSession, PinHostKey, ResetHostKey, DeleteHost, PutCredential,
                DeleteCredential, jobVars
<1>6. CASE UNCHANGED vars
    BY <1>6 DEF vars
<1> QED
    BY <1>2, <1>3, <1>4, <1>5, <1>6 DEF Next, StepOf

(* DialContext is given the job's context: a cancel or a deadline that     *)
(* comes before the dial keeps the job away from the target for good.      *)
THEOREM EarlyCancelIsEffective == Spec => CancelBeforeDialStopsExecution
<1>1. ASSUME NEW j \in Jobs
      PROVE  Spec => [](ctx[j] # "live" /\ remote[j] = "untouched"
                            => [](remote[j] = "untouched"))
    <2>1. ctx[j] # "live" /\ remote[j] = "untouched" <=> StoppedInTime(j)
        BY DEF StoppedInTime
    <2>2. IndInv /\ StoppedInTime(j) /\ [Next]_vars => StoppedInTime(j)'
        BY StoppedInTimeStable
    <2>3. StoppedInTime(j) => remote[j] = "untouched"
        BY DEF StoppedInTime
    <2> QED
        BY <2>1, <2>2, <2>3, Invariance, PTL DEF Spec
<1> QED
    BY <1>1 DEF CancelBeforeDialStopsExecution
=============================================================================
