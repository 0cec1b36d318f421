------------------------- MODULE RunbookFlow_proofs -------------------------
(***************************************************************************)
(* Proofs about RunbookFlow, for every set of requests, jobs and bindings  *)
(* and every number of restarts of the Connector.                          *)
(*                                                                         *)
(* Every step of the flow is a step of the Connector or leaves it alone,   *)
(* so the invariant of RunbookLedger carries over.  The rest of the        *)
(* inductive invariant says how far the job of a request has come when the *)
(* request is at a given place of its handler and of the Connector: a      *)
(* request that began an execution took its job out of awaiting_approval,  *)
(* where no job ever returns to.                                           *)
(***************************************************************************)
EXTENDS RunbookFlow, RunbookLedger_proofs

(* The preview of a job is the only writer of the job until it is closed. *)
PreviewInv ==
    \A j \in Jobs :
        /\ previewer[j] \in {"idle", "hostRead"} => job[j].state = "absent"
        /\ previewer[j] = "created" => job[j].state = "queued"
        /\ previewer[j] = "previewing" => job[j].state = "running"
        /\ previewer[j] = "closed" => job[j].state # "queued"

(* r has moved its job out of awaiting_approval and is not done with it,   *)
(* or has reached the Connector.                                           *)
Began(r) ==
    \/ handler[r] \in {"started", "waiting", "unsent", "lost", "received", "abandoned"}
    \/ place[r] # "idle"

(* Where the handler of r, its call of the Connector and its job are. *)
ApprovalAt(r) ==
    /\ handler[r] # "idle" => previewer[asks[r]] = "closed" /\ job[asks[r]].state # "absent"
    /\ place[r] # "idle" =>
          handler[r] \in {"waiting", "lost", "abandoned", "received", "unsent", "closed"}
    /\ Began(r) => job[asks[r]].state \in {"running"} \cup Terminal
    /\ handler[r] = "received" => place[r] = "answered" /\ answer[r] \in {"result", "replay"}

ApprovalInv == \A r \in Requests : ApprovalAt(r)

(* One request per job gets past StartExecution. *)
BeganOnce ==
    \A r1, r2 \in Requests : Began(r1) /\ Began(r2) /\ asks[r1] = asks[r2] => r1 = r2

(* What a started plan, an outcome and an answer say of each other. *)
ExecutionAt(r) ==
    /\ r \in everRan => /\ place[r] \in {"executing", "executed", "answered", "killed"}
                        /\ answer[r] \in {"none", "result", "panic"}
    /\ place[r] \in {"executing", "executed"} => r \in everRan
    /\ place[r] \in {"idle", "validated", "executing"} => outcome[r] = "none"
    /\ outcome[r] # "none" => r \in everRan
    /\ outcome[r] = "succeeded" => progress[r] = Steps
    /\ answer[r] = "result" => source[r] = {r}

ExecutionInv == \A r \in Requests : ExecutionAt(r)

(* What the Connector took in is what was approved and sent. *)
BindingAt(r) ==
    place[r] # "idle" /\ answer[r] \notin {"busy", "refused"} =>
        /\ jobOf[r] = asks[r] /\ scopeOf[r] = binding[asks[r]]
        /\ SSHMaterialMatches(r)

BindingInv == \A r \in Requests : BindingAt(r)

FlowInv ==
    /\ LedgerInv
    /\ FlowTypeOK
    /\ PreviewInv
    /\ ApprovalInv
    /\ BeganOnce
    /\ ExecutionInv
    /\ BindingInv
    /\ SucceededMeansExecuted
    /\ ClosedOnce

-----------------------------------------------------------------------------
(* Job records. *)

JobRecord == [state : JobStates \cup {"absent"}, version : Nat, started : BOOLEAN,
              finished : BOOLEAN]

(* A transition yields a job record with the new state and the next        *)
(* version.                                                                *)
LEMMA TransitionRecord ==
    ASSUME NEW r \in JobRecord, NEW to \in JobStates
    PROVE  /\ TransitionJob(r, to) \in JobRecord
           /\ TransitionJob(r, to).state = to
           /\ TransitionJob(r, to).version = r.version + 1
<1> DEFINE v == r.version + 1
           started == r.started \/ to = "running"
           finished == r.finished \/ to \in Terminal
<1>1. v \in Nat
    BY DEF JobRecord
<1>2. started \in BOOLEAN /\ finished \in BOOLEAN
    OBVIOUS
<1>3. TransitionJob(r, to) = [r EXCEPT !.state = to, !.version = v, !.started = started,
                                       !.finished = finished]
    BY DEF TransitionJob
<1>4. TransitionJob(r, to) \in JobRecord
    <2> HIDE DEF v, started, finished
    <2> QED
        BY <1>1, <1>2, <1>3 DEF JobRecord
<1> QED
    BY <1>4 DEF TransitionJob, JobRecord

(* A new job, queued at version 1, is a job record. *)
LEMMA CreateRecord ==
    ASSUME NEW r \in JobRecord
    PROVE  /\ [r EXCEPT !.state = "queued", !.version = 1] \in JobRecord
           /\ [r EXCEPT !.state = "queued", !.version = 1].state = "queued"
           /\ [r EXCEPT !.state = "queued", !.version = 1].version = 1
BY DEF JobRecord, JobStates

(* What a step may do to job j and its closing events: nothing, create it, *)
(* or move it along CanTransition, with one event if that ends it.         *)
Event == {"runbook.failed", "runbook.executed"}

Kept(j) == job'[j] = job[j] /\ closings'[j] = closings[j]

Created(j) ==
    /\ previewer[j] = "hostRead"
    /\ job'[j] = [job[j] EXCEPT !.state = "queued", !.version = 1]
    /\ closings'[j] = closings[j]

Moved(j, to) ==
    /\ CanTransition(job[j].state, to)
    /\ job'[j] = TransitionJob(job[j], to)
    /\ IF to \in Terminal THEN \E e \in Event : closings'[j] = Append(closings[j], e)
       ELSE closings'[j] = closings[j]

(* The step writes job j alone. *)
Touches(j) ==
    /\ Kept(j) \/ Created(j) \/ \E to \in JobStates : Moved(j, to)
    /\ \A i \in Jobs \ {j} : Kept(i)
    /\ job' = [i \in Jobs |-> job'[i]] /\ closings' = [i \in Jobs |-> closings'[i]]

(* failRunbookJob moves a running job to failed, or does nothing. *)
LEMMA FailMoves ==
    ASSUME FlowTypeOK, NEW j \in Jobs, FailRunbookJob(j)
    PROVE  Touches(j)
<1>1. CASE job[j].state = "running"
    <2>1. Moved(j, "failed")
        BY <1>1 DEF FailRunbookJob, FlowTypeOK, Moved, CanTransition, Terminal, Event
    <2> QED
        BY <1>1, <2>1 DEF FailRunbookJob, FlowTypeOK, Touches, Kept, JobStates, Terminal
<1>2. CASE job[j].state # "running"
    BY <1>2 DEF FailRunbookJob, FlowTypeOK, Touches, Kept
<1> QED
    BY <1>1, <1>2

(* previewRunbook writes its own job. *)
LEMMA PreviewMoves ==
    ASSUME FlowTypeOK, NEW j \in Jobs, Preview(j)
    PROVE  Touches(j)
<1>1. CASE PreviewCreate(j)
    <2>1. CASE UNCHANGED job
        BY <1>1, <2>1 DEF PreviewCreate, FlowTypeOK, Touches, Kept
    <2>2. CASE ~UNCHANGED job
        <3> DEFINE new == [job[j] EXCEPT !.state = "queued", !.version = 1]
        <3>1. job' = [job EXCEPT ![j] = new]
            BY <1>1, <2>2 DEF PreviewCreate
        <3> HIDE DEF new
        <3>2. job'[j] = new /\ UNCHANGED closings /\ previewer[j] = "hostRead"
            BY <1>1, <3>1 DEF PreviewCreate, FlowTypeOK
        <3>3. Created(j)
            BY <3>2 DEF Created, new
        <3>4. \A i \in Jobs \ {j} : Kept(i)
            BY <3>1, <3>2 DEF FlowTypeOK, Kept
        <3>5. job' = [i \in Jobs |-> job'[i]] /\ closings' = [i \in Jobs |-> closings'[i]]
            BY <3>1, <3>2 DEF FlowTypeOK
        <3> QED
            BY <3>3, <3>4, <3>5 DEF Touches
    <2> QED
        BY <2>1, <2>2
<1>2. CASE PreviewStart(j)
    <2>1. CASE CanTransition(job[j].state, "running")
        <3>1. Moved(j, "running")
            BY <1>2, <2>1 DEF PreviewStart, FlowTypeOK, Moved, Terminal
        <3> QED
            BY <1>2, <2>1, <3>1 DEF PreviewStart, FlowTypeOK, Touches, Kept, JobStates
    <2>2. CASE ~CanTransition(job[j].state, "running")
        BY <1>2, <2>2 DEF PreviewStart, FlowTypeOK, Touches, Kept
    <2> QED
        BY <2>1, <2>2
<1>3. CASE PreviewResult(j)
    <2>1. CASE FailRunbookJob(j)
        BY <2>1, FailMoves
    <2>2. CASE ~FailRunbookJob(j) /\ CanTransition(job[j].state, "awaiting_approval")
        <3>1. Moved(j, "awaiting_approval")
            BY <1>3, <2>2 DEF PreviewResult, FlowTypeOK, Moved, Terminal
        <3> QED
            BY <1>3, <2>2, <3>1 DEF PreviewResult, FlowTypeOK, Touches, Kept, JobStates
    <2>3. CASE ~FailRunbookJob(j) /\ ~CanTransition(job[j].state, "awaiting_approval")
        BY <1>3, <2>3 DEF PreviewResult, FlowTypeOK, Touches, Kept
    <2> QED
        BY <2>1, <2>2, <2>3
<1> QED
    BY <1>1, <1>2, <1>3 DEF Preview

(* executeRunbook writes the job its request asks for. *)
LEMMA ExecuteMoves ==
    ASSUME FlowTypeOK, NEW r \in Requests, Execute(r)
    PROVE  Touches(asks[r])
<1> DEFINE j == asks[r]
<1>1. j \in Jobs
    BY DEF FlowTypeOK
<1> HIDE DEF j
<1>2. CASE ReadHost(r) \/ ReadCredential(r) \/ Send(r) \/ GiveUp(r) \/ Receive(r)
    BY <1>1, <1>2
    DEF ReadHost, ReadCredential, Send, GiveUp, Receive, FlowTypeOK, Touches, Kept, j
<1>3. CASE StartExecution(r)
    <2>1. CASE CanTransition(job[j].state, "running")
        <3>1. Moved(j, "running")
            BY <1>1, <1>3, <2>1 DEF StartExecution, FlowTypeOK, Moved, Terminal, j
        <3> QED
            BY <1>1, <1>3, <2>1, <3>1 DEF StartExecution, FlowTypeOK, Touches, Kept, JobStates, j
    <2>2. CASE ~CanTransition(job[j].state, "running")
        BY <1>1, <1>3, <2>2 DEF StartExecution, FlowTypeOK, Touches, Kept, j
    <2> QED
        BY <2>1, <2>2
<1>4. CASE StoreResult(r)
    <2>1. ResultState(r) \in Terminal /\ ResultState(r) \in JobStates
        BY DEF ResultState, Terminal, JobStates
    <2>2. CASE CanTransition(job[j].state, ResultState(r))
        <3>1. Moved(j, ResultState(r))
            BY <1>1, <1>4, <2>1, <2>2 DEF StoreResult, FlowTypeOK, Moved, Event, j
        <3> QED
            BY <1>1, <1>4, <2>1, <2>2, <3>1 DEF StoreResult, FlowTypeOK, Touches, Kept, j
    <2>3. CASE ~CanTransition(job[j].state, ResultState(r))
        BY <1>1, <1>4, <2>3 DEF StoreResult, FlowTypeOK, Touches, Kept, j
    <2> QED
        BY <2>2, <2>3
<1>5. CASE Fail(r)
    BY <1>1, <1>5, FailMoves DEF Fail, j
<1> QED
    BY <1>2, <1>3, <1>4, <1>5 DEF Execute, j

(* Every step writes at most one job, and that in one of the three ways. *)
LEMMA StepMoves ==
    ASSUME FlowTypeOK, [Next]_vars
    PROVE  \E j \in Jobs : Touches(j)
<1>1. CASE UNCHANGED <<job, closings>>
    <2>1. \A j \in Jobs : Touches(j)
        BY <1>1 DEF Touches, Kept, FlowTypeOK
    <2> QED
        BY <2>1, LedgerConstants
<1>2. ASSUME NEW j \in Jobs, Preview(j) PROVE \E i \in Jobs : Touches(i)
    BY <1>2, PreviewMoves
<1>3. ASSUME NEW r \in Requests, Execute(r) PROVE \E i \in Jobs : Touches(i)
    <2>1. asks[r] \in Jobs
        BY DEF FlowTypeOK
    <2> QED
        BY <1>3, <2>1, ExecuteMoves
<1> QED
    BY <1>1, <1>2, <1>3
    DEF Next, PreviewRequest, EndSession, ExecuteCheck, Deliver, Connector, RestartConnector,
        ChangeHost, ChangeCredential, flowVars, vars, envOfExecute

-----------------------------------------------------------------------------
(* The Connector inside the flow. *)

(* Every step of the flow is a step of RunbookLedger or leaves it alone. *)
LEMMA StepLedger ==
    ASSUME FlowTypeOK, [Next]_vars
    PROVE  [LedgerNext]_ledgerVars
<1>1. ASSUME NEW r \in Requests, Deliver(r) PROVE LedgerNext
    <2>1. asks[r] \in Jobs /\ binding[asks[r]] \in Scopes
        BY DEF FlowTypeOK
    <2> QED
        BY <1>1, <2>1 DEF Deliver, LedgerNext
<1>2. ASSUME NEW r \in Requests, Connector(r) PROVE LedgerNext
    BY <1>2 DEF Connector, LedgerNext
<1>3. CASE RestartConnector
    BY <1>3 DEF RestartConnector, LedgerNext
<1>4. ASSUME NEW j \in Jobs, PreviewRequest(j) \/ Preview(j) \/ EndSession(j)
      PROVE  UNCHANGED ledgerVars
    BY <1>4 DEF PreviewRequest, Preview, PreviewCreate, PreviewStart, PreviewResult,
                EndSession, ledgerVars
<1>5. ASSUME NEW r \in Requests, Execute(r) \/ \E j \in Jobs, s \in Scopes : ExecuteCheck(r, j, s)
      PROVE  UNCHANGED ledgerVars
    BY <1>5 DEF ExecuteCheck, Execute, ReadHost, ReadCredential, StartExecution, Send, GiveUp,
                Receive, StoreResult, Fail, ledgerVars
<1>6. CASE ChangeHost \/ ChangeCredential \/ UNCHANGED vars
    BY <1>6 DEF ChangeHost, ChangeCredential, vars, ledgerVars
<1> QED
    BY <1>1, <1>2, <1>3, <1>4, <1>5, <1>6 DEF Next

-----------------------------------------------------------------------------
(* The type invariant. *)

(* An arbitrary binding, and its parts. *)
LEMMA AnyScopeType ==
    /\ AnyScope \in Scopes
    /\ AnyScope.target \in Targets /\ AnyScope.key \in Keys /\ AnyScope.cred \in Creds
<1>1. AnyScope \in Scopes
    BY LedgerConstants DEF AnyScope
<1> QED
    BY <1>1, ScopesAssumption

(* The initial state satisfies the invariant. *)
LEMMA FlowInit == Init => FlowInv
<1> SUFFICES ASSUME Init PROVE FlowInv
    OBVIOUS
<1>1. LedgerInv
    BY LedgerInitInv DEF Init
<1>2. FlowTypeOK
    <2>1. (CHOOSE j \in Jobs : TRUE) \in Jobs
        BY LedgerConstants
    <2>2. NoJob \in [state : JobStates \cup {"absent"}, version : Nat, started : BOOLEAN,
                     finished : BOOLEAN]
        BY DEF NoJob
    <2>3. closings \in [Jobs -> Seq({"runbook.failed", "runbook.executed"})]
        BY DEF Init
    <2> QED
        BY <1>1, <2>1, <2>2, <2>3, AnyScopeType DEF Init, FlowTypeOK, LedgerInv
<1>3. \A j \in Jobs : job[j].state = "absent" /\ Len(closings[j]) = 0 /\ previewer[j] = "idle"
    BY DEF Init, NoJob
<1>4. \A r \in Requests : /\ handler[r] = "idle" /\ place[r] = "idle" /\ answer[r] = "none"
                          /\ outcome[r] = "none" /\ ~Began(r) /\ r \notin everRan
    BY DEF Init, LedgerInit, Began
<1>5. PreviewInv /\ ApprovalInv /\ BeganOnce /\ ExecutionInv /\ BindingInv
    BY <1>3, <1>4 DEF PreviewInv, ApprovalInv, ApprovalAt, BeganOnce, ExecutionInv,
                      ExecutionAt, BindingInv, BindingAt
<1>6. SucceededMeansExecuted /\ ClosedOnce
    BY <1>3 DEF SucceededMeansExecuted, ClosedOnce, Terminal
<1> QED
    BY <1>1, <1>2, <1>5, <1>6 DEF FlowInv

(* A step that writes one job keeps the table and the audit log typed. *)
LEMMA TouchesType ==
    ASSUME FlowTypeOK, NEW j \in Jobs, Touches(j)
    PROVE  job' \in [Jobs -> JobRecord] /\ closings' \in [Jobs -> Seq(Event)]
<1>1. \A i \in Jobs : job[i] \in JobRecord /\ closings[i] \in Seq(Event)
    BY DEF FlowTypeOK, JobRecord, Event
<1>2. ASSUME NEW e \in Event PROVE Append(closings[j], e) \in Seq(Event)
    BY <1>1
<1>3. job'[j] \in JobRecord /\ closings'[j] \in Seq(Event)
    <2>1. CASE Kept(j)
        BY <1>1, <2>1 DEF Kept
    <2>2. CASE Created(j)
        BY <1>1, <2>2, CreateRecord DEF Created
    <2>3. ASSUME NEW to \in JobStates, Moved(j, to)
          PROVE  job'[j] \in JobRecord /\ closings'[j] \in Seq(Event)
        BY <1>1, <1>2, <2>3, TransitionRecord DEF Moved
    <2> QED
        BY <2>1, <2>2, <2>3 DEF Touches
<1>4. \A i \in Jobs : job'[i] \in JobRecord /\ closings'[i] \in Seq(Event)
    BY <1>1, <1>3 DEF Touches, Kept
<1>5. job' = [i \in Jobs |-> job'[i]] /\ closings' = [i \in Jobs |-> closings'[i]]
    BY DEF Touches
<1> QED
    BY <1>4, <1>5

(* Every step keeps the types. *)
LEMMA FlowNextType ==
    ASSUME FlowTypeOK, [Next]_vars
    PROVE  FlowTypeOK'
<1>1. LedgerTypeOK'
    BY StepLedger, LedgerNextType DEF FlowTypeOK
<1>2. job' \in [Jobs -> JobRecord] /\ closings' \in [Jobs -> Seq(Event)]
    BY StepMoves, TouchesType
<1> DEFINE Rest ==
              /\ binding' \in [Jobs -> Scopes]
              /\ previewer' \in [Jobs -> {"idle", "hostRead", "created", "previewing", "closed"}]
              /\ hostSeen' \in [Jobs -> [target : Targets, key : Keys]]
              /\ handler' \in [Requests -> {"idle", "checked", "hostRead", "ready", "started",
                                            "waiting", "unsent", "lost", "received",
                                            "abandoned", "closed"}]
              /\ asks' \in [Requests -> Jobs]
              /\ keySeen' \in [Requests -> Keys] /\ credSeen' \in [Requests -> Creds]
              /\ session' \in [Jobs -> {"active", "ended"}]
              /\ host' \in [target : Targets, key : SUBSET Keys]
              /\ credential' \subseteq Creds
              /\ everRan' \subseteq Requests
<1>3. Rest
    <2> USE DEF FlowTypeOK
    <2>1. ASSUME NEW j \in Jobs, PreviewRequest(j) PROVE Rest
        BY <2>1 DEF PreviewRequest
    <2>2. ASSUME NEW j \in Jobs, PreviewCreate(j) PROVE Rest
        <3>1. hostSeen[j].target \in Targets /\ hostSeen[j].key \in Keys
            OBVIOUS
        <3>2. \A c \in Creds : [target |-> hostSeen[j].target, key |-> hostSeen[j].key,
                               cred |-> c] \in Scopes
            BY <3>1, ScopesAssumption
        <3>3. binding' \in [Jobs -> Scopes]
            <4>1. CASE UNCHANGED binding
                BY <4>1
            <4>2. ASSUME NEW c \in credential,
                         binding' = [binding EXCEPT ![j] = [target |-> hostSeen[j].target,
                                                            key |-> hostSeen[j].key, cred |-> c]]
                  PROVE  binding' \in [Jobs -> Scopes]
                <5> DEFINE s == [target |-> hostSeen[j].target, key |-> hostSeen[j].key,
                                 cred |-> c]
                <5>1. s \in Scopes /\ binding' = [binding EXCEPT ![j] = s]
                    BY <3>2, <4>2
                <5> HIDE DEF s
                <5> QED
                    BY <5>1
            <4> QED
                BY <2>2, <4>1, <4>2 DEF PreviewCreate
        <3> QED
            BY <2>2, <3>3 DEF PreviewCreate
    <2>3. ASSUME NEW j \in Jobs, PreviewStart(j) \/ PreviewResult(j) \/ EndSession(j) PROVE Rest
        <3>1. CASE PreviewStart(j)
            BY <3>1 DEF PreviewStart
        <3>2. CASE PreviewResult(j)
            BY <3>2 DEF PreviewResult
        <3>3. CASE EndSession(j)
            BY <3>3 DEF EndSession
        <3> QED
            BY <2>3, <3>1, <3>2, <3>3
    <2>4. ASSUME NEW r \in Requests, NEW j \in Jobs, NEW s \in Scopes, ExecuteCheck(r, j, s)
          PROVE  Rest
        BY <2>4 DEF ExecuteCheck, envOfExecute
    <2>5. ASSUME NEW r \in Requests, Execute(r) PROVE Rest
        <3> USE DEF envOfExecute
        <3>1. CASE ReadHost(r)
            <4>1. ASSUME NEW k \in host.key, keySeen' = [keySeen EXCEPT ![r] = k],
                         handler' = [handler EXCEPT ![r] = "hostRead"]
                  PROVE  Rest
                <5>1. k \in Keys
                    OBVIOUS
                <5> QED
                    BY <3>1, <4>1, <5>1 DEF ReadHost
            <4>2. CASE handler' = [handler EXCEPT ![r] = "closed"] /\ UNCHANGED keySeen
                BY <3>1, <4>2 DEF ReadHost
            <4> QED
                BY <3>1, <4>1, <4>2 DEF ReadHost
        <3>2. CASE ReadCredential(r)
            <4>1. ASSUME NEW c \in credential, credSeen' = [credSeen EXCEPT ![r] = c],
                         handler' = [handler EXCEPT ![r] = "ready"]
                  PROVE  Rest
                BY <3>2, <4>1 DEF ReadCredential
            <4>2. CASE handler' = [handler EXCEPT ![r] = "closed"] /\ UNCHANGED credSeen
                BY <3>2, <4>2 DEF ReadCredential
            <4> QED
                BY <3>2, <4>1, <4>2 DEF ReadCredential
        <3>3. CASE StartExecution(r) \/ Send(r) \/ GiveUp(r)
            BY <3>3 DEF StartExecution, Send, GiveUp
        <3>4. CASE Receive(r) \/ StoreResult(r) \/ Fail(r)
            BY <3>4 DEF Receive, StoreResult, Fail
        <3> QED
            BY <2>5, <3>1, <3>2, <3>3, <3>4 DEF Execute
    <2>6. ASSUME NEW r \in Requests, Deliver(r) PROVE Rest
        BY <2>6 DEF Deliver, flowVars
    <2>7. ASSUME NEW r \in Requests, Connector(r) PROVE Rest
        <3>1. Executing' \subseteq Requests
            BY DEF Executing
        <3> QED
            BY <2>7, <3>1 DEF Connector, flowVars
    <2>8. CASE RestartConnector \/ UNCHANGED vars
        BY <2>8 DEF RestartConnector, flowVars, vars
    <2>9. CASE ChangeHost
        <3>1. host' \in [target : Targets, key : SUBSET Keys]
            <4>1. ASSUME NEW t \in Targets, host' = [host EXCEPT !.target = t]
                  PROVE  host' \in [target : Targets, key : SUBSET Keys]
                BY <4>1
            <4>2. ASSUME NEW t \in Targets, host' = [target |-> t, key |-> {}]
                  PROVE  host' \in [target : Targets, key : SUBSET Keys]
                BY <4>2
            <4>3. ASSUME NEW k \in Keys, host' = [host EXCEPT !.key = {k}]
                  PROVE  host' \in [target : Targets, key : SUBSET Keys]
                BY <4>3
            <4> QED
                BY <2>9, <4>1, <4>2, <4>3 DEF ChangeHost
        <3> QED
            BY <2>9, <3>1 DEF ChangeHost
    <2>10. CASE ChangeCredential
        BY <2>10 DEF ChangeCredential
    <2> QED
        BY <2>1, <2>2, <2>3, <2>4, <2>5, <2>6, <2>7, <2>8, <2>9, <2>10 DEF Next, Preview
<1> QED
    BY <1>1, <1>2, <1>3 DEF FlowTypeOK, JobRecord, Event

-----------------------------------------------------------------------------
(* The invariant, for the steps that write a job. *)

(* A job that ends gets its closing event with the same write. *)
LEMMA TouchesClosed ==
    ASSUME FlowInv, NEW j \in Jobs, Touches(j)
    PROVE  ClosedOnce'
<1>1. FlowTypeOK /\ PreviewInv /\ ClosedOnce
    BY DEF FlowInv
<1>2. \A i \in Jobs : job[i] \in JobRecord /\ closings[i] \in Seq(Event)
    BY <1>1 DEF FlowTypeOK, JobRecord, Event
<1> DEFINE Right(i) == Len(closings[i]) = IF job[i].state \in Terminal THEN 1 ELSE 0
<1>3. \A i \in Jobs \ {j} : Right(i)'
    BY <1>1 DEF ClosedOnce, Touches, Kept
<1>4. Right(j)'
    <2>1. CASE Kept(j)
        BY <1>1, <2>1 DEF ClosedOnce, Kept
    <2>2. CASE Created(j)
        <3>1. job[j].state = "absent" /\ closings'[j] = closings[j]
            BY <1>1, <2>2 DEF Created, PreviewInv
        <3>2. job'[j].state = "queued"
            <4>1. job'[j] = [job[j] EXCEPT !.state = "queued", !.version = 1]
                BY <2>2 DEF Created
            <4>2. job[j] \in JobRecord
                BY <1>2
            <4> QED
                BY <4>1, <4>2 DEF JobRecord
        <3>3. Len(closings[j]) = 0
            BY <1>1, <3>1 DEF ClosedOnce, Terminal
        <3> QED
            BY <3>1, <3>2, <3>3 DEF Terminal
    <2>3. ASSUME NEW to \in JobStates, Moved(j, to) PROVE Right(j)'
        <3>1. job'[j].state = to /\ Len(closings[j]) = 0
            BY <1>1, <1>2, <2>3, TransitionRecord DEF Moved, CanTransition, ClosedOnce, Terminal
        <3>2. ASSUME NEW e \in Event, closings'[j] = Append(closings[j], e)
              PROVE  Len(closings'[j]) = 1
            BY <1>2, <3>1, <3>2
        <3> QED
            BY <2>3, <3>1, <3>2 DEF Moved
    <2> QED
        BY <2>1, <2>2, <2>3 DEF Touches
<1> QED
    BY <1>3, <1>4 DEF ClosedOnce

(* The preview handler: no request has got to its job yet. *)
LEMMA PreviewStep ==
    ASSUME FlowInv, NEW j \in Jobs, PreviewRequest(j) \/ Preview(j)
    PROVE  /\ PreviewInv' /\ ApprovalInv' /\ BeganOnce' /\ ExecutionInv' /\ BindingInv'
           /\ SucceededMeansExecuted'
<1>1. /\ FlowTypeOK /\ PreviewInv /\ ApprovalInv /\ BeganOnce /\ ExecutionInv /\ BindingInv
      /\ SucceededMeansExecuted
    BY DEF FlowInv
<1>2. /\ UNCHANGED <<ledgerVars, handler, asks, keySeen, credSeen, everRan>>
      /\ previewer[j] # "closed"
      /\ \A i \in Jobs \ {j} : previewer'[i] = previewer[i] /\ binding'[i] = binding[i]
    BY <1>1 DEF PreviewRequest, Preview, PreviewCreate, PreviewStart, PreviewResult, FlowTypeOK
<1>3. Touches(j)
    <2>1. CASE PreviewRequest(j)
        BY <1>1, <2>1 DEF PreviewRequest, Touches, Kept, FlowTypeOK
    <2> QED
        BY <1>1, <2>1, PreviewMoves
<1>4. \A i \in Jobs \ {j} : job'[i] = job[i]
    BY <1>3 DEF Touches, Kept
<1>5. \A r \in Requests : asks[r] \in Jobs /\ (asks[r] = j => handler[r] = "idle")
    BY <1>1, <1>2 DEF ApprovalInv, ApprovalAt, FlowTypeOK
<1>6. /\ previewer'[j] \in {"idle", "hostRead"} => job'[j].state = "absent"
      /\ previewer'[j] = "created" => job'[j].state = "queued"
      /\ previewer'[j] = "previewing" => job'[j].state = "running"
      /\ previewer'[j] = "closed" => job'[j].state # "queued"
      /\ job'[j].state # "succeeded"
    <2>1. job[j] \in JobRecord
        BY <1>1 DEF FlowTypeOK, JobRecord
    <2>2. CASE PreviewRequest(j)
        BY <1>1, <2>2 DEF PreviewRequest, PreviewInv, FlowTypeOK
    <2>3. CASE PreviewCreate(j)
        <3>1. CASE credential = {}
            BY <1>1, <2>3, <3>1 DEF PreviewCreate, PreviewInv, FlowTypeOK
        <3>2. CASE credential # {}
            <4>1. /\ job' = [job EXCEPT ![j] = [@ EXCEPT !.state = "queued", !.version = 1]]
                  /\ previewer'[j] = "created"
                BY <1>1, <2>3, <3>2 DEF PreviewCreate, FlowTypeOK
            <4>2. job'[j].state = "queued"
                BY <1>1, <2>1, <4>1 DEF FlowTypeOK, JobRecord
            <4> QED
                BY <4>1, <4>2
        <3> QED
            BY <3>1, <3>2
    <2>4. CASE PreviewStart(j)
        <3>1. CanTransition(job[j].state, "running")
            BY <1>1, <2>4 DEF PreviewStart, PreviewInv, CanTransition
        <3>2. job'[j] = TransitionJob(job[j], "running") /\ previewer'[j] = "previewing"
            BY <1>1, <2>4, <3>1 DEF PreviewStart, FlowTypeOK
        <3>3. job'[j].state = "running"
            BY <2>1, <3>2, TransitionRecord DEF JobStates
        <3> QED
            BY <3>2, <3>3
    <2>5. CASE PreviewResult(j)
        <3>1. job[j].state = "running" /\ previewer'[j] = "closed"
            BY <1>1, <2>5 DEF PreviewResult, PreviewInv, FlowTypeOK
        <3>2. \E to \in {"awaiting_approval", "failed"} : job'[j] = TransitionJob(job[j], to)
            BY <1>1, <2>5, <3>1 DEF PreviewResult, FailRunbookJob, CanTransition, FlowTypeOK
        <3>3. job'[j].state \in {"awaiting_approval", "failed"}
            BY <2>1, <3>2, TransitionRecord DEF JobStates, Terminal
        <3> QED
            BY <3>1, <3>3
    <2> QED
        BY <2>2, <2>3, <2>4, <2>5 DEF Preview
<1>7. PreviewInv'
    BY <1>1, <1>2, <1>4, <1>6 DEF PreviewInv
<1>8. place' = place /\ answer' = answer /\ source' = source /\ outcome' = outcome
      /\ progress' = progress /\ jobOf' = jobOf /\ scopeOf' = scopeOf
    BY <1>2 DEF ledgerVars
<1>9. \A r \in Requests : Began(r)' = Began(r) /\ (asks[r] = j => ~Began(r))
    BY <1>1, <1>2, <1>5, <1>8 DEF Began, ApprovalInv, ApprovalAt
<1>10. ApprovalInv'
    BY <1>1, <1>2, <1>4, <1>5, <1>8, <1>9 DEF ApprovalInv, ApprovalAt
<1>11. BeganOnce' /\ ExecutionInv'
    BY <1>1, <1>2, <1>8, <1>9 DEF BeganOnce, ExecutionInv, ExecutionAt
<1>12. BindingInv'
    BY <1>1, <1>2, <1>5, <1>8, <1>9 DEF BindingInv, BindingAt, SSHMaterialMatches, Began
<1>13. SucceededMeansExecuted'
    BY <1>1, <1>2, <1>4, <1>6, <1>8 DEF SucceededMeansExecuted
<1> QED
    BY <1>7, <1>10, <1>11, <1>12, <1>13

(* A request passes the checks of executeRunbook: the preview of its job   *)
(* is over.                                                                *)
LEMMA CheckStep ==
    ASSUME FlowInv, NEW r \in Requests, NEW j \in Jobs, NEW s \in Scopes, ExecuteCheck(r, j, s)
    PROVE  /\ PreviewInv' /\ ApprovalInv' /\ BeganOnce' /\ ExecutionInv' /\ BindingInv'
           /\ SucceededMeansExecuted'
<1>1. /\ FlowTypeOK /\ PreviewInv /\ ApprovalInv /\ BeganOnce /\ ExecutionInv /\ BindingInv
      /\ SucceededMeansExecuted
    BY DEF FlowInv
<1>2. /\ UNCHANGED <<job, previewer, binding, keySeen, credSeen, everRan>>
      /\ UNCHANGED <<place, answer, source, outcome, progress, jobOf, scopeOf>>
      /\ handler[r] = "idle" /\ handler'[r] = "checked" /\ asks'[r] = j
      /\ job[j].state = "awaiting_approval"
      /\ \A q \in Requests \ {r} : handler'[q] = handler[q] /\ asks'[q] = asks[q]
    BY <1>1 DEF ExecuteCheck, envOfExecute, ledgerVars, FlowTypeOK
<1>3. previewer[j] = "closed"
    <2>1. previewer[j] \in {"idle", "hostRead", "created", "previewing", "closed"}
        BY <1>1 DEF FlowTypeOK
    <2> QED
        BY <1>1, <1>2, <2>1 DEF PreviewInv
<1>4. place[r] = "idle" /\ ~Began(r) /\ ~Began(r)'
    BY <1>1, <1>2 DEF ApprovalInv, ApprovalAt, Began
<1>5. \A q \in Requests \ {r} : Began(q)' = Began(q)
    BY <1>2 DEF Began
<1>6. PreviewInv'
    BY <1>1, <1>2 DEF PreviewInv
<1>7. ApprovalInv'
    BY <1>1, <1>2, <1>3, <1>4, <1>5 DEF ApprovalInv, ApprovalAt
<1>8. BeganOnce' /\ ExecutionInv'
    BY <1>1, <1>2, <1>4, <1>5 DEF BeganOnce, ExecutionInv, ExecutionAt
<1>9. BindingInv'
    BY <1>1, <1>2, <1>4 DEF BindingInv, BindingAt, SSHMaterialMatches
<1>10. \A q \in everRan : asks'[q] = asks[q]
    <2>1. r \notin everRan /\ everRan \subseteq Requests
        BY <1>1, <1>4 DEF ExecutionInv, ExecutionAt, FlowTypeOK
    <2> QED
        BY <1>2, <2>1
<1>11. SucceededMeansExecuted'
    BY <1>1, <1>2, <1>10 DEF SucceededMeansExecuted
<1> QED
    BY <1>6, <1>7, <1>8, <1>9, <1>11

(* What the handler of an execution does: the job moves to running or to   *)
(* an end, and only StartExecution begins an execution.                    *)
LEMMA ExecuteShape ==
    ASSUME FlowInv, NEW r \in Requests, Execute(r)
    PROVE  /\ UNCHANGED <<previewer, binding, asks, everRan>>
           /\ UNCHANGED <<place, answer, source, outcome, progress, jobOf, scopeOf>>
           /\ handler[r] # "idle" /\ handler'[r] # "idle"
           /\ \A q \in Requests \ {r} : /\ handler'[q] = handler[q]
                                        /\ keySeen'[q] = keySeen[q] /\ credSeen'[q] = credSeen[q]
           /\ place[r] # "idle" => keySeen'[r] = keySeen[r] /\ credSeen'[r] = credSeen[r]
           /\ handler'[r] = "received" =>
                 place[r] = "answered" /\ answer[r] \in {"result", "replay"}
           /\ place[r] # "idle" =>
                 handler'[r] \in {"waiting", "lost", "abandoned", "received", "unsent", "closed"}
           /\ Began(r)' => Began(r) \/ (/\ CanTransition(job[asks[r]].state, "running")
                                        /\ job'[asks[r]].state = "running")
           /\ \/ job'[asks[r]].state = job[asks[r]].state
              \/ /\ CanTransition(job[asks[r]].state, job'[asks[r]].state)
                 /\ job'[asks[r]].state \in {"running"} \cup Terminal
           /\ \A i \in Jobs \ {asks[r]} : job'[i] = job[i]
<1>1. FlowTypeOK /\ ApprovalAt(r) /\ asks[r] \in Jobs /\ job[asks[r]] \in JobRecord
    BY DEF FlowInv, ApprovalInv, FlowTypeOK, JobRecord
<1>2. \A i \in Jobs \ {asks[r]} : job'[i] = job[i]
    BY <1>1, ExecuteMoves DEF Touches, Kept
<1>3. UNCHANGED <<place, answer, source, outcome, progress, jobOf, scopeOf>>
    BY DEF Execute, ReadHost, ReadCredential, StartExecution, Send, GiveUp, Receive,
           StoreResult, Fail, ledgerVars
<1>4. \A to \in JobStates : TransitionJob(job[asks[r]], to).state = to
    BY <1>1, TransitionRecord
<1> DEFINE j == asks[r]
<1> USE DEF envOfExecute
<1>5. CASE ReadHost(r)
    <2>1. /\ UNCHANGED <<previewer, binding, asks, everRan, job, credSeen>>
          /\ handler[r] = "checked" /\ handler'[r] \in {"hostRead", "closed"}
          /\ \A q \in Requests \ {r} : handler'[q] = handler[q] /\ keySeen'[q] = keySeen[q]
        BY <1>1, <1>5 DEF ReadHost, FlowTypeOK
    <2> QED
        BY <1>1, <1>3, <2>1 DEF ApprovalAt, Began
<1>6. CASE ReadCredential(r)
    <2>1. /\ UNCHANGED <<previewer, binding, asks, everRan, job, keySeen>>
          /\ handler[r] = "hostRead" /\ handler'[r] \in {"ready", "closed"}
          /\ \A q \in Requests \ {r} : handler'[q] = handler[q] /\ credSeen'[q] = credSeen[q]
        BY <1>1, <1>6 DEF ReadCredential, FlowTypeOK
    <2> QED
        BY <1>1, <1>3, <2>1 DEF ApprovalAt, Began
<1>7. CASE StartExecution(r)
    <2>1. /\ UNCHANGED <<previewer, binding, asks, everRan, keySeen, credSeen>>
          /\ handler[r] = "ready" /\ handler'[r] \in {"started", "closed"}
          /\ \A q \in Requests \ {r} : handler'[q] = handler[q]
          /\ \/ /\ CanTransition(job[j].state, "running")
                /\ job'[j] = TransitionJob(job[j], "running")
             \/ handler'[r] = "closed" /\ UNCHANGED job
        BY <1>1, <1>7 DEF StartExecution, FlowTypeOK
    <2>2. \/ CanTransition(job[j].state, "running") /\ job'[j].state = "running"
          \/ handler'[r] = "closed" /\ job'[j].state = job[j].state
        BY <1>4, <2>1 DEF JobStates
    <2> QED
        BY <1>1, <1>2, <1>3, <2>1, <2>2 DEF ApprovalAt, Began
<1>8. CASE Send(r) \/ GiveUp(r) \/ Receive(r)
    <2>1. /\ UNCHANGED <<previewer, binding, asks, everRan, job, keySeen, credSeen>>
          /\ handler[r] \in {"started", "waiting"}
          /\ handler'[r] \in {"waiting", "unsent", "lost", "received"}
          /\ place[r] # "idle" => handler[r] = "waiting"
          /\ handler'[r] = "received" =>
                place[r] = "answered" /\ answer[r] \in {"result", "replay"}
          /\ \A q \in Requests \ {r} : handler'[q] = handler[q]
        BY <1>1, <1>8 DEF Send, GiveUp, Receive, FlowTypeOK, ApprovalAt
    <2> QED
        BY <1>1, <1>3, <2>1 DEF Began
<1>9. CASE StoreResult(r) \/ Fail(r)
    <2>1. /\ UNCHANGED <<previewer, binding, asks, everRan, keySeen, credSeen>>
          /\ handler[r] \in {"received", "unsent", "lost"}
          /\ handler'[r] \in {"closed", "abandoned"}
          /\ \A q \in Requests \ {r} : handler'[q] = handler[q]
        BY <1>1, <1>9 DEF StoreResult, Fail, FlowTypeOK
    <2>2. \/ UNCHANGED job
          \/ \E to \in Terminal : CanTransition(job[j].state, to)
                                  /\ job'[j] = TransitionJob(job[j], to)
        BY <1>1, <1>9
        DEF StoreResult, Fail, FailRunbookJob, ResultState, FlowTypeOK, CanTransition, Terminal
    <2>3. \/ job'[j].state = job[j].state
          \/ CanTransition(job[j].state, job'[j].state) /\ job'[j].state \in Terminal
        BY <1>4, <2>2 DEF JobStates
    <2>4. Began(r)
        BY <2>1 DEF Began
    <2> QED
        BY <1>1, <1>2, <1>3, <2>1, <2>3, <2>4
<1> QED
    BY <1>5, <1>6, <1>7, <1>8, <1>9 DEF Execute

(* A job ends succeeded only by a result, and that of its own execution.   *)
LEMMA StoreResultMeansExecuted ==
    ASSUME FlowInv, NEW r \in Requests, StoreResult(r), ResultState(r) = "succeeded"
    PROVE  \E q \in everRan : /\ asks[q] = asks[r]
                              /\ outcome[q] = "succeeded" /\ progress[q] = Steps
<1>1. /\ FlowTypeOK /\ ApprovalAt(r) /\ ExecutionInv /\ BindingInv /\ LedgerTypeOK
      /\ ReplayInv /\ AnswerInv
    BY DEF FlowInv, ApprovalInv, LedgerInv
<1>2. place[r] = "answered" /\ answer[r] \in {"result", "replay"} /\ jobOf[r] = asks[r]
    BY <1>1 DEF StoreResult, ApprovalAt, BindingInv, BindingAt
<1>3. PICK first \in source[r] : outcome[first] = "succeeded"
    BY DEF ResultState
<1>4. first \in Requests /\ jobOf[first] = jobOf[r]
    <2>1. CASE answer[r] = "result"
        BY <1>1, <1>3, <2>1 DEF ExecutionInv, ExecutionAt
    <2>2. CASE answer[r] = "replay"
        BY <1>1, <1>3, <2>2 DEF ReplayInv, Executed
    <2> QED
        BY <1>2, <2>1, <2>2
<1>5. first \in everRan /\ progress[first] = Steps
    BY <1>1, <1>3, <1>4 DEF ExecutionInv, ExecutionAt
<1>6. asks[first] = jobOf[first]
    BY <1>1, <1>4, <1>5 DEF ExecutionInv, ExecutionAt, BindingInv, BindingAt
<1> QED
    BY <1>2, <1>3, <1>4, <1>5, <1>6

(* The handler of an execution. *)
LEMMA ExecuteStep ==
    ASSUME FlowInv, NEW r \in Requests, Execute(r)
    PROVE  /\ PreviewInv' /\ ApprovalInv' /\ BeganOnce' /\ ExecutionInv' /\ BindingInv'
           /\ SucceededMeansExecuted'
<1>1. /\ FlowTypeOK /\ PreviewInv /\ ApprovalInv /\ BeganOnce /\ ExecutionInv /\ BindingInv
      /\ SucceededMeansExecuted
    BY DEF FlowInv
<1> DEFINE j == asks[r]
<1>2. /\ UNCHANGED <<previewer, binding, asks, everRan>>
      /\ UNCHANGED <<place, answer, source, outcome, progress, jobOf, scopeOf>>
      /\ handler[r] # "idle" /\ handler'[r] # "idle"
      /\ \A q \in Requests \ {r} : /\ handler'[q] = handler[q]
                                   /\ keySeen'[q] = keySeen[q] /\ credSeen'[q] = credSeen[q]
      /\ place[r] # "idle" => keySeen'[r] = keySeen[r] /\ credSeen'[r] = credSeen[r]
    BY ExecuteShape
<1>3. /\ handler'[r] = "received" => place[r] = "answered" /\ answer[r] \in {"result", "replay"}
      /\ place[r] # "idle" =>
            handler'[r] \in {"waiting", "lost", "abandoned", "received", "unsent", "closed"}
    BY ExecuteShape
<1>4. /\ Began(r)' => Began(r) \/ (/\ CanTransition(job[j].state, "running")
                                   /\ job'[j].state = "running")
      /\ \/ job'[j].state = job[j].state
         \/ /\ CanTransition(job[j].state, job'[j].state)
            /\ job'[j].state \in {"running"} \cup Terminal
      /\ \A i \in Jobs \ {j} : job'[i] = job[i]
    BY ExecuteShape
<1>5. j \in Jobs /\ \A q \in Requests : asks[q] \in Jobs
    BY <1>1 DEF FlowTypeOK
<1>6. previewer[j] = "closed" /\ job[j].state \notin {"queued", "absent"}
    BY <1>1, <1>2, <1>5 DEF ApprovalInv, ApprovalAt, PreviewInv
<1>7. job'[j].state \notin {"queued", "absent"}
    BY <1>4, <1>6 DEF Terminal
<1>8. \A q \in Requests \ {r} : Began(q)' = Began(q)
    BY <1>2 DEF Began
<1>9. \A q \in Requests : Began(q) /\ asks[q] = j => job'[j].state \in {"running"} \cup Terminal
    BY <1>1, <1>4 DEF ApprovalInv, ApprovalAt
<1> HIDE DEF j
<1>10. PreviewInv'
    BY <1>1, <1>2, <1>4, <1>6, <1>7 DEF PreviewInv
<1>11. ApprovalInv'
    <2>1. ApprovalAt(r)'
        BY <1>2, <1>3, <1>4, <1>6, <1>7, <1>9 DEF ApprovalAt, j
    <2>2. ASSUME NEW q \in Requests \ {r} PROVE ApprovalAt(q)'
        <3>1. CASE asks[q] = j
            BY <1>1, <1>2, <1>6, <1>7, <1>8, <1>9, <3>1 DEF ApprovalInv, ApprovalAt
        <3>2. CASE asks[q] # j
            BY <1>1, <1>2, <1>4, <1>5, <1>8, <3>2 DEF ApprovalInv, ApprovalAt
        <3> QED
            BY <3>1, <3>2
    <2> QED
        BY <2>1, <2>2 DEF ApprovalInv
<1>12. BeganOnce'
    <2>1. CanTransition(job[j].state, "running") =>
              \A q \in Requests : asks[q] = j => ~Began(q)
        BY <1>1 DEF ApprovalInv, ApprovalAt, CanTransition, Terminal
    <2> QED
        BY <1>1, <1>2, <1>4, <1>8, <2>1 DEF BeganOnce, j
<1>13. ExecutionInv'
    BY <1>1, <1>2 DEF ExecutionInv, ExecutionAt
<1>14. BindingInv'
    BY <1>1, <1>2 DEF BindingInv, BindingAt, SSHMaterialMatches
<1>15. SucceededMeansExecuted'
    <2>1. CASE job'[j].state # "succeeded" \/ job[j].state = "succeeded"
        BY <1>1, <1>2, <1>4, <2>1 DEF SucceededMeansExecuted
    <2>2. CASE job'[j].state = "succeeded" /\ job[j].state # "succeeded"
        <3>1. StoreResult(r) /\ ResultState(r) = "succeeded"
            <4>1. job[j] \in JobRecord
                BY <1>1, <1>5 DEF FlowTypeOK, JobRecord
            <4>2. \A to \in JobStates : TransitionJob(job[j], to).state = to
                BY <4>1, TransitionRecord
            <4>3. CASE ReadHost(r) \/ ReadCredential(r) \/ Send(r) \/ GiveUp(r) \/ Receive(r)
                BY <2>2, <4>3 DEF ReadHost, ReadCredential, Send, GiveUp, Receive
            <4>4. CASE StartExecution(r)
                BY <1>1, <1>5, <2>2, <4>2, <4>4 DEF StartExecution, FlowTypeOK, JobStates, j
            <4>5. CASE Fail(r)
                BY <1>1, <1>5, <2>2, <4>2, <4>5
                DEF Fail, FailRunbookJob, FlowTypeOK, JobStates, Terminal, j
            <4>6. CASE StoreResult(r)
                BY <1>1, <1>5, <2>2, <4>2, <4>6
                DEF StoreResult, ResultState, FlowTypeOK, JobStates, Terminal, j
            <4> QED
                BY <4>3, <4>4, <4>5, <4>6 DEF Execute
        <3> QED
            BY <1>1, <1>2, <1>4, <3>1, StoreResultMeansExecuted DEF SucceededMeansExecuted, j
    <2> QED
        BY <2>1, <2>2
<1> QED
    BY <1>10, <1>11, <1>12, <1>13, <1>14, <1>15

-----------------------------------------------------------------------------
(* The invariant, for the steps of the Connector. *)

(* What every step of the Connector leaves as it is: the answer of an      *)
(* answered request, the outcome of a finished execution, and a request    *)
(* that is not on its way.                                                 *)
ConnectorShape ==
    /\ UNCHANGED flowVars
    /\ everRan \subseteq everRan'
    /\ \A q \in Requests :
          /\ place[q] = "answered" => place'[q] = "answered" /\ answer'[q] = answer[q]
          /\ place'[q] # "idle" => place[q] # "idle" \/ OnTheWay(q)
          /\ outcome[q] # "none" => outcome'[q] = outcome[q] /\ progress'[q] = progress[q]

(* With that, the handlers and their jobs are where they were. *)
LEMMA ConnectorKeeps ==
    ASSUME FlowInv, ConnectorShape
    PROVE  PreviewInv' /\ ApprovalInv' /\ BeganOnce' /\ SucceededMeansExecuted'
<1>1. FlowTypeOK /\ PreviewInv /\ ApprovalInv /\ BeganOnce /\ SucceededMeansExecuted
    BY DEF FlowInv
<1>2. UNCHANGED <<job, previewer, handler, asks>>
    BY DEF ConnectorShape, flowVars
<1>3. PreviewInv'
    BY <1>1, <1>2 DEF PreviewInv
<1>4. \A q \in Requests : Began(q)' => Began(q)
    BY <1>2 DEF ConnectorShape, Began, OnTheWay
<1>5. ApprovalInv'
    BY <1>1, <1>2, <1>4 DEF ApprovalInv, ApprovalAt, ConnectorShape, OnTheWay
<1>6. BeganOnce'
    BY <1>1, <1>2, <1>4 DEF BeganOnce
<1>7. SucceededMeansExecuted'
    <2> SUFFICES ASSUME NEW j \in Jobs, job'[j].state = "succeeded"
                 PROVE  \E r \in everRan' : /\ asks'[r] = j
                                            /\ outcome'[r] = "succeeded" /\ progress'[r] = Steps
        BY DEF SucceededMeansExecuted
    <2>1. PICK r \in everRan : asks[r] = j /\ outcome[r] = "succeeded" /\ progress[r] = Steps
        BY <1>1, <1>2 DEF SucceededMeansExecuted
    <2>2. r \in Requests
        BY <1>1 DEF FlowTypeOK
    <2> QED
        BY <1>2, <2>1, <2>2 DEF ConnectorShape
<1> QED
    BY <1>3, <1>5, <1>6, <1>7

(* A request arrives and is admitted with the approved binding, or turned  *)
(* away.                                                                   *)
LEMMA DeliverStep ==
    ASSUME FlowInv, NEW r \in Requests, Deliver(r)
    PROVE  ConnectorShape /\ ExecutionInv' /\ BindingInv'
<1>1. FlowTypeOK /\ LedgerTypeOK /\ AnswerInv /\ ExecutionInv /\ BindingInv
    BY DEF FlowInv, LedgerInv
<1>2. /\ place[r] = "idle" /\ OnTheWay(r)
      /\ UNCHANGED <<flowVars, everRan, outcome, progress, source>>
      /\ \A q \in Requests \ {r} : /\ place'[q] = place[q] /\ answer'[q] = answer[q]
                                   /\ jobOf'[q] = jobOf[q] /\ scopeOf'[q] = scopeOf[q]
      /\ \/ /\ SSHMaterialMatches(r)
            /\ jobOf'[r] = asks[r] /\ scopeOf'[r] = binding[asks[r]]
            /\ place'[r] = "validated" /\ answer'[r] = answer[r]
         \/ place'[r] = "answered" /\ answer'[r] \in {"busy", "refused"}
    BY <1>1 DEF Deliver, Admit, Refuse, Respond, LedgerTypeOK, flowVars
<1>3. ConnectorShape
    BY <1>2 DEF ConnectorShape
<1>4. ExecutionInv'
    BY <1>1, <1>2 DEF ExecutionInv, ExecutionAt, AnswerInv
<1>5. BindingInv'
    BY <1>1, <1>2 DEF BindingInv, BindingAt, SSHMaterialMatches, flowVars
<1> QED
    BY <1>3, <1>4, <1>5

(* The Connector's own steps start no plan but that of r, and end it with  *)
(* the outcome of its own steps.                                           *)
LEMMA ConnectorStep ==
    ASSUME FlowInv, NEW r \in Requests, Connector(r)
    PROVE  ConnectorShape /\ ExecutionInv' /\ BindingInv'
<1>1. FlowTypeOK /\ LedgerTypeOK /\ AnswerInv /\ ExecutionInv /\ BindingInv
    BY DEF FlowInv, LedgerInv
<1>2. /\ UNCHANGED <<flowVars, jobOf, scopeOf>>
      /\ everRan' = everRan \cup Executing'
    BY DEF Connector, Work, Claim, Step, Complete, Panic, ClaimNew, Answered, Respond
<1> DEFINE Others == \A q \in Requests \ {r} :
                        /\ place'[q] = place[q] /\ answer'[q] = answer[q]
                        /\ source'[q] = source[q] /\ outcome'[q] = outcome[q]
                        /\ progress'[q] = progress[q]
<1> DEFINE Mine == /\ place[r] \in {"validated", "executing", "executed"}
                   /\ place'[r] # "idle"
                   /\ outcome[r] # "none" => outcome'[r] = outcome[r] /\ progress'[r] = progress[r]
                   /\ ExecutionAt(r)'
                   /\ answer[r] = "none"
<1>3. Others /\ Mine
    <2> USE DEF LedgerTypeOK, Respond, ExecutionAt, Executing
    <2>1. answer[r] # "none" => place[r] = "answered"
        BY <1>1 DEF AnswerInv
    <2>2. ExecutionAt(r)
        BY <1>1 DEF ExecutionInv
    <2>3. CASE Claim(r)
        <3>1. place[r] = "validated" /\ UNCHANGED <<progress, outcome>>
            BY <2>3 DEF Claim
        <3>2. \/ /\ place' = [place EXCEPT ![r] = "executing"] /\ UNCHANGED <<answer, source>>
              \/ \E a \in {"conflict", "in_progress", "replay", "full"} :
                    \E from : Answered(r, a, from)
            BY <2>3 DEF Claim, ClaimNew
        <3>3. CASE place' = [place EXCEPT ![r] = "executing"] /\ UNCHANGED <<answer, source>>
            BY <1>1, <1>2, <2>1, <2>2, <3>1, <3>3
        <3>4. ASSUME NEW a \in {"conflict", "in_progress", "replay", "full"}, NEW from,
                     Answered(r, a, from)
              PROVE  Others /\ Mine
            <4>1. /\ place' = [place EXCEPT ![r] = "answered"]
                  /\ answer' = [answer EXCEPT ![r] = a]
                  /\ source' = [source EXCEPT ![r] = from]
                BY <3>4 DEF Answered
            <4> QED
                BY <1>1, <1>2, <2>1, <2>2, <3>1, <4>1
        <3> QED
            BY <3>2, <3>3, <3>4
    <2>4. CASE Step(r)
        BY <1>1, <1>2, <2>1, <2>2, <2>4, LedgerConstants DEF Step
    <2>5. CASE Complete(r)
        BY <1>1, <1>2, <2>1, <2>2, <2>5 DEF Complete
    <2>6. CASE Panic(r)
        BY <1>1, <1>2, <2>1, <2>2, <2>6 DEF Panic
    <2> QED
        BY <2>3, <2>4, <2>5, <2>6 DEF Connector, Work
<1>4. \A q \in Requests \ {r} : q \in everRan' <=> q \in everRan
    BY <1>1, <1>2, <1>3 DEF Executing, ExecutionInv, ExecutionAt
<1>5. ConnectorShape
    BY <1>2, <1>3 DEF ConnectorShape
<1>6. ExecutionInv'
    <2>1. ASSUME NEW q \in Requests \ {r} PROVE ExecutionAt(q)'
        BY <1>1, <1>3, <1>4 DEF ExecutionInv, ExecutionAt
    <2> QED
        BY <1>3, <2>1 DEF ExecutionInv
<1>7. BindingInv'
    <2>1. UNCHANGED <<asks, binding, keySeen, credSeen>>
        BY <1>2 DEF flowVars
    <2> QED
        BY <1>1, <1>2, <1>3, <2>1 DEF BindingInv, BindingAt, SSHMaterialMatches
<1> QED
    BY <1>5, <1>6, <1>7

(* A restart kills what was being handled and forgets the ledger, not what *)
(* was ever run.                                                           *)
LEMMA RestartStep ==
    ASSUME FlowInv, RestartConnector
    PROVE  ConnectorShape /\ ExecutionInv' /\ BindingInv'
<1>1. FlowTypeOK /\ LedgerTypeOK /\ AnswerInv /\ ExecutionInv /\ BindingInv
    BY DEF FlowInv, LedgerInv
<1>2. /\ UNCHANGED <<flowVars, everRan, jobOf, scopeOf, progress, outcome, answer, source>>
      /\ \A q \in Requests : place'[q] = IF q \in Holding THEN "killed" ELSE place[q]
    BY <1>1 DEF RestartConnector, Restart
<1>3. ConnectorShape
    BY <1>2 DEF ConnectorShape, Holding
<1>4. ExecutionInv'
    BY <1>1, <1>2 DEF ExecutionInv, ExecutionAt, Holding, AnswerInv
<1>5. BindingInv'
    <2>1. UNCHANGED <<asks, binding, keySeen, credSeen>>
        BY <1>2 DEF flowVars
    <2> QED
        BY <1>1, <1>2, <2>1 DEF BindingInv, BindingAt, SSHMaterialMatches, Holding
<1> QED
    BY <1>3, <1>4, <1>5

(* The surroundings write nothing the invariant is about. *)
LEMMA SurroundingsStep ==
    ASSUME FlowInv,
           (\E j \in Jobs : EndSession(j)) \/ ChangeHost \/ ChangeCredential \/ UNCHANGED vars
    PROVE  /\ PreviewInv' /\ ApprovalInv' /\ BeganOnce' /\ ExecutionInv' /\ BindingInv'
           /\ SucceededMeansExecuted'
<1>1. /\ FlowTypeOK /\ PreviewInv /\ ApprovalInv /\ BeganOnce /\ ExecutionInv /\ BindingInv
      /\ SucceededMeansExecuted
    BY DEF FlowInv
<1>2. UNCHANGED <<job, previewer, binding, handler, asks, keySeen, credSeen, everRan, ledgerVars>>
    BY DEF EndSession, ChangeHost, ChangeCredential, vars, flowVars
<1>3. UNCHANGED <<place, answer, source, outcome, progress, jobOf, scopeOf>>
    BY <1>2 DEF ledgerVars
<1> QED
    BY <1>1, <1>2, <1>3
    DEF PreviewInv, ApprovalInv, ApprovalAt, BeganOnce, Began, ExecutionInv, ExecutionAt,
        BindingInv, BindingAt, SSHMaterialMatches, SucceededMeansExecuted

-----------------------------------------------------------------------------
(* Every step keeps the invariant. *)
LEMMA FlowNextInv == FlowInv /\ [Next]_vars => FlowInv'
<1> SUFFICES ASSUME FlowInv, [Next]_vars PROVE FlowInv'
    OBVIOUS
<1>1. FlowTypeOK /\ LedgerInv
    BY DEF FlowInv
<1>2. LedgerInv'
    BY <1>1, StepLedger, LedgerNextInv
<1>3. FlowTypeOK'
    BY <1>1, FlowNextType
<1>4. ClosedOnce'
    BY <1>1, StepMoves, TouchesClosed
<1> DEFINE Rest == /\ PreviewInv' /\ ApprovalInv' /\ BeganOnce' /\ ExecutionInv' /\ BindingInv'
                   /\ SucceededMeansExecuted'
<1>5. ASSUME NEW j \in Jobs, PreviewRequest(j) \/ Preview(j) PROVE Rest
    BY <1>5, PreviewStep
<1>6. ASSUME NEW r \in Requests, NEW j \in Jobs, NEW s \in Scopes, ExecuteCheck(r, j, s)
      PROVE  Rest
    BY <1>6, CheckStep
<1>7. ASSUME NEW r \in Requests, Execute(r) PROVE Rest
    BY <1>7, ExecuteStep
<1>8. ASSUME NEW r \in Requests, Deliver(r) \/ Connector(r) PROVE Rest
    BY <1>8, DeliverStep, ConnectorStep, ConnectorKeeps
<1>9. ASSUME RestartConnector PROVE Rest
    BY <1>9, RestartStep, ConnectorKeeps
<1>10. ASSUME (\E j \in Jobs : EndSession(j)) \/ ChangeHost \/ ChangeCredential
              \/ UNCHANGED vars
       PROVE  Rest
    BY <1>10, SurroundingsStep
<1>11. Rest
    BY <1>5, <1>6, <1>7, <1>8, <1>9, <1>10 DEF Next
<1> QED
    BY <1>2, <1>3, <1>4, <1>11 DEF FlowInv

(* The invariant holds of every run of previewRunbook, executeRunbook and  *)
(* the Connector.                                                          *)
THEOREM FlowInvariance == Spec => []FlowInv
BY FlowInit, FlowNextInv, PTL DEF Spec

-----------------------------------------------------------------------------
(* The properties. *)

(* Every variable of the control plane's side and of the Connector's stays *)
(* in its range.                                                           *)
THEOREM FlowTypeCorrect == Spec => []FlowTypeOK
<1>1. FlowInv => FlowTypeOK
    BY DEF FlowInv
<1> QED
    BY <1>1, FlowInvariance, PTL

(* The Connector inside the flow behaves as RunbookLedger says, so all     *)
(* that is proved of handleExecute and its ledger alone holds here too.    *)
THEOREM FlowImplementsLedger == Spec => LedgerSpec
<1>1. Init => LedgerInit
    BY DEF Init
<1>2. FlowInv /\ [Next]_vars => [LedgerNext]_ledgerVars
    BY StepLedger DEF FlowInv
<1> QED
    BY <1>1, <1>2, FlowInvariance, PTL DEF Spec, LedgerSpec

(* No automatic retry: executeRunbook takes a job out of awaiting_approval *)
(* once, so its plan is started at most once, however often the Connector  *)
(* restarts and whatever request arrives late.                             *)
THEOREM PlanStartsOnce == Spec => []PlanStartsAtMostOnce
<1>1. FlowInv => PlanStartsAtMostOnce
    <2> SUFFICES ASSUME FlowInv, NEW r1 \in everRan, NEW r2 \in everRan, asks[r1] = asks[r2]
                 PROVE  r1 = r2
        BY DEF PlanStartsAtMostOnce
    <2>1. r1 \in Requests /\ r2 \in Requests
        BY DEF FlowInv, FlowTypeOK
    <2>2. Began(r1) /\ Began(r2)
        BY <2>1 DEF FlowInv, ExecutionInv, ExecutionAt, Began
    <2> QED
        BY <2>1, <2>2 DEF FlowInv, BeganOnce
<1> QED
    BY <1>1, FlowInvariance, PTL

(* validateRunbookSSHMaterial and the scope digest: what runs is the       *)
(* target, the host key and the credential that were previewed and         *)
(* approved.                                                               *)
THEOREM ApprovedBindingRuns == Spec => []RunsApprovedBinding
<1>1. FlowInv => RunsApprovedBinding
    <2> SUFFICES ASSUME FlowInv, NEW r \in everRan
                 PROVE  /\ jobOf[r] = asks[r] /\ scopeOf[r] = binding[asks[r]]
                        /\ keySeen[r] = binding[asks[r]].key
                        /\ credSeen[r] = binding[asks[r]].cred
        BY DEF RunsApprovedBinding
    <2>1. r \in Requests
        BY DEF FlowInv, FlowTypeOK
    <2>2. place[r] # "idle" /\ answer[r] \notin {"busy", "refused"}
        BY <2>1 DEF FlowInv, ExecutionInv, ExecutionAt
    <2> QED
        BY <2>1, <2>2 DEF FlowInv, BindingInv, BindingAt, SSHMaterialMatches
<1> QED
    BY <1>1, FlowInvariance, PTL

(* executeRunbook reports a job as succeeded only if the Connector ran     *)
(* every step of its plan.                                                 *)
THEOREM SucceededWasExecuted == Spec => []SucceededMeansExecuted
<1>1. FlowInv => SucceededMeansExecuted
    BY DEF FlowInv
<1> QED
    BY <1>1, FlowInvariance, PTL

(* A runbook job that ends is audited once, at the write that ends it. *)
THEOREM ClosedJobsAudited == Spec => []ClosedOnce
<1>1. FlowInv => ClosedOnce
    BY DEF FlowInv
<1> QED
    BY <1>1, FlowInvariance, PTL

(* Runbook jobs move through the table of CanTransition and no other way,  *)
(* and their version counts the moves.                                     *)
THEOREM FlowRefinement == Spec => ImplementsStateMachine
<1> USE DEF StateMachine!Init, StateMachine!Next, StateMachine!Create,
            StateMachine!Transition, StateMachine!smVars
<1>1. Init => StateMachine!Init
    <2> SUFFICES ASSUME Init PROVE StateMachine!Init
        OBVIOUS
    <2>1. \A j \in Jobs : job[j].state = "absent" /\ job[j].version = 0
        BY DEF Init, NoJob
    <2> QED
        BY <2>1
<1>2. FlowInv /\ [Next]_vars => [StateMachine!Next]_StateMachine!smVars
    <2> SUFFICES ASSUME FlowInv, [Next]_vars
                 PROVE  [StateMachine!Next]_StateMachine!smVars
        OBVIOUS
    <2>1. FlowTypeOK /\ PreviewInv
        BY DEF FlowInv
    <2>2. PICK j \in Jobs : Touches(j)
        BY <2>1, StepMoves
    <2>3. job[j] \in JobRecord /\ \A i \in Jobs \ {j} : job'[i] = job[i]
        BY <2>1, <2>2 DEF FlowTypeOK, JobRecord, Touches, Kept
    <2>4. CASE Kept(j)
        BY <2>3, <2>4 DEF Kept
    <2>5. CASE Created(j)
        <3>1. job[j].state = "absent" /\ job'[j].state = "queued" /\ job'[j].version = 1
            <4>1. job'[j] = [job[j] EXCEPT !.state = "queued", !.version = 1]
                BY <2>5 DEF Created
            <4>2. job[j].state = "absent"
                BY <2>1, <2>5 DEF Created, PreviewInv
            <4> QED
                BY <2>3, <4>1, <4>2, CreateRecord, Zenon
        <3>2. StateMachine!Create(j)
            BY <2>3, <3>1
        <3> QED
            BY <3>2
    <2>6. ASSUME NEW to \in JobStates, Moved(j, to)
          PROVE  [StateMachine!Next]_StateMachine!smVars
        <3>1. /\ CanTransition(job[j].state, to)
              /\ job'[j].state = to /\ job'[j].version = job[j].version + 1
            BY <2>3, <2>6, TransitionRecord DEF Moved
        <3>2. StateMachine!Transition(j, to)
            BY <2>3, <3>1 DEF StateMachine!CanTransition, StateMachine!Terminal, CanTransition,
                              Terminal
        <3> QED
            BY <3>2 DEF StateMachine!JobStates, StateMachine!Terminal, JobStates, Terminal
    <2> QED
        BY <2>2, <2>4, <2>5, <2>6 DEF Touches
<1> QED
    BY <1>1, <1>2, FlowInvariance, PTL DEF Spec, ImplementsStateMachine, StateMachine!Spec

-----------------------------------------------------------------------------
(* The session that asked for job j is gone, and no execute request for j  *)
(* has passed its check.                                                   *)
RevokedInTime(j) ==
    /\ session[j] = "ended"
    /\ \A r \in Requests : asks[r] = j => handler[r] = "idle"

(* It stays so: the check looks the session up again. *)
LEMMA RevokedInTimeStable ==
    ASSUME FlowInv, NEW j \in Jobs, RevokedInTime(j), [Next]_vars
    PROVE  RevokedInTime(j)'
<1>1. FlowTypeOK
    BY DEF FlowInv
<1> USE DEF RevokedInTime
<1>2. ASSUME NEW i \in Jobs, PreviewRequest(i) \/ Preview(i) PROVE RevokedInTime(j)'
    BY <1>2 DEF PreviewRequest, Preview, PreviewCreate, PreviewStart, PreviewResult
<1>3. ASSUME NEW i \in Jobs, EndSession(i) PROVE RevokedInTime(j)'
    BY <1>1, <1>3 DEF EndSession, FlowTypeOK
<1>4. ASSUME NEW r \in Requests, NEW i \in Jobs, NEW s \in Scopes, ExecuteCheck(r, i, s)
      PROVE  RevokedInTime(j)'
    BY <1>1, <1>4 DEF ExecuteCheck, envOfExecute, FlowTypeOK
<1>5. ASSUME NEW r \in Requests, Execute(r) PROVE RevokedInTime(j)'
    <2>1. /\ UNCHANGED asks /\ handler[r] # "idle"
          /\ \A q \in Requests \ {r} : handler'[q] = handler[q]
        BY <1>5, ExecuteShape
    <2>2. UNCHANGED session
        BY <1>5 DEF Execute, ReadHost, ReadCredential, StartExecution, Send, GiveUp, Receive,
                    StoreResult, Fail, envOfExecute
    <2> QED
        BY <2>1, <2>2
<1>6. ASSUME NEW r \in Requests, Deliver(r) \/ Connector(r) PROVE RevokedInTime(j)'
    BY <1>6 DEF Deliver, Connector, flowVars
<1>7. CASE RestartConnector \/ ChangeHost \/ ChangeCredential \/ UNCHANGED vars
    BY <1>7 DEF RestartConnector, ChangeHost, ChangeCredential, vars, flowVars
<1> QED
    BY <1>2, <1>3, <1>4, <1>5, <1>6, <1>7 DEF Next

(* executeRunbook looks the requesting session up again: a session that    *)
(* ended before any execute request passed that check keeps the plan from  *)
(* ever running.                                                           *)
THEOREM RevocationKeepsPlanFromRunning == Spec => RevokedBeforeApprovalNeverRuns
<1>1. ASSUME NEW j \in Jobs
      PROVE  Spec => [](session[j] = "ended"
                            /\ (\A r \in Requests : asks[r] = j => handler[r] = "idle")
                        => [](\A r \in everRan : asks[r] # j))
    <2>1. session[j] = "ended" /\ (\A r \in Requests : asks[r] = j => handler[r] = "idle")
            => RevokedInTime(j)
        BY DEF RevokedInTime
    <2>2. FlowInv /\ RevokedInTime(j) /\ [Next]_vars => RevokedInTime(j)'
        BY RevokedInTimeStable
    <2>3. FlowInv /\ RevokedInTime(j) => \A r \in everRan : asks[r] # j
        BY DEF FlowInv, FlowTypeOK, RevokedInTime, ExecutionInv, ExecutionAt, ApprovalInv,
               ApprovalAt
    <2> QED
        BY <2>1, <2>2, <2>3, FlowInvariance, PTL DEF Spec
<1> QED
    BY <1>1 DEF RevokedBeforeApprovalNeverRuns

=============================================================================
