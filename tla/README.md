# vps-manager: verification project

TLA+ models of vps-manager, checked with TLC on small instances and, where it
matters most, proved with TLAPS for every value of the constants. The models are
translated from the Go sources; paths below are relative to `src/services/`
unless they start with `docs/`.

Contents: 1. the system; 2. the modules; 3. what the runs check; 4. what is
proved; 5. what the checks showed; 6. what is not modelled; 7. the plan.

## 1. The system

vps-manager lets operators manage SSH hosts through a web console. Three Go
processes do the work:

* the **control plane** (`control-plane/`) keeps hosts, credentials, jobs, audit
  events and sessions, and runs SSH jobs in goroutines of its own;
* the **Connector** (`connector/`) sits near the hosts, is called by the control
  plane with signed requests, executes runbooks and opens terminals;
* the **WebSSH gateway** (`websshgateway/`) is a library of the control plane: it
  trades an authorization for a one-time ticket and proxies a browser WebSocket
  to the Connector.

### Inventory

| Component | State | Operations | Interacts with | What is hard | What makes it correct |
|---|---|---|---|---|---|
| Job model (`control-plane/internal/model`) | state, version and times of a job | `CanTransition`, `TransitionJob` | every job handler | several writers of one record | jobs move only along the state machine; the version counts the moves |
| SSH jobs (`internal/api/server.go`, `operations.go`, `connector/sshconnector/client.go`) | job table, `jobCancels`, contexts, audit trail | create snapshot, command, scan; run; cancel; time out | sessions, hosts, credentials, target, AI gateway | goroutine, cancel request, deadline, revocation and deletion race | one end per job, audited once; a cancel handle for every open job; revoked or cancelled jobs do not reach the target; every job ends |
| Runbooks, control plane side (`internal/api/runbooks.go`) | job, binding (target, key, credential), approval | preview, execute, fail, store result | Connector over HTTP | lost and late answers, two execute requests, host changed after approval | a plan starts at most once, with the approved binding; success is reported only for a plan that ran |
| Runbooks, Connector side (`connector/service/runbook_handler.go`, `runbook_ledger.go`, `runbook/executor.go`) | idempotency ledger, slots | admit, claim, step, complete | control plane, target | repeated requests, eviction, panics, restart | no concurrent executions of a job; faithful replays; bounded memory |
| WebSSH gateway (`websshgateway/`) | tickets, consumed tickets, sessions, slots | issue, connect, re-authorize, prune, close | control plane API, Connector, browser | ticket races, revocation of an open terminal, shutdown | a ticket opens at most one terminal; a revoked terminal closes; limits hold |
| WebSSH on the Connector (`connector/service/webssh.go`, `connector/webssh/pty.go`) | tickets with credentials, sessions, slots | create ticket, connect, proxy, close | gateway, target | capacity after consumption, shutdown | as for the gateway; credentials are wiped |
| Sessions and roles (`internal/auth`) | token table | issue, authenticate, revoke | every handler | expiry between check and use | a revoked session authorizes nothing |
| Identity assertions (`internal/identity`, `src/web/lib/identity-bridge.ts`), signatures (`connector-protocol/auth.go`), Connector SSH service (`connector/service/server.go`) | tables of consumed assertions and of nonces, slots | sign, verify, consume, issue a session, acquire, answer | sessions, Connector, console | replay at the edge of a window, a clock read before the lock, a full table | single use, nothing late, and sign-out is final |
| Step-up challenges (`internal/stepup`) | challenges, grants | issue, verify, consume | none: no handler uses it | | not modelled |
| Host registry (`server.go`) | hosts with versions, pinned keys, probe slots | create, update, pin, probe, delete | jobs, runbooks, terminals | read, probe and write with a version in between | no lost update; a pinned key belongs to the current address |
| Cloudflare deployments (`internal/api/cloudflare*.go`, `internal/store/cloudflare*.go`, `cloudflareprovider/`) | workers, versions, tokens, plans | register, plan, claim, execute, finish | Cloudflare API, both repositories | stale reads before a plan and before a claim, unknown outcome of a call | a plan is executed once, and its success is true; plans form a chain; every end that an execution writes is accepted |
| PostgreSQL persistence (`persistence/`, `internal/store/postgres.go`) | tables | transactions, compare-and-swap updates | control plane | several statements without a transaction; rules that are written in Go and again in SQL | hosts and plans keep their promises with either repository |
| Coordinator (`persistence/coordinator.go`) | leases, idempotency records, cancellation signals | acquire, renew, release, put, request | Redis; today only the readiness probe calls it | repeated and late commands, expiry by two clocks, lifetimes that every call chooses | holders of a lease overlap by no more than the delay of an answer; records and signals last |
| AI gateway (`ai/`, `internal/aianalysis`), anomaly rules, snapshot parsers, key manager, envelopes | none that evolves | analyse, parse, encrypt | SSH jobs | fallback paths | stateless; outcomes appear in the job models |
| Web console (`src/web/`) | cached session, the host it shows, the probe it holds | polling, forms | control plane API | what it remembers is stale | its part of pinning and of session exchange is in the models |

`PROJECT.json` lists the same components with their status and, under
`hazards`, the places in the code where a test would hardly reach a failure.

## 2. The modules

```
JobModel ── JobStateMachine            the abstract state machine of jobs
   │             ▲        ▲ refine
   ├── SSHJobs ──┘        │            SSH jobs of the control plane
   │      └ SSHJobs_proofs│
   └── RunbookFlow ───────┘            runbook jobs, end to end
          ├ extends RunbookLedger      the Connector's execute endpoint
          │            └ RunbookLedger_proofs
          └ RunbookFlow_proofs         extends RunbookLedger_proofs too
WebSSH ── WebSSH_proofs                browser terminals: API, gateway, Connector
CloudflareDeployment                   plans and executions of a Worker, both repositories
   └ CloudflareDeployment_proofs
HostRegistry ── HostRegistry_proofs    one host: record, host key, credential
AccessControl ── AccessControl_proofs  signed requests, identity assertions, sessions
Coordinator ── Coordinator_proofs      leases, idempotency records, cancellations
```

`MC*` modules extend a component for TLC; they only define sets that a cfg
cannot write down.

### JobModel, JobStateMachine

`CanTransition` is the table of `model.CanTransition`; `TransitionJob` stores the
state, increments the version and sets the started and finished marks.
`JobStateMachine` is the abstract specification: states appear as `queued` with
version 1, move along `CanTransition`, each move increments the version, and a
terminal job never changes.

### SSHJobs

The three kinds of SSH job (`createRuntimeSnapshot`, `createReadOnlyCommand`,
`createAnomalyScan`) share a life cycle, which the module models once with the
kind as data. `pc[j]` is the place of the request handler and then of the job's
goroutine; a step ends wherever other goroutines can see or change shared state
(repository lock, `jobCancels` lock, session table, context).

| Actions | Code |
|---|---|
| Request … Spawn | the handlers: authorize, check the pinned key and the credential, `CreateJob`, audit, register the cancel function, `go` |
| AuthorizeQueued, CheckContext, Start | `startAuthorizedJob` / the head of `runSnapshotJob` |
| ReadHost, ReadCredential, Reauthorize, OpenCredential | `executeCatalog` and its snapshot counterpart: everything is read again, the session is checked again before the envelope is opened |
| Dial, Handshake, StartCommand, AwaitCommand | `sshconnector.Client.Run` and `runSession` |
| Analyze | the tail of `runAnomalyScanJob` with the AI gateway |
| AuditFinished, Unregister | finish helpers and the deferred delete |
| CancelRead … CancelAudit | `cancelJob` |
| Deadline, EndSession, PinHostKey … DeleteCredential | the job timeout and the other requests that change what a job reads |

Data is abstracted to what a job can tell apart: a session is active or ended,
a host is unpinned, pinned or deleted, a credential exists or not, a command
ends well or badly. `audits` is a history per job and action.

### RunbookLedger

One HTTP execute request is one process. `Admit` and `Refuse` are
`handleExecute` up to the ledger, `Claim` is `runbookLedger.claim` with its
scope comparison, replay, eviction of the oldest completed entry and refusal
when nothing can be evicted; `Step` is one round of `runbook.Execute`; `Complete`
is `runbookLedger.complete` and the response; `Panic` a panic that `Wrap`
recovers; `Restart` the loss of the process. A response is named after the
request that produced it, so that "the cached result" can be compared with
"the result of this approval".

### RunbookFlow

`previewRunbook` and `executeRunbook` composed with RunbookLedger, whose
variables and actions it extends: a member of `Requests` is an execute request
of the user and the one Connector call it makes. `Send`, `Deliver`, `GiveUp` and
`Receive` are the HTTP call: it may be delivered after its sender gave up, and
its answer may be lost. A scope digest is represented by the binding it is
computed from (target, host key, credential), a collision-free hash. The ledger's
clock stands still here: it only picks among completed entries, and at equal
times any of them may be picked. Only the session that previewed a job may
execute it, which is the code's rule, and is why `session` is indexed by job.

### WebSSH

A terminal from the ticket request to the end of the PTY, over three parts that
run concurrently. `issue[t]` is the place of one `Issue` call, `conn[c]` that of the
gateway's handler of one browser WebSocket, `up[c]` that of the Connector's handler
of the upstream WebSocket which the former opened. The tables of outstanding and of
consumed tickets map a ticket to its expiry (0: no entry); every operation that
takes the lock prunes first, as the code does.

| Actions | Code |
|---|---|
| RequestTerminal, IssueAuthorize | `createTerminalSession`, which reads the host and its key, and `Issue` up to the first authorization |
| ReserveTicket, ConnectorTicket, StoreTicket, ReleaseReservation | `reserveTicket`, the call of the Connector's `createTicket` with lost answers, `validateConnectorResponse` and `storeTicket` with the "issued" event, the deferred release |
| BeginHandler, RegisterSession, Leave | `ServeHTTP` with its wait group, slot and deferred clean-up |
| ConsumeTicket, NoHello | the browser's hello and `consumeTicket`, which takes the ticket out whether or not the binding matches |
| AuthorizeSession, DialConnector, SendHello, AuditConnected | `serveSession` up to the proxies; each early return audits "disconnected" |
| ProxyResult, Reauthorize, ContextDone, AuditDisconnected | the select loop and `finished` |
| BeginSession, UpConsumeTicket, UpNoHello, AcquireSession, OpenPTY, EndPTY | `handleWebSSHConnect` and `serveConnection` |
| PruneGateway, PruneConnector, CloseGateway, CloseConnector | the prune loops and `Close` on either side, up to its wait |
| Revoke, ChangeHostKey, Tick | session, host or credential gone; `updateHost` and `pinHostKey`; the clock |

`Close` waits for the handlers its wait group counts; the model has the step that
starts the shutdown, and `ShutdownCompletes` says that the wait ends. A request that is
refused before it has a slot changes nothing and has no action. The gateway's own
hello always repeats the binding it got, so that the Connector only refuses it for
the ticket. A hello whose write failed may have arrived. The events `issue_denied` and
`issue_failed` have no connection ID and are left out of the trails. In the code
the limit of remembered tickets is four times the limit of outstanding ones; it is a
constant of its own here so that a small instance reaches both.

### CloudflareDeployment

One registered Worker. A member of `Deployments` is one `createWorkerDeployment`
request with the plan it may create; a member of `Requests` one
`executeWorkerDeployment` request.

| Actions | Code |
|---|---|
| CreateWorker, CreateWorkerVersion, PutWorkerToken, DeleteWorkerToken | the registry handlers of `cloudflare.go` |
| PlanReadWorker, PlanPrepare, PlanWorkerDeployment | `createWorkerDeployment`: the handler works on a copy of the Worker; the plan is stored under the conditions of the repository in use (`MemoryPlan`, `PostgresPlan`) |
| ExecuteReadDeployment, ExecuteReadWorker, ExecuteReadVersion, ExecuteOpenToken | `executeWorkerDeployment` up to the claim, one step per read |
| Claim, ValidateAccess, UploadVersion, RecordVersion, RollbackHistory, CreateDeployment, WaitForDeployment, FinishSucceeded, FinishFailed | `runCloudflareDeployment` and the provider client it calls |

`RequestAPI` is one request to Cloudflare: it is carried out or not, and even when it
was, its answer may be lost. Executions exist only with the in-memory repository:
`NewServer` refuses secret execution in production (`server.go:102`), and production is
what uses PostgreSQL. Every execution makes a provider client of its own, so that the
client's idempotency cache is never shared and has no part in the model. A timed-out
request whose effect comes later still is not modelled.

The times of a record are wall-clock times: `s.now().UTC()` drops Go's monotonic
reading, and that clock may be set back at any moment. So any write of a
record may find its time earlier than the one it follows (`ordered`), and
`validWorkerDeploymentTransition` then refuses it. A refused claim is an ordinary conflict; a
refused end (`WriteEnd`) is reported as `persistence_failure`, nobody tries again, and the
request is left at the place `unrecorded` with its deployment running. In
PostgreSQL only planning happens, and it may fail there for reasons of its own (the
connection, `CHECK (updated_at >= created_at)`), which `PlanWorkerDeployment` allows.
There is one Worker, so the one difference between the repositories that two Workers
would show is not in the model: a second Worker with the same script is refused by the
UNIQUE of `migrations/000002` and accepted by `Memory.CreateWorker`.

### HostRegistry

One host with the clients that read and change it, over either repository. `work[c]`
is the request a client has under way: the version it bears and the record its handler
read. `updateHost` and `pinHostKey` read the record, build a new one and write it with
a compare-and-swap on the version *the client sent*; the version the handler read
is never compared (`server.go:437`). `BeginUpdate` and `UpdateHost`, `BeginProbe` and
`ProbeHostKey`, `BeginPin` and `PinHostKey` are these handlers up to and from the read.
The console notes the version of the record it shows, probes, and pins for the noted
version (`src/web/app/dashboard-shell.tsx`, 616 to 680), which `probe[c]` holds. Deletion
is one step in memory and three statements without a transaction in PostgreSQL
(`BeginDelete`, `DeleteCurrentSecret`, `DeleteAsset`). `Abandon` is every early return
and failure. A host key stands for the server that presents it, with a generation;
`ChangeServerKey` gives a server a new one.

### AccessControl

The two signed messages of the system: requests of the control plane to the Connector,
and identity assertions the console exchanges for sessions. A member of `Handlers` is
one HTTP request that carries such a message; any message that was sent may arrive at
any idle handler, late or for the second time. Both verifiers read the clock before
they take their lock, and `consume` reads it twice: a handler keeps these readings.
`VerifyRequest` and `RecordNonce` are `Verifier.Verify` before and in its critical
section, with the purge of expired entries and the limit of the table; `Acquire` and
`Complete` the slots of the Connector; `ValidateClaims`, `ReadClock` and `Consume` the
identity verifier; `Issue`, `Revoke` and `DropExpired` the session table;
`SignAssertion` and `ReceiveSession` the console's bridge with its cache.
`TimingAssumption` states what single use rests on: clocks at most `Drift` apart, and
a handler served within `Stall` of reading its clock, with `Drift + Stall < Skew` and
`Stall <= IdSkew`. This excludes one instant: a timestamp exactly one skew ahead of
the receiver is accepted (`auth.go:147` is inclusive), and two skews later its nonce is
purged (174 is inclusive as well) while the request is still fresh. The bridge looks at
its cache, imports its key and then stamps the assertion; these are one step here,
because a stamp may differ from the clock anyway and no property depends on it. The
tables live in the process: a restart forgets them, which the model leaves out, as it does a restart of everything else in memory.

### Coordinator

Leases, idempotency records and cancellation signals, each with one key, kept in
memory or by Redis. A member of `Calls` is a caller with its random token; each
operation that writes names its own lifetime, within the range of
`validateCoordinatorInput` (`ValidTTL`), so that a renewal or a second cancellation
request may shorten what is there. A command is executed by Redis at once (`Execute`);
the command or its answer may be lost or late, the Redis client may repeat it (`Retry`),
its caller may give up (`GiveUp`), and what was given up may still be executed later
(`ExecuteLate`). After a failed renewal the caller still has the lease with the
`ExpiresAt` it was told before, whatever Redis has made of it.

The code computes `ExpiresAt` from its own clock when the answer has come, so it is
later than the end of the lease at Redis by up to the delay of the answer, and no margin
is kept. Two callers may therefore both believe they hold the lease; what can be said
is `LeaseOverlapBounded`: only in the last `Delay` of one of them, and never with the
storage in memory. The property excepts a caller that asked to shorten its own lease and
did not hear the answer (`Steady`, with the history variable `least`): Redis may let that lease go
long before the `ExpiresAt` the caller still has. There are no fencing tokens in this
code. A repeated `SetNX` of a lease that was granted is told `ErrLeaseHeld`, and nobody
holds the lease until it expires: safe, and visible in the model. Restarts and failovers
of Redis are not modelled. Only the readiness probe calls the Coordinator today.

## 3. The runs

| Run | Instance | Shows |
|---|---|---|
| `ssh_jobs` | 1 job, 1 host, 2 sessions (one authorized), 2 kinds, 2 cancels; 37,740 states | the job state machine is implemented; the audit trail, the cancel table and the job table agree; revocation and cancellation stop execution; jobs end and release their handles |
| `ssh_jobs_timeout_doc` | violation | see finding 1 |
| `runbook_ledger` | 3 requests, 2 jobs, 2 digests, ledger of 1, 2 slots, 1 restart; 911,648 states | exclusive execution, faithful replay, at most one run under capacity, owners of entries in progress, answers |
| `runbook_flow` | 2 requests, 1 job, 2 targets, 2 keys, 1 credential, 2 steps, 1 restart; 278,256 states | at most one start of a plan, approved binding, truthful success, one closing event, no run after revocation, jobs come to rest |
| `webssh` | 2 tickets, 2 connections, 1 key (pinned or not), gateway: 1 outstanding, 1 remembered, 2 slots, Connector: 1, 1, 1, lifetimes 1 and 2, clock to 2; 1,124,424 states | a ticket is accepted once; reservations and tables stay within their limits; the audit trail of every connection is complete |
| `webssh_liveness` | 1 ticket, 2 connections, 1 slot; 100,544 states | a revoked terminal closes on both sides; both shutdowns complete and nothing outlives them |
| `webssh_host_key_doc` | violation | see finding 2 |
| `cloudflare` | 3 plans, 3 execute requests, 2 versions, a clock that may be set back; 1,563,610 states | a plan is claimed by one request and deployed at most once; success is true; plans form a chain; every end is one the repository accepts when its times are in order |
| `cloudflare_superseded` | violation | see finding 3 |
| `host_registry` | 2 clients (1 administrator), 2 addresses, 1 probe slot, 2 keys per server, versions to 3; 5,192,510 states | a pinned key was presented at the host's address; no update is lost |
| `access_control` | 2 requests, 1 assertion, 3 handlers, 1 nonce, 1 slot, skew 3, drift 1, stall 1, clock to 6; 5,234,127 states | no message is acted on twice, nor too late; no repeated assertion opens a session after sign-out |
| `coordinator` | 3 callers, lifetimes 1 and 2, delay 1, 1 failed try, 1 kind of entry in a behaviour, clock to 3; 3,969,482 states | two holders of a lease overlap only in the last delay of one; a record is its creator's for its time; only a shorter request ends a signal early |

The type invariants of SSHJobs, RunbookLedger, WebSSH, AccessControl and Coordinator, and
the bound of the ledger, are proved (section 4) and not repeated in the runs.

**Bounds.** SSH jobs share nothing with each other but sessions, hosts and
credentials, which the environment already changes at every moment: a second job
adds states but no interaction, and the proofs cover any number. Two kinds
suffice because snapshots and commands behave alike and scans have the extra
step. `MaxCancels = 2` lets a second cancel request follow the first while its effect is
still under way; the handler of one request is at work at a time. The ledger needs
three requests: one that fills it, one that evicts and one that repeats the
first; two digests make conflicts; the proofs cover any size. In the flow two
execute requests race for one job; two targets and two keys are needed for a
binding to be wrong in either; one restart is enough to forget a ledger while a
request is still on its way. Two terminal requests compete for one
place in each table and two connections for one ticket; with lifetimes of one and
two ticks a ticket can expire before, between and after its uses, and the memory of
a consumed ticket can expire as well. Tickets and connections are interchangeable,
which the safety run uses as a symmetry. Three Cloudflare plans allow a rollback to
the version before the last, and three executions let two race for a plan while a third
runs another. For a host, two clients race with each other's versions; versions up to 3
let an old version meet a record that was changed twice, and a second key generation
makes a probe stale. For messages, the clock passes the time at which a nonce of time 0
is purged (twice the skew), so that a replay after the purge is tried; one place in the
table makes it full with two requests. Three callers of the Coordinator let a
lease pass on while a late command of its first holder is under way, and a third acquire
it; two lifetimes make an operation that shortens what is there, and the longer one is
longer than the delay. One failed try makes a lost, a late and a repeated command
possible. The entries are independent of each other, so `MaxKinds = 1` lets the callers of
one behaviour meet at one of them; which one is open. The deadlock check is off because
every instance has finitely many jobs or requests, and the system rests when they are done.

**Fairness.** Weak fairness on the steps of a goroutine or handler that has a
next step: Go runs runnable goroutines, and dialling, handshake, command, AI
gateway and Connector calls have timeouts, which the failing branches of the
actions stand for. No fairness is given to users, cancellations, deadlines,
revocation or other environment steps, nor to the one step of the SSH client
without a timeout: `NewSession` and `session.Start` wait for the target after
the connection's deadline was cleared (`sshconnector/client.go:211`). The
liveness properties therefore except a job or an execution whose target stalls
there for ever (`[](pc[j] = "session")`, `[](place[r] = "executing")`).

For terminals, a handler's steps before and after proxying are fair because each is
local or has a timeout (handshake, authorization, dial, write, SSH connect). A proxied
terminal ends fairly only for the three reasons the code looks for at intervals or
through a context: the other side has closed, the authorization is gone when the ticker
fires, the process shuts down. The idle and absolute timeouts could end it as well and
are not relied on.

CloudflareDeployment, HostRegistry, AccessControl and the Coordinator are checked for
safety only; a refused or lost request there is not retried by the code.

**Mutants.** Each property comes with a plausible slip of the code it is about (a
dropped second check, a missing deferred delete, an eviction that does not look
at the state), written beside the definition it replaces; TLC then finds the
property violated.

## 4. What is proved

The eight modules `*_proofs` are checked by TLAPS and hold for
all values of the constants that satisfy the named assumptions:

* `NonemptyAssumption`, `KindsAssumption`, `AccessAssumption`,
  `MaxCancelsAssumption`: there are jobs, hosts, sessions and kinds; kinds are
  those of the code; access relates sessions to hosts; the bound is a number;
* `LedgerConstants`: jobs and digests exist, jobs are finitely many, limits are
  positive, bounds are numbers;
* `ScopesAssumption`: the digest of a plan stands for its target, host key and credential;
* `CloudflareConstants`: deployments are finitely many;
* `WebSSHConstants`: tickets and connections are finitely many, there is a key, limits
  and lifetimes are positive, the clock's bound is a number;
* `HostConstants`: administrators are clients, there is an address, servers have at least
  one key, bounds are numbers;
* `AccessConstants`, `TimingAssumption`: requests and assertions differ, requests and
  handlers are finitely many, times and limits are numbers, lifetimes are positive, and
  the timing stated in section 2;
* `CoordinatorConstants`: the shortest lifetime is positive and not longer than the
  longest, the delay and the bounds are numbers.

**SSH jobs.** None of the properties is inductive alone: whether a finished job
was audited, whether a handle exists, or whether a cancellation has a cause
depends on where the goroutine is. The inductive invariant is
`IndInv == TypeOK /\ PlaceInv`, where `PlaceInv` says for every job what its place
implies for the state of its record (`StateAt`), its entry in `jobCancels`
(`RegisteredAt`), its audit trail (`AuditedAt`), a cancel request in flight
(`CancellerAt`), its progress on the target (`TargetAt`), the cause of a
cancellation (`CauseAt`) and the record itself (`RecordAt`). `Invariance` proves
it; from it follow `TypeCorrect`, `AuditTrailCorrect`, `CancelTableCorrect`,
`CancellationJustified` and `CancelRecordCorrect`. `Refinement` proves that SSHJobs
implements `JobStateMachine`. `RevocationIsEffective` and
`EarlyCancelIsEffective` are proofs of `[](P => []Q)`: each rests on a stable
formula ("revoked in time", "stopped in time") that P implies, every step keeps,
and that implies Q.

**The ledger.** `LedgerInv` ties entries to requests: an entry in progress has
the one request that executes it (or a panicked one), a stored response belongs
to a finished request of the same job and digest, `ran` records who started a
job, and what was replayed came from such a response. Exclusive execution is not
inductive without the ownership part, since eviction could otherwise remove an
entry that is being executed. The capacity bound needs the cardinality facts of
`FiniteSetTheorems` (`ClaimNewCapacity`). From `LedgerInvariance` follow
`LedgerTypeCorrect`, `ExecutionIsExclusive`, `LedgerIsBounded`, `ReplayIsFaithful`,
`RunsOnceUnderCapacity` and `EntriesHaveOwners`.

**Runbook jobs end to end.** The flow extends the ledger: every step of it is a
step of the Connector or leaves the Connector alone, so `LedgerInv` carries over, and
`FlowImplementsLedger` states that the Connector driven by this control plane behaves as
`RunbookLedger` says. Why does a plan start at most once, although the ledger alone
does not promise it (an evicted entry, or a restarted Connector, forgets)? The invariant
`FlowInv` answers with `BeganOnce`: a request that got past `StartExecution` (`Began`)
took its job out of awaiting_approval, and no other request for that job did.
This needs `PreviewInv` (only the preview moves a job to awaiting_approval, and it is
closed by then) and `ApprovalInv` (once a request began, its job is running or
finished). `ExecutionInv` ties a started plan to its outcome and its answer, and
`BindingInv` says that what the Connector took in is the approved binding. From
`FlowInvariance` follow `FlowTypeCorrect`, `PlanStartsOnce`, `ApprovedBindingRuns`,
`SucceededWasExecuted` and `ClosedJobsAudited`. The lemmas about `Touches` say, once
for each action, that a step leaves a job and its trail alone, creates it, or moves it
along the table with the event that belongs to the move; `FlowRefinement` (RunbookFlow
implements `JobStateMachine`) uses the same lemmas. `RevocationKeepsPlanFromRunning`
rests on the stable formula `RevokedInTime`.

**Cloudflare.** `CloudInv` has one part for each thing a request relies on after it was
read. `TargetInv` and `PlanInv`: the plan under execution is a stored one and keeps its
version. `ExecutedOnce` needs `HistoryInv`: once Cloudflare lists a deployment of a plan,
the one request executing the plan is past asking for it. `SucceededMeansDeployed` needs
`ContentInv` and `VersionInv`: the provider version that a request holds has the module
of its plan, also when another request has meanwhile stored a different provider version
for it. `PlansChain` is inductive with `NumberInv`. `Keeps` collects what no
step takes back (the module of a provider version, a deployment at Cloudflare, the
version of a stored plan, a success); it is proved once per action, carries the
facts about requests that do not move, and is itself the theorem `NothingTakenBack`.
`EndIsAlwaysAccepted` says that only a clock that was set back keeps an end out of its
record: a plan has one executor, and its record is running (`ExecutorAlone`); an execution
that found its deployment active has a provider version (`VersionInv`); so what it
writes is a transition that `validWorkerDeploymentTransition` accepts.

**Terminals.** `TicketSingleUse` needs `FreshInv`: a ticket in the gateway's table was
never accepted, and one that was never stored is in no table. That a ticket leaves
the table of consumed ones when it expires then does no harm, which is the
argument a reader of `consumeTicket` has to make. `TicketLimits` is inductive with the
types; its proof counts: a reservation becomes an entry, an entry becomes a remembered
one, and pruning only removes. `AuditTrailComplete` rests on `AuditInv`, which adds to
the above that the place of a handler determines the trail of its ticket
(`TrailsAt`), that a connection has one ticket at most, and that the Connector's
handler passes the hello only after the gateway's has sent it (`LinkInv`).

**The host registry.** Why is it enough to compare the version the client sent?
`VersionInv` says that versions name records: whoever holds a record with the host's
version holds the host's record, and a handler's copy is never older than the version it
was sent. If the write succeeds, the version sent is the host's, so the copy is the host's
record (`CopyIsHost`), which gives `NoUpdateIsLost`. `ProbeInv` says the same of a noted
version and the address that was probed, which gives `PinnedKeyIsConfirmed`. `FreshInv`
(nobody holds anything of a host before it is created) starts the induction.

**Signed messages.** `SingleUse` needs that an entry of a table outlives every
handler that could still accept its message. `StampInv` bounds the age of what was sent,
`WaitInv` what a waiting handler's clock readings say of its message and of the present,
`NonceInv` and `ConsumedInv` that a message somebody acted on is in the table or too old
for every handler still under way. `TimingAssumption` enters in the last two; without it
a handler that stalls between its clock reading and the lock can accept a message
whose entry was purged. `LateRefused` follows from `WaitInv`. `SignOutIsFinal` adds
`BoughtInv`: whoever has or had a session for an assertion has a handler that issued it;
with `NoReplay` no other handler gets as far as issuing one.

**The Coordinator.** While an entry is live only its own caller's commands change it, or,
for a signal, another request. `TimeInv` bounds the times of callers and commands under
way; `PlaceInv` says that a release is the last operation of its caller and that `least`
bounds the lifetimes of the renewals given up; `AnswerInv` that an answer of success is
true or older than the lifetime. `HoldInv`: a steady holder is the owner of the entry
until `Delay` before its `ExpiresAt`; as an entry has one owner, `LeaseOverlapIsBounded`
follows. `RecordInv` and `SignalInv` give `RecordIsKept` and `SignalIsKept`.

**Model-checked only.** Liveness (`EveryJobEnds`, `CancelHandlesAreReleased`,
`AdmittedIsAnswered`, `RunningComesToRest`, `RevokedTerminalsClose`,
`ShutdownCompletes`) needs fairness and ENABLED, which the prover does not handle.
Every safety property that a passing run checks is proved.
The violations of section 5 are counterexamples, so TLC alone shows them.

## 5. What the checks showed

1. *A job that neither the timeout nor a cancel ends.*
   `control-plane/OPERATIONS.md:47` bounds the command phase and lets running
   jobs be cancelled; a target that completes the handshake and then does not
   answer the channel request holds the goroutine (`sshconnector/client.go:227`).
2. *A ticket that is not bound to the host key.* `docs/architecture.md:122` says that a
   terminal ticket is bound to the version of the host key; `authorizeWebSSH` asks for
   some pinned key (`control-plane/internal/api/webssh.go:114`), so that a ticket
   requested with one key is still used after another was pinned. The Connector then
   compares the target with the key of the request.
3. *A superseded plan that is executed.* `executeWorkerDeployment` refuses a plan
   "superseded by a newer desired version" (`cloudflare_execution.go:110`), but decides
   so before it reads the version and the token; the claim only compares the plan's
   own state. A newer plan may be made, and even executed, in between.

Observed while modelling, and not the subject of a run:

* the move of a job from queued to running produces no audit event
  (`operations.go:233`, `server.go:749`), where `docs/architecture.md:162` has one for
  every state change;
* a ledger entry that was evicted is forgotten (`runbook_ledger.go:70`), so that a
  repeated request could run again, against `docs/runbooks.md:43`; the control plane
  never repeats one (`PlanStartsAtMostOnce`);
* `cancelJob` answers "job is already in a terminal state" for a runbook job that awaits
  approval (`server.go:865`);
* an end whose wall-clock time is before the start is refused
  (`internal/store/cloudflare_execution.go:75`), so that after the clock was set back during
  an execution the deployment stays running, without an error class, where
  `docs/architecture.md:165` has every failure of the provider saved with its class (the
  place `unrecorded` of the model);
* `Memory.CreateWorker` accepts a second Worker with the script of another
  (`internal/store/cloudflare.go:12`), which the UNIQUE of `migrations/000002` refuses in
  PostgreSQL;
* the Coordinator keeps no margin between `ExpiresAt` and the end of a lease at Redis, and
  a renewal or a repeated cancellation request may shorten what is there
  (`coordinator.go:188`, 195, 252);
* sessions that are never presented again after they expired stay in the session table;
* `Postgres.DeleteHost` deletes the credential and then the asset: when the second
  statement fails or the version has moved on, the host is left without its credential
  (`postgres.go:85`).

## 6. What is not modelled, and why

* Cryptography (envelopes, key manager, signatures, hashes, SSH itself) is taken to
  work. Parsing of command output, anomaly rules, prompts, HTTP encoding and error
  wording are data the properties do not tell apart.
* Step-up challenges: no handler creates a manager or asks for a challenge, so there is
  no use to model them from.
* The runbook catalog is a table of constants; the flow models treat a plan as a number
  of steps.
* Process wiring and configuration: read once at start, no state afterwards.
* Panics other than the recovered ones, and the loss of the control plane, whose
  in-memory tables (jobs, sessions, tickets, nonces) are gone with it.
* PostgreSQL: hosts, credentials and the planning of deployments are modelled, with atomic
  statements and transactions. Jobs and the updates of a deployment under execution are
  not: execution exists only in development mode,
  which uses the in-memory repository.
* The console: rendering, forms, and the job poller, which only reads.

## 7. Plan

Done: all modules of section 2, checked and with proofs of their safety properties.
What could be added:

1. stronger results from the invariants that are there, for instance that the
   Connector's process restart is harmless for the audit trail of a runbook job;
2. the parts of section 6 that would become reachable if the repository came to use them:
   step-up challenges, and jobs on PostgreSQL.
