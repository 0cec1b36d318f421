---------------------------- MODULE RunbookLedger ----------------------------
(***************************************************************************)
(* The Connector's execute endpoint for runbooks: admission, the           *)
(* idempotency ledger, the step loop and the answer                        *)
(* (connector/service/runbook_handler.go, connector/service/               *)
(* runbook_ledger.go, runbook/executor.go).                                *)
(*                                                                         *)
(* Every HTTP request is a goroutine; claim and complete hold the ledger's *)
(* mutex and are atomic.  A response is identified by the request whose    *)
(* execution produced it.                                                  *)
(***************************************************************************)
EXTENDS Naturals, FiniteSets

CONSTANTS Requests,      \* execute requests that reach the Connector
          Jobs,          \* job identifiers
          Scopes,        \* scope digests
          Max,           \* MaxIdempotencyJobs
          MaxConcurrent, \* slots for concurrent executions
          Steps,         \* steps of a plan
          MaxTime,       \* bound: last value of the clock
          MaxRestarts    \* bound: restarts of the Connector

ASSUME LedgerConstants ==
    /\ Jobs # {} /\ Scopes # {} /\ IsFiniteSet(Jobs)
    /\ Max \in Nat \ {0} /\ MaxConcurrent \in Nat \ {0} /\ Steps \in Nat \ {0}
    /\ MaxTime \in Nat /\ MaxRestarts \in Nat

VARIABLES
    entries,   \* the ledger: one entry per job, or none
    place,     \* where the goroutine of a request is
    jobOf, scopeOf, now, \* what the request asks for, and its time.Now()
    progress,  \* steps that succeeded
    outcome,   \* execution status
    answer,    \* what the request was answered
    source,    \* the executions whose response was returned (at most one)
    ran,       \* executions of a job started by this process
    clock, restarts

ledgerVars == <<entries, place, jobOf, scopeOf, now, progress, outcome, answer, source,
                ran, clock, restarts>>

NoEntry == [state |-> "none", scope |-> CHOOSE s \in Scopes : TRUE, startedAt |-> 0,
            response |-> {}]

Live == {j \in Jobs : entries[j].state # "none"}

(* Requests that hold a concurrency slot; those that are being executed. *)
Executing == {r \in Requests : place[r] \in {"executing", "executed"}}

Holding == {r \in Requests : place[r] \in {"validated", "executing", "executed"}}

LedgerInit ==
    /\ entries = [j \in Jobs |-> NoEntry]
    /\ place = [r \in Requests |-> "idle"]
    /\ jobOf = [r \in Requests |-> CHOOSE j \in Jobs : TRUE]
    /\ scopeOf = [r \in Requests |-> CHOOSE s \in Scopes : TRUE]
    /\ now = [r \in Requests |-> 0]
    /\ progress = [r \in Requests |-> 0]
    /\ outcome = [r \in Requests |-> "none"]
    /\ answer = [r \in Requests |-> "none"]
    /\ source = [r \in Requests |-> {}]
    /\ ran = [j \in Jobs |-> {}]
    /\ clock = 0
    /\ restarts = 0

Respond(r, a) ==
    /\ place' = [place EXCEPT ![r] = "answered"]
    /\ answer' = [answer EXCEPT ![r] = a]

-----------------------------------------------------------------------------
(* handleExecute before the claim: acquire takes a slot or answers 429;    *)
(* now is read before the approval and the SSH material are validated.     *)

Admit(r, j, s) ==
    /\ place[r] = "idle"
    /\ Cardinality(Holding) < MaxConcurrent
    /\ place' = [place EXCEPT ![r] = "validated"]
    /\ jobOf' = [jobOf EXCEPT ![r] = j]
    /\ scopeOf' = [scopeOf EXCEPT ![r] = s]
    /\ now' = [now EXCEPT ![r] = clock]
    /\ UNCHANGED <<entries, progress, outcome, answer, source, ran, clock, restarts>>

Refuse(r) ==
    /\ place[r] = "idle"
    /\ \/ Cardinality(Holding) >= MaxConcurrent /\ Respond(r, "busy")
       \/ Cardinality(Holding) < MaxConcurrent /\ Respond(r, "refused")
    /\ UNCHANGED <<entries, jobOf, scopeOf, now, progress, outcome, source, ran, clock,
                   restarts>>

-----------------------------------------------------------------------------
(* runbookLedger.claim.                                                    *)

AtCapacity == Cardinality(Live) >= Max

(* Mutant: entries in progress are evicted too. *)
OldestOfAll ==
    {j \in Live : \A i \in Live : entries[j].startedAt <= entries[i].startedAt}

(* The completed entries with the earliest start; the iteration order of   *)
(* the map decides between equals.                                         *)
OldestCompleted ==
    LET completed == {j \in Live : entries[j].state = "completed"} IN
    {j \in completed : \A i \in completed : entries[j].startedAt <= entries[i].startedAt}

NewEntry(r) == [state |-> "in_progress", scope |-> scopeOf[r], startedAt |-> now[r],
                response |-> {}]

(* Start the execution; the entries of evicted jobs go. *)
ClaimNew(r, evicted) ==
    /\ entries' = [j \in Jobs |-> IF j = jobOf[r] THEN NewEntry(r)
                                  ELSE IF j \in evicted THEN NoEntry ELSE entries[j]]
    /\ ran' = [ran EXCEPT ![jobOf[r]] = @ \cup {r}]
    /\ place' = [place EXCEPT ![r] = "executing"]
    /\ UNCHANGED <<answer, source>>

Answered(r, a, from) ==
    /\ Respond(r, a)
    /\ source' = [source EXCEPT ![r] = from]
    /\ UNCHANGED <<entries, ran>>

(* Mutant: the scope of an existing entry is not compared. *)
SameScopeAlways(r) == TRUE

SameScope(r) == entries[jobOf[r]].scope = scopeOf[r]

(* Mutant: a repeat of a request that is in progress waits for its result. *)
ClaimWaits(r) ==
    LET entry == entries[jobOf[r]] IN
    /\ place[r] = "validated"
    /\ \/ /\ entry.state # "none" /\ ~SameScope(r)
          /\ Answered(r, "conflict", {})
       \/ /\ entry.state = "completed" /\ SameScope(r)
          /\ Answered(r, "replay", entry.response)
       \/ /\ entry.state = "none" /\ ~AtCapacity
          /\ ClaimNew(r, {})
    /\ UNCHANGED <<jobOf, scopeOf, now, progress, outcome, clock, restarts>>

Claim(r) ==
    LET entry == entries[jobOf[r]] IN
    /\ place[r] = "validated"
    /\ \/ /\ entry.state # "none" /\ ~SameScope(r)
          /\ Answered(r, "conflict", {})
       \/ /\ entry.state = "in_progress" /\ SameScope(r)
          /\ Answered(r, "in_progress", {})
       \/ /\ entry.state = "completed" /\ SameScope(r)
          /\ Answered(r, "replay", entry.response)
       \/ /\ entry.state = "none" /\ ~AtCapacity
          /\ ClaimNew(r, {})
       \/ /\ entry.state = "none" /\ AtCapacity
          /\ \E oldest \in OldestCompleted : ClaimNew(r, {oldest})
       \/ /\ entry.state = "none" /\ AtCapacity
          /\ OldestCompleted = {}
          /\ Answered(r, "full", {})
    /\ UNCHANGED <<jobOf, scopeOf, now, progress, outcome, clock, restarts>>

-----------------------------------------------------------------------------
(* runbook.Execute: the steps in order, up to the first that fails, is     *)
(* cancelled or times out.                                                 *)

Step(r) ==
    /\ place[r] = "executing"
    /\ \/ /\ progress[r] + 1 < Steps
          /\ progress' = [progress EXCEPT ![r] = @ + 1]
          /\ UNCHANGED <<place, outcome>>
       \/ /\ progress[r] + 1 = Steps
          /\ progress' = [progress EXCEPT ![r] = @ + 1]
          /\ place' = [place EXCEPT ![r] = "executed"]
          /\ outcome' = [outcome EXCEPT ![r] = "succeeded"]
       \/ /\ place' = [place EXCEPT ![r] = "executed"]
          /\ outcome' = [outcome EXCEPT ![r] = "failed"]
          /\ UNCHANGED progress
    /\ UNCHANGED <<entries, jobOf, scopeOf, now, answer, source, ran, clock, restarts>>

(* Mutants: a failed execution is not recorded; the finished entry is      *)
(* dropped instead of cached.                                              *)
CompletedSuccess(r) ==
    IF outcome[r] = "succeeded"
    THEN [entries[jobOf[r]] EXCEPT !.state = "completed", !.response = {r}]
    ELSE entries[jobOf[r]]

CompletedDropped(r) == NoEntry

Completed(r) == [entries[jobOf[r]] EXCEPT !.state = "completed", !.response = {r}]

(* runbookLedger.complete, then the response. *)
Complete(r) ==
    /\ place[r] = "executed"
    /\ IF entries[jobOf[r]].state = "in_progress" /\ SameScope(r)
       THEN entries' = [entries EXCEPT ![jobOf[r]] = Completed(r)]
       ELSE UNCHANGED entries
    /\ Respond(r, "result")
    /\ source' = [source EXCEPT ![r] = {r}]
    /\ UNCHANGED <<jobOf, scopeOf, now, progress, outcome, ran, clock, restarts>>

(* A panic of the runner is recovered in Wrap: the slot is released, the   *)
(* entry stays as it is.                                                   *)
Panic(r) ==
    /\ place[r] = "executing"
    /\ Respond(r, "panic")
    /\ UNCHANGED <<entries, jobOf, scopeOf, now, progress, outcome, source, ran, clock,
                   restarts>>

-----------------------------------------------------------------------------
Tick ==
    /\ clock < MaxTime
    /\ clock' = clock + 1
    /\ UNCHANGED <<entries, place, jobOf, scopeOf, now, progress, outcome, answer, source,
                   ran, restarts>>

(* The ledger lives in memory: a restart empties it and kills every        *)
(* request that is being handled.                                          *)
Restart ==
    /\ restarts < MaxRestarts
    /\ restarts' = restarts + 1
    /\ entries' = [j \in Jobs |-> NoEntry]
    /\ ran' = [j \in Jobs |-> {}]
    /\ place' = [r \in Requests |-> IF r \in Holding THEN "killed" ELSE place[r]]
    /\ UNCHANGED <<jobOf, scopeOf, now, progress, outcome, answer, source, clock>>

Work(r) == Claim(r) \/ Step(r) \/ Complete(r)

LedgerNext ==
    \/ \E r \in Requests :
          \/ \E j \in Jobs, s \in Scopes : Admit(r, j, s)
          \/ Refuse(r) \/ Work(r) \/ Panic(r)
    \/ Tick
    \/ Restart

LedgerSpec == LedgerInit /\ [][LedgerNext]_ledgerVars

(* The handler's own steps run on.  Step is not fair: the SSH client waits *)
(* without limit for a target that accepts the connection but does not     *)
(* answer NewSession or session.Start (sshconnector/client.go).            *)
LedgerFairSpec ==
    LedgerSpec /\ \A r \in Requests : WF_ledgerVars(Claim(r)) /\ WF_ledgerVars(Complete(r))

-----------------------------------------------------------------------------
(* Properties.                                                             *)

Entry == [state : {"none", "in_progress", "completed"}, scope : Scopes, startedAt : Nat,
          response : SUBSET Requests]

(* Every variable stays in its range. *)
LedgerTypeOK ==
    /\ entries \in [Jobs -> Entry]
    /\ place \in [Requests -> {"idle", "validated", "executing", "executed", "answered",
                               "killed"}]
    /\ jobOf \in [Requests -> Jobs]
    /\ scopeOf \in [Requests -> Scopes]
    /\ now \in [Requests -> Nat]
    /\ progress \in [Requests -> Nat]
    /\ outcome \in [Requests -> {"none", "succeeded", "failed"}]
    /\ answer \in [Requests -> {"none", "busy", "refused", "conflict", "in_progress",
                                "replay", "full", "result", "panic"}]
    /\ source \in [Requests -> SUBSET Requests]
    /\ ran \in [Jobs -> SUBSET Requests]
    /\ clock \in Nat
    /\ restarts \in Nat

(* "job is already executing and is never started twice"                   *)
(* (runbook_handler.go): whatever is evicted, no two requests execute the  *)
(* same job at the same time.                                              *)
ExclusiveExecution ==
    \A r1, r2 \in Executing : jobOf[r1] = jobOf[r2] => r1 = r2

(* The ledger never holds more than MaxIdempotencyJobs entries. *)
LedgerBounded == Cardinality(Live) <= Max

(* A replayed answer is the recorded result of an execution of the same    *)
(* job under the same scope digest, never that of another approval.        *)
ReplayIsOwnResult ==
    \A r \in Requests : answer[r] = "replay" =>
        \E first \in Requests \ {r} :
            /\ source[r] = {first}
            /\ jobOf[first] = jobOf[r] /\ scopeOf[first] = scopeOf[r]
            /\ outcome[first] # "none"

(* As long as a process has executed no more than MaxIdempotencyJobs jobs, *)
(* it has executed none of them twice.                                     *)
UnderCapacityRunsOnce ==
    Cardinality({j \in Jobs : ran[j] # {}}) <= Max
        => \A j \in Jobs : \A r1, r2 \in ran[j] : r1 = r2

(* An entry is in progress only while a request executes it; the one       *)
(* exception is a recovered panic, which leaves its entry behind.          *)
InProgressHasOwner ==
    \A j \in Jobs : entries[j].state = "in_progress" =>
        \E r \in ran[j] : r \in Executing \/ answer[r] = "panic"

(* Every admitted request is answered or dies with the process, unless its *)
(* target stalls for ever: no request waits for another one.               *)
AdmittedIsAnswered ==
    \A r \in Requests :
        place[r] = "validated" ~>
            (place[r] \in {"answered", "killed"} \/ [](place[r] = "executing"))

=============================================================================
