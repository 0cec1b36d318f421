------------------------ MODULE RunbookLedger_proofs ------------------------
(***************************************************************************)
(* Proofs about RunbookLedger, for every set of requests, every finite set *)
(* of jobs and every capacity.                                             *)
(*                                                                         *)
(* The inductive invariant says who owns an entry in progress, where the   *)
(* response of a completed one comes from, and that nothing has been       *)
(* evicted while the process has run no more jobs than the ledger holds.   *)
(***************************************************************************)
EXTENDS RunbookLedger, FiniteSetTheorems, TLAPS

(* A request that executes a job owns its entry. *)
OwnerInv ==
    \A r \in Executing :
        /\ r \in ran[jobOf[r]]
        /\ entries[jobOf[r]].state = "in_progress"
        /\ entries[jobOf[r]].scope = scopeOf[r]

(* first has executed job j under scope s and is done with it. *)
Executed(first, j, s) ==
    /\ jobOf[first] = j /\ scopeOf[first] = s
    /\ outcome[first] # "none"
    /\ place[first] \in {"answered", "killed"}

(* A completed entry holds the response of an execution of its job. *)
ResponseInv ==
    \A j \in Jobs : entries[j].state = "completed" =>
        \E first \in Requests : entries[j].response = {first}
                                /\ Executed(first, j, entries[j].scope)

(* A request is answered once, at its end. *)
AnswerInv ==
    \A r \in Requests : answer[r] # "none" => place[r] = "answered"

(* A finished execution has a status. *)
OutcomeInv == \A r \in Requests : place[r] = "executed" => outcome[r] # "none"

(* The executions of a job are requests for it that were admitted. *)
RanInv ==
    \A j \in Jobs : \A r \in ran[j] : jobOf[r] = j /\ place[r] \notin {"idle", "validated"}

(* A replayed response is that of such an execution. *)
ReplayInv ==
    \A r \in Requests : answer[r] = "replay" =>
        \E first \in Requests \ {r} : source[r] = {first}
                                      /\ Executed(first, jobOf[r], scopeOf[r])

RanJobs == {j \in Jobs : ran[j] # {}}

CapacityInv ==
    /\ LedgerBounded
    /\ Live \subseteq RanJobs
    /\ Cardinality(RanJobs) <= Max =>
          /\ RanJobs \subseteq Live
          /\ \A j \in Jobs : \A r1, r2 \in ran[j] : r1 = r2

LedgerInv ==
    /\ LedgerTypeOK
    /\ ExclusiveExecution
    /\ OwnerInv
    /\ InProgressHasOwner
    /\ ResponseInv
    /\ AnswerInv
    /\ OutcomeInv
    /\ RanInv
    /\ ReplayInv
    /\ CapacityInv

-----------------------------------------------------------------------------
(* Subsets of Jobs are finite; their cardinalities are numbers. *)
LEMMA JobSetsFinite ==
    ASSUME NEW S \in SUBSET Jobs
    PROVE  IsFiniteSet(S) /\ Cardinality(S) \in Nat
BY LedgerConstants, FS_Subset, FS_CardinalityType

(* The absent entry is an entry. *)
LEMMA NoEntryType == NoEntry \in Entry /\ NoEntry.state = "none"
BY LedgerConstants DEF NoEntry, Entry

(* The entry of a new claim is an entry in progress. *)
LEMMA NewEntryType ==
    ASSUME LedgerTypeOK, NEW r \in Requests
    PROVE  /\ NewEntry(r) \in Entry
           /\ NewEntry(r).state = "in_progress"
           /\ NewEntry(r).scope = scopeOf[r]
BY DEF LedgerTypeOK, NewEntry, Entry

(* A completed entry is an entry with the response of its execution. *)
LEMMA CompletedType ==
    ASSUME LedgerTypeOK, NEW r \in Requests
    PROVE  /\ Completed(r) \in Entry
           /\ Completed(r).state = "completed"
           /\ Completed(r).scope = entries[jobOf[r]].scope
           /\ Completed(r).response = {r}
<1>1. entries[jobOf[r]] \in Entry
    BY DEF LedgerTypeOK
<1> QED
    BY <1>1 DEF Completed, Entry

(* The initial state satisfies the invariant. *)
LEMMA LedgerInitInv == LedgerInit => LedgerInv
<1> SUFFICES ASSUME LedgerInit PROVE LedgerInv
    OBVIOUS
<1>1. LedgerTypeOK
    BY LedgerConstants, NoEntryType DEF LedgerInit, LedgerTypeOK
<1>2. Executing = {} /\ Live = {} /\ RanJobs = {}
    BY NoEntryType DEF LedgerInit, Executing, Live, RanJobs
<1>3. \A j \in Jobs : entries[j].state = "none" /\ ran[j] = {}
    BY NoEntryType DEF LedgerInit
<1>4. CapacityInv
    <2>1. Cardinality(Live) = 0
        BY <1>2, FS_EmptySet
    <2> QED
        BY <1>2, <1>3, <2>1, LedgerConstants DEF CapacityInv, LedgerBounded
<1> QED
    BY <1>1, <1>2, <1>3, <1>4
    DEF LedgerInit, LedgerInv, ExclusiveExecution, OwnerInv, InProgressHasOwner, ResponseInv,
        AnswerInv, OutcomeInv, RanInv, ReplayInv

-----------------------------------------------------------------------------
(* The type invariant, one step for each action.                           *)
LEMMA LedgerNextType == LedgerTypeOK /\ [LedgerNext]_ledgerVars => LedgerTypeOK'
<1> SUFFICES ASSUME LedgerTypeOK, [LedgerNext]_ledgerVars PROVE LedgerTypeOK'
    OBVIOUS
<1> USE DEF Respond
<1>1. ASSUME NEW r \in Requests, NEW j \in Jobs, NEW s \in Scopes, Admit(r, j, s)
      PROVE  LedgerTypeOK'
    BY <1>1 DEF LedgerTypeOK, Admit
<1>2. ASSUME NEW r \in Requests, Refuse(r) \/ Panic(r) PROVE LedgerTypeOK'
    BY <1>2 DEF LedgerTypeOK, Refuse, Panic
<1>3. ASSUME NEW r \in Requests, Claim(r) PROVE LedgerTypeOK'
    <2>1. ASSUME NEW S, ClaimNew(r, S)
          PROVE  /\ entries' \in [Jobs -> Entry]
                 /\ ran' \in [Jobs -> SUBSET Requests]
                 /\ place' = [place EXCEPT ![r] = "executing"]
                 /\ UNCHANGED <<answer, source>>
        BY <2>1, NewEntryType, NoEntryType DEF LedgerTypeOK, ClaimNew
    <2>2. entries[jobOf[r]].response \in SUBSET Requests
        BY DEF LedgerTypeOK, Entry
    <2>3. CASE \E S : ClaimNew(r, S)
        BY <1>3, <2>1, <2>3 DEF LedgerTypeOK, Claim
    <2>4. CASE ~\E S : ClaimNew(r, S)
        <3>1. \E a \in {"conflict", "in_progress", "replay", "full"} :
                  \E from \in SUBSET Requests : Answered(r, a, from)
            BY <1>3, <2>2, <2>4 DEF Claim
        <3> QED
            BY <1>3, <3>1 DEF LedgerTypeOK, Claim, Answered
    <2> QED
        BY <2>3, <2>4
<1>4. ASSUME NEW r \in Requests, Step(r) PROVE LedgerTypeOK'
    BY <1>4 DEF LedgerTypeOK, Step
<1>5. ASSUME NEW r \in Requests, Complete(r) PROVE LedgerTypeOK'
    BY <1>5, CompletedType DEF LedgerTypeOK, Complete
<1>6. CASE Tick
    BY <1>6 DEF LedgerTypeOK, Tick
<1>7. CASE Restart
    BY <1>7, NoEntryType DEF LedgerTypeOK, Restart
<1>8. CASE UNCHANGED ledgerVars
    BY <1>8 DEF LedgerTypeOK, ledgerVars
<1> QED
    BY <1>1, <1>2, <1>3, <1>4, <1>5, <1>6, <1>7, <1>8 DEF LedgerNext, Work

-----------------------------------------------------------------------------
(* What each action does to the ledger.                                    *)

(* The three ways a claim can go. *)
LEMMA ClaimCases ==
    ASSUME LedgerInv, NEW r \in Requests, Claim(r)
    PROVE  \/ \E a \in {"conflict", "in_progress", "full"} : Answered(r, a, {})
           \/ /\ entries[jobOf[r]].state = "completed" /\ SameScope(r)
              /\ Answered(r, "replay", entries[jobOf[r]].response)
           \/ /\ entries[jobOf[r]].state = "none"
              /\ \/ ~AtCapacity /\ ClaimNew(r, {})
                 \/ \E oldest \in OldestCompleted : AtCapacity /\ ClaimNew(r, {oldest})
BY DEF Claim

(* A new claim keeps the ledger within its capacity; while the process has *)
(* run no more jobs than that, it evicts nothing.                          *)
LEMMA ClaimNewCapacity ==
    ASSUME LedgerInv, NEW r \in Requests, entries[jobOf[r]].state = "none",
           \/ ~AtCapacity /\ ClaimNew(r, {})
           \/ \E oldest \in OldestCompleted : AtCapacity /\ ClaimNew(r, {oldest})
    PROVE  CapacityInv'
<1> DEFINE j == jobOf[r]
<1>1. LedgerTypeOK /\ CapacityInv /\ j \in Jobs /\ j \notin Live /\ Max \in Nat
    BY LedgerConstants DEF LedgerInv, LedgerTypeOK, Live
<1>2. /\ Live \in SUBSET Jobs /\ RanJobs \in SUBSET Jobs
      /\ IsFiniteSet(Live) /\ IsFiniteSet(RanJobs)
      /\ Cardinality(Live) \in Nat /\ Cardinality(RanJobs) \in Nat
    BY JobSetsFinite DEF Live, RanJobs
<1>3. /\ ran'[j] = ran[j] \cup {r}
      /\ \A i \in Jobs \ {j} : ran'[i] = ran[i]
      /\ RanJobs' = RanJobs \cup {j}
      /\ Cardinality(RanJobs') >= Cardinality(RanJobs)
    <2>1. ran' = [ran EXCEPT ![j] = @ \cup {r}]
        BY DEF ClaimNew
    <2>2. ran'[j] = ran[j] \cup {r} /\ \A i \in Jobs \ {j} : ran'[i] = ran[i]
        BY <1>1, <2>1 DEF LedgerTypeOK
    <2>3. RanJobs' = RanJobs \cup {j}
        BY <1>1, <2>2 DEF RanJobs
    <2>4. Cardinality(RanJobs \cup {j}) = IF j \in RanJobs THEN Cardinality(RanJobs)
                                          ELSE Cardinality(RanJobs) + 1
        BY <1>2, FS_AddElement
    <2> QED
        BY <1>2, <2>2, <2>3, <2>4
<1>4. CASE ~AtCapacity /\ ClaimNew(r, {})
    <2>1. Live' = Live \cup {j}
        BY <1>1, <1>4, NewEntryType DEF ClaimNew, Live
    <2>2. Cardinality(Live') = Cardinality(Live) + 1
        BY <1>1, <1>2, <2>1, FS_AddElement
    <2>3. Cardinality(Live') <= Max
        BY <1>1, <1>2, <1>4, <2>2 DEF AtCapacity
    <2>4. ASSUME Cardinality(RanJobs') <= Max
          PROVE  /\ RanJobs' \subseteq Live'
                 /\ \A i \in Jobs : \A r1, r2 \in ran'[i] : r1 = r2
        <3>1. Cardinality(RanJobs) <= Max
            BY <1>1, <1>2, <1>3, <2>4, JobSetsFinite
        <3>2. RanJobs = Live
            BY <1>1, <3>1 DEF CapacityInv
        <3>3. ran[j] = {}
            BY <1>1, <3>2 DEF RanJobs
        <3> QED
            BY <1>1, <1>3, <2>1, <3>1, <3>2, <3>3 DEF CapacityInv
    <2> QED
        BY <1>1, <1>3, <2>1, <2>3, <2>4 DEF CapacityInv, LedgerBounded
<1>5. ASSUME NEW oldest \in OldestCompleted, AtCapacity, ClaimNew(r, {oldest})
      PROVE  CapacityInv'
    <2>1. oldest \in Live /\ oldest # j
        BY <1>1, <1>5 DEF OldestCompleted
    <2>2. Live' = (Live \ {oldest}) \cup {j}
        BY <1>1, <1>5, <2>1, NewEntryType, NoEntryType DEF ClaimNew, Live
    <2> DEFINE kept == Live \ {oldest}
    <2>3. IsFiniteSet(kept) /\ Cardinality(kept) = Cardinality(Live) - 1
        BY <1>2, <2>1, FS_RemoveElement
    <2>4. Cardinality(kept \cup {j}) = Cardinality(kept) + 1
        BY <1>1, <2>3, FS_AddElement
    <2>5. Cardinality(Live') <= Max
        BY <1>1, <1>2, <2>2, <2>3, <2>4 DEF CapacityInv, LedgerBounded
    <2>6. ~(Cardinality(RanJobs') <= Max)
        <3> SUFFICES ASSUME Cardinality(RanJobs') <= Max PROVE FALSE
            OBVIOUS
        <3>1. Cardinality(RanJobs) <= Max
            BY <1>1, <1>2, <1>3, JobSetsFinite
        <3>2. RanJobs = Live
            BY <1>1, <3>1 DEF CapacityInv
        <3>3. Cardinality(RanJobs') = Cardinality(Live) + 1
            BY <1>1, <1>2, <1>3, <3>2, FS_AddElement
        <3> QED
            BY <1>1, <1>2, <1>5, <3>3 DEF AtCapacity
    <2> QED
        BY <1>1, <1>3, <2>2, <2>5, <2>6 DEF CapacityInv, LedgerBounded
<1> QED
    BY <1>4, <1>5

(* An execution that is over stays what it was. *)
LEMMA ExecutedStable ==
    ASSUME LedgerInv, [LedgerNext]_ledgerVars, NEW first \in Requests, NEW j, NEW s,
           Executed(first, j, s)
    PROVE  Executed(first, j, s)'
<1>1. LedgerTypeOK
    BY DEF LedgerInv
<1> USE DEF LedgerTypeOK, Executed, Respond
<1>2. ASSUME NEW r \in Requests, NEW i \in Jobs, NEW t \in Scopes, Admit(r, i, t)
      PROVE  Executed(first, j, s)'
    BY <1>1, <1>2 DEF Admit
<1>3. ASSUME NEW r \in Requests, Refuse(r) \/ Panic(r) PROVE Executed(first, j, s)'
    BY <1>1, <1>3 DEF Refuse, Panic
<1>4. ASSUME NEW r \in Requests, Claim(r) PROVE Executed(first, j, s)'
    BY <1>1, <1>4 DEF Claim, ClaimNew, Answered
<1>5. ASSUME NEW r \in Requests, Step(r) PROVE Executed(first, j, s)'
    BY <1>1, <1>5 DEF Step
<1>6. ASSUME NEW r \in Requests, Complete(r) PROVE Executed(first, j, s)'
    BY <1>1, <1>6 DEF Complete
<1>7. CASE Tick \/ UNCHANGED ledgerVars
    BY <1>7 DEF Tick, ledgerVars
<1>8. CASE Restart
    BY <1>1, <1>8 DEF Restart
<1> QED
    BY <1>2, <1>3, <1>4, <1>5, <1>6, <1>7, <1>8 DEF LedgerNext, Work

(* A step that leaves the ledger alone, and whose request neither starts   *)
(* nor stops executing, keeps everything but the replays.                  *)
LEMMA LedgerUntouched ==
    ASSUME LedgerInv, [LedgerNext]_ledgerVars, UNCHANGED <<entries, ran>>,
           Executing' = Executing,
           \A r \in Executing : jobOf'[r] = jobOf[r] /\ scopeOf'[r] = scopeOf[r],
           \A r \in Requests : answer[r] = "panic" => answer'[r] = "panic"
    PROVE  /\ ExclusiveExecution' /\ OwnerInv' /\ InProgressHasOwner' /\ ResponseInv'
           /\ CapacityInv'
<1>1. ExclusiveExecution' /\ OwnerInv'
    BY DEF LedgerInv, ExclusiveExecution, OwnerInv
<1>2. InProgressHasOwner'
    BY DEF LedgerInv, InProgressHasOwner, LedgerTypeOK
<1>3. ResponseInv'
    BY ExecutedStable DEF LedgerInv, ResponseInv
<1>4. Live' = Live /\ RanJobs' = RanJobs
    BY DEF Live, RanJobs
<1>5. CapacityInv'
    BY <1>4 DEF LedgerInv, CapacityInv, LedgerBounded
<1> QED
    BY <1>1, <1>2, <1>3, <1>5

(* A step that answers no replay keeps the replays of the past. *)
LEMMA ReplaysKept ==
    ASSUME LedgerInv, [LedgerNext]_ledgerVars, NEW r \in Requests,
           answer'[r] = "replay", answer[r] = "replay",
           source'[r] = source[r], jobOf'[r] = jobOf[r], scopeOf'[r] = scopeOf[r]
    PROVE  \E first \in Requests \ {r} :
              source'[r] = {first} /\ Executed(first, jobOf[r], scopeOf[r])'
<1>1. PICK first \in Requests \ {r} :
          source[r] = {first} /\ Executed(first, jobOf[r], scopeOf[r])
    BY DEF LedgerInv, ReplayInv
<1>2. Executed(first, jobOf[r], scopeOf[r])'
    BY <1>1, ExecutedStable
<1> QED
    BY <1>1, <1>2

-----------------------------------------------------------------------------
(* Steps that do not write the ledger. *)
LEMMA QuietInv ==
    ASSUME LedgerInv, [LedgerNext]_ledgerVars,
           \/ \E r \in Requests, j \in Jobs, s \in Scopes : Admit(r, j, s)
           \/ \E r \in Requests : Refuse(r)
           \/ \E r \in Requests, a \in {"conflict", "in_progress", "full"} :
                 Claim(r) /\ Answered(r, a, {})
           \/ \E r \in Requests : Step(r)
           \/ Tick
           \/ UNCHANGED ledgerVars
    PROVE  LedgerInv'
<1>1. LedgerTypeOK /\ LedgerTypeOK' /\ AnswerInv /\ OutcomeInv /\ RanInv
    BY LedgerNextType DEF LedgerInv
<1> DEFINE Quiet ==
              /\ UNCHANGED <<entries, ran>>
              /\ Executing' = Executing
              /\ \A r \in Executing : jobOf'[r] = jobOf[r] /\ scopeOf'[r] = scopeOf[r]
              /\ \A r \in Requests : answer[r] = "panic" => answer'[r] = "panic"
              /\ \A r \in Requests : answer'[r] = "replay" =>
                    /\ answer[r] = "replay" /\ source'[r] = source[r]
                    /\ jobOf'[r] = jobOf[r] /\ scopeOf'[r] = scopeOf[r]
              /\ AnswerInv' /\ OutcomeInv' /\ RanInv'
<1>2. Quiet
    <2> USE DEF LedgerTypeOK, Respond, Executing, AnswerInv, OutcomeInv, RanInv
    <2>1. ASSUME NEW r \in Requests, NEW j \in Jobs, NEW s \in Scopes, Admit(r, j, s)
          PROVE  Quiet
        BY <1>1, <2>1 DEF Admit
    <2>2. ASSUME NEW r \in Requests, Refuse(r) PROVE Quiet
        BY <1>1, <2>2 DEF Refuse
    <2>3. ASSUME NEW r \in Requests, NEW a \in {"conflict", "in_progress", "full"},
                 Claim(r), Answered(r, a, {})
          PROVE  Quiet
        BY <1>1, <2>3 DEF Claim, Answered
    <2>4. ASSUME NEW r \in Requests, Step(r) PROVE Quiet
        BY <1>1, <2>4 DEF Step
    <2>5. CASE Tick \/ UNCHANGED ledgerVars
        BY <1>1, <2>5 DEF Tick, ledgerVars
    <2> QED
        BY <2>1, <2>2, <2>3, <2>4, <2>5
<1>3. ReplayInv'
    BY <1>2, ReplaysKept DEF LedgerInv, ReplayInv
<1> QED
    BY <1>1, <1>2, <1>3, LedgerUntouched DEF LedgerInv

(* A replay hands out the response of the entry it found. *)
LEMMA ReplayAnswerInv ==
    ASSUME LedgerInv, [LedgerNext]_ledgerVars, NEW r \in Requests, Claim(r),
           entries[jobOf[r]].state = "completed", SameScope(r),
           Answered(r, "replay", entries[jobOf[r]].response)
    PROVE  LedgerInv'
<1>1. LedgerTypeOK /\ LedgerTypeOK' /\ AnswerInv /\ OutcomeInv /\ RanInv
    BY LedgerNextType DEF LedgerInv
<1>2. /\ UNCHANGED <<entries, ran, jobOf, scopeOf>>
      /\ Executing' = Executing
      /\ \A i \in Requests : answer[i] = "panic" => answer'[i] = "panic"
      /\ \A i \in Requests \ {r} : answer'[i] = answer[i] /\ source'[i] = source[i]
      /\ place[r] = "validated" /\ source'[r] = entries[jobOf[r]].response
      /\ AnswerInv' /\ OutcomeInv' /\ RanInv'
    BY <1>1 DEF LedgerTypeOK, AnswerInv, OutcomeInv, RanInv, Claim, Answered, Respond, Executing
<1>3. ReplayInv'
    <2>1. PICK first \in Requests : /\ entries[jobOf[r]].response = {first}
                                    /\ Executed(first, jobOf[r], scopeOf[r])
        BY <1>1 DEF LedgerInv, LedgerTypeOK, ResponseInv, SameScope
    <2>2. first # r
        BY <1>2, <2>1 DEF Executed
    <2>3. Executed(first, jobOf[r], scopeOf[r])'
        BY <1>2, <2>1, ExecutedStable
    <2>4. ASSUME NEW i \in Requests \ {r}, answer'[i] = "replay"
          PROVE  \E f \in Requests \ {i} : source'[i] = {f}
                                           /\ Executed(f, jobOf[i], scopeOf[i])'
        BY <1>2, <2>4, ReplaysKept
    <2> QED
        BY <1>2, <2>1, <2>2, <2>3, <2>4 DEF ReplayInv
<1> QED
    BY <1>1, <1>2, <1>3, LedgerUntouched DEF LedgerInv

(* A new claim: its job had no entry, so nobody was executing it; an       *)
(* evicted entry was completed, so nobody owned it.                        *)
LEMMA ClaimNewInv ==
    ASSUME LedgerInv, [LedgerNext]_ledgerVars, NEW r \in Requests, Claim(r),
           entries[jobOf[r]].state = "none",
           \/ ~AtCapacity /\ ClaimNew(r, {})
           \/ \E oldest \in OldestCompleted : AtCapacity /\ ClaimNew(r, {oldest})
    PROVE  LedgerInv'
<1> DEFINE j == jobOf[r]
<1>1. LedgerTypeOK /\ LedgerTypeOK' /\ AnswerInv /\ j \in Jobs
    BY LedgerNextType DEF LedgerInv, LedgerTypeOK
<1>2. /\ UNCHANGED <<jobOf, scopeOf, answer, source, outcome>>
      /\ place[r] = "validated" /\ Executing' = Executing \cup {r}
      /\ AnswerInv'
    BY <1>1 DEF LedgerTypeOK, AnswerInv, Claim, ClaimNew, Executing
<1>3. /\ ran'[j] = ran[j] \cup {r}
      /\ \A i \in Jobs \ {j} : ran'[i] = ran[i]
    BY <1>1 DEF LedgerTypeOK, ClaimNew
<1>4. entries'[j].state = "in_progress" /\ entries'[j].scope = scopeOf[r]
    BY <1>1, NewEntryType DEF ClaimNew
<1>5. \A i \in Jobs \ {j} : \/ entries'[i] = entries[i]
                            \/ entries[i].state = "completed" /\ entries'[i].state = "none"
    BY NoEntryType DEF ClaimNew, OldestCompleted
<1>6. \A i \in Executing : jobOf[i] # j
    BY DEF LedgerInv, OwnerInv
<1>7. ExclusiveExecution'
    BY <1>2, <1>6 DEF LedgerInv, ExclusiveExecution
<1>8. OwnerInv'
    <2>1. \A i \in Executing : jobOf[i] \in Jobs \ {j} /\ entries'[jobOf[i]] = entries[jobOf[i]]
        BY <1>1, <1>5, <1>6 DEF LedgerInv, OwnerInv, LedgerTypeOK, Executing
    <2> QED
        BY <1>2, <1>3, <1>4, <2>1 DEF LedgerInv, OwnerInv
<1>9. InProgressHasOwner'
    <2>1. ASSUME NEW i \in Jobs, entries'[i].state = "in_progress"
          PROVE  \E q \in ran'[i] : q \in Executing' \/ answer'[q] = "panic"
        <3>1. CASE i = j
            BY <1>2, <1>3, <3>1
        <3>2. CASE i # j
            BY <1>2, <1>3, <1>5, <2>1, <3>2 DEF LedgerInv, InProgressHasOwner
        <3> QED
            BY <3>1, <3>2
    <2> QED
        BY <2>1 DEF InProgressHasOwner
<1>10. ResponseInv'
    <2>1. ASSUME NEW i \in Jobs, entries'[i].state = "completed"
          PROVE  \E first \in Requests : entries'[i].response = {first}
                                         /\ Executed(first, i, entries[i].scope)'
        <3>1. i # j /\ entries'[i] = entries[i]
            BY <1>4, <1>5, <2>1
        <3>2. PICK first \in Requests : entries[i].response = {first}
                                        /\ Executed(first, i, entries[i].scope)
            BY <2>1, <3>1 DEF LedgerInv, ResponseInv
        <3>3. Executed(first, i, entries[i].scope)'
            BY <3>1, <3>2, ExecutedStable
        <3> QED
            BY <3>1, <3>2, <3>3
    <2> QED
        BY <2>1 DEF ResponseInv
<1>11. ReplayInv'
    BY <1>2, ReplaysKept DEF ReplayInv
<1>12. CapacityInv'
    BY ClaimNewCapacity
<1>13. OutcomeInv' /\ RanInv'
    <2>1. place' = [place EXCEPT ![r] = "executing"]
        BY DEF ClaimNew
    <2>2. OutcomeInv'
        BY <1>1, <1>2, <2>1 DEF LedgerInv, LedgerTypeOK, OutcomeInv
    <2>3. RanInv'
        BY <1>1, <1>2, <1>3, <2>1 DEF LedgerInv, LedgerTypeOK, RanInv
    <2> QED
        BY <2>2, <2>3
<1> QED
    BY <1>1, <1>2, <1>7, <1>8, <1>9, <1>10, <1>11, <1>12, <1>13 DEF LedgerInv

(* Completing an execution: by OwnerInv the entry is still its own. *)
LEMMA CompleteInv ==
    ASSUME LedgerInv, [LedgerNext]_ledgerVars, NEW r \in Requests, Complete(r)
    PROVE  LedgerInv'
<1> DEFINE j == jobOf[r]
<1>1. LedgerTypeOK /\ LedgerTypeOK' /\ AnswerInv /\ j \in Jobs /\ r \in Executing
    BY LedgerNextType DEF LedgerInv, LedgerTypeOK, Complete, Executing
<1>2. entries[j].state = "in_progress" /\ entries[j].scope = scopeOf[r]
    BY <1>1 DEF LedgerInv, OwnerInv
<1>3. /\ entries'[j].state = "completed" /\ entries'[j].scope = scopeOf[r]
      /\ entries'[j].response = {r}
      /\ \A i \in Jobs \ {j} : entries'[i] = entries[i]
    BY <1>1, <1>2, CompletedType DEF LedgerTypeOK, Complete, SameScope
<1>4. /\ UNCHANGED <<jobOf, scopeOf, ran, outcome>>
      /\ place'[r] = "answered" /\ Executing' = Executing \ {r}
      /\ answer'[r] = "result"
      /\ \A i \in Requests \ {r} : answer'[i] = answer[i] /\ source'[i] = source[i]
      /\ AnswerInv'
    BY <1>1 DEF LedgerTypeOK, AnswerInv, Complete, Respond, Executing
<1>5. outcome[r] # "none"
    BY <1>1 DEF LedgerInv, OutcomeInv, Complete
<1>6. \A i \in Executing \ {r} : jobOf[i] # j
    BY <1>1 DEF LedgerInv, ExclusiveExecution
<1>7. ExclusiveExecution'
    BY <1>4 DEF LedgerInv, ExclusiveExecution
<1>8. OwnerInv'
    BY <1>1, <1>3, <1>4, <1>6 DEF LedgerInv, OwnerInv, LedgerTypeOK, Executing
<1>9. InProgressHasOwner'
    <2>1. ASSUME NEW i \in Jobs, entries'[i].state = "in_progress"
          PROVE  \E q \in ran'[i] : q \in Executing' \/ answer'[q] = "panic"
        <3>1. i # j /\ entries[i].state = "in_progress"
            BY <1>3, <2>1
        <3>2. PICK q \in ran[i] : q \in Executing \/ answer[q] = "panic"
            BY <3>1 DEF LedgerInv, InProgressHasOwner
        <3>3. q # r
            BY <1>1, <3>1, <3>2 DEF LedgerInv, RanInv
        <3> QED
            BY <1>1, <1>4, <3>2, <3>3 DEF LedgerTypeOK
    <2> QED
        BY <2>1 DEF InProgressHasOwner
<1>10. ResponseInv'
    <2>1. Executed(r, j, scopeOf[r])'
        BY <1>4, <1>5 DEF Executed
    <2>2. ASSUME NEW i \in Jobs \ {j}, entries'[i].state = "completed"
          PROVE  \E first \in Requests : entries'[i].response = {first}
                                         /\ Executed(first, i, entries[i].scope)'
        <3>1. PICK first \in Requests : entries[i].response = {first}
                                        /\ Executed(first, i, entries[i].scope)
            BY <1>3, <2>2 DEF LedgerInv, ResponseInv
        <3>2. Executed(first, i, entries[i].scope)'
            BY <1>3, <3>1, ExecutedStable
        <3> QED
            BY <1>3, <3>1, <3>2
    <2> QED
        BY <1>3, <1>4, <2>1, <2>2 DEF ResponseInv, Executed
<1>11. ReplayInv'
    BY <1>4, ReplaysKept DEF ReplayInv
<1>12. CapacityInv'
    <2>1. Live' = Live /\ RanJobs' = RanJobs
        BY <1>2, <1>3, <1>4 DEF Live, RanJobs
    <2> QED
        BY <1>4, <2>1 DEF LedgerInv, CapacityInv, LedgerBounded
<1>13. OutcomeInv' /\ RanInv'
    BY <1>1, <1>4 DEF LedgerInv, LedgerTypeOK, OutcomeInv, RanInv, Complete, Respond
<1> QED
    BY <1>1, <1>4, <1>7, <1>8, <1>9, <1>10, <1>11, <1>12, <1>13 DEF LedgerInv

(* A recovered panic leaves its entry in progress, with a witness. *)
LEMMA PanicInv ==
    ASSUME LedgerInv, [LedgerNext]_ledgerVars, NEW r \in Requests, Panic(r)
    PROVE  LedgerInv'
<1>1. LedgerTypeOK /\ LedgerTypeOK' /\ AnswerInv /\ OutcomeInv /\ RanInv
    BY LedgerNextType DEF LedgerInv
<1>2. /\ UNCHANGED <<entries, jobOf, scopeOf, ran, source, outcome>>
      /\ Executing' = Executing \ {r}
      /\ answer'[r] = "panic"
      /\ \A i \in Requests \ {r} : answer'[i] = answer[i]
      /\ AnswerInv' /\ OutcomeInv' /\ RanInv'
    BY <1>1 DEF LedgerTypeOK, AnswerInv, OutcomeInv, RanInv, Panic, Respond, Executing
<1>3. ExclusiveExecution' /\ OwnerInv'
    BY <1>2 DEF LedgerInv, ExclusiveExecution, OwnerInv
<1>4. InProgressHasOwner'
    BY <1>1, <1>2 DEF LedgerInv, InProgressHasOwner, LedgerTypeOK
<1>5. ResponseInv'
    BY <1>2, ExecutedStable DEF LedgerInv, ResponseInv
<1>6. ReplayInv'
    BY <1>2, ReplaysKept DEF ReplayInv
<1>7. Live' = Live /\ RanJobs' = RanJobs
    BY <1>2 DEF Live, RanJobs
<1>8. CapacityInv'
    BY <1>2, <1>7 DEF LedgerInv, CapacityInv, LedgerBounded
<1> QED
    BY <1>1, <1>2, <1>3, <1>4, <1>5, <1>6, <1>8 DEF LedgerInv

(* A restart forgets the ledger; what was answered before stays true. *)
LEMMA RestartInv ==
    ASSUME LedgerInv, [LedgerNext]_ledgerVars, Restart
    PROVE  LedgerInv'
<1>1. LedgerTypeOK /\ LedgerTypeOK' /\ AnswerInv
    BY LedgerNextType DEF LedgerInv
<1>2. /\ UNCHANGED <<jobOf, scopeOf, answer, source>>
      /\ \A j \in Jobs : entries'[j].state = "none" /\ ran'[j] = {}
      /\ Executing' = {}
      /\ AnswerInv' /\ OutcomeInv'
    BY <1>1, NoEntryType
    DEF LedgerTypeOK, AnswerInv, OutcomeInv, Restart, Executing, Holding
<1>3. Live' = {} /\ RanJobs' = {}
    BY <1>2 DEF Live, RanJobs
<1>4. CapacityInv'
    <2>1. Cardinality(Live') = 0
        BY <1>3, FS_EmptySet
    <2> QED
        BY <1>2, <1>3, <2>1, LedgerConstants DEF CapacityInv, LedgerBounded
<1>5. ReplayInv'
    BY <1>2, ReplaysKept DEF ReplayInv
<1> QED
    BY <1>1, <1>2, <1>4, <1>5
    DEF LedgerInv, ExclusiveExecution, OwnerInv, InProgressHasOwner, ResponseInv, RanInv

(* Every step of the Connector keeps the ledger's invariant. *)
LEMMA LedgerNextInv == LedgerInv /\ [LedgerNext]_ledgerVars => LedgerInv'
<1> SUFFICES ASSUME LedgerInv, [LedgerNext]_ledgerVars PROVE LedgerInv'
    OBVIOUS
<1>1. ASSUME NEW r \in Requests, Claim(r) PROVE LedgerInv'
    BY <1>1, ClaimCases, QuietInv, ReplayAnswerInv, ClaimNewInv
<1> QED
    BY <1>1, QuietInv, CompleteInv, PanicInv, RestartInv DEF LedgerNext, Work

(* The ledger's inductive invariant holds in every behaviour. *)
THEOREM LedgerInvariance == LedgerSpec => []LedgerInv
BY LedgerInitInv, LedgerNextInv, PTL DEF LedgerSpec

(* Every variable of the Connector's runbook endpoint stays in its range,  *)
(* for any requests, any finite set of jobs and any capacity.              *)
THEOREM LedgerTypeCorrect == LedgerSpec => []LedgerTypeOK
<1>1. LedgerInv => LedgerTypeOK
    BY DEF LedgerInv
<1> QED
    BY <1>1, LedgerInvariance, PTL

(* claim never lets two requests execute one job at the same time, however *)
(* full the ledger is and whatever it evicts.                              *)
THEOREM ExecutionIsExclusive == LedgerSpec => []ExclusiveExecution
<1>1. LedgerInv => ExclusiveExecution
    BY DEF LedgerInv
<1> QED
    BY <1>1, LedgerInvariance, PTL

(* claim keeps the map within MaxIdempotencyJobs entries. *)
THEOREM LedgerIsBounded == LedgerSpec => []LedgerBounded
<1>1. LedgerInv => LedgerBounded
    BY DEF LedgerInv, CapacityInv
<1> QED
    BY <1>1, LedgerInvariance, PTL

(* A claimReplay answer carries the result of an execution of that job and *)
(* scope, across evictions and restarts.                                   *)
THEOREM ReplayIsFaithful == LedgerSpec => []ReplayIsOwnResult
<1>1. LedgerInv => ReplayIsOwnResult
    BY DEF LedgerInv, ReplayInv, ReplayIsOwnResult, Executed
<1> QED
    BY <1>1, LedgerInvariance, PTL

(* Below its capacity the ledger is a perfect memory: a process that has   *)
(* executed at most MaxIdempotencyJobs jobs has executed each once.        *)
THEOREM RunsOnceUnderCapacity == LedgerSpec => []UnderCapacityRunsOnce
<1>1. LedgerInv => UnderCapacityRunsOnce
    BY DEF LedgerInv, CapacityInv, RanJobs, UnderCapacityRunsOnce
<1> QED
    BY <1>1, LedgerInvariance, PTL

(* Only a recovered panic leaves an entry in progress without a request    *)
(* that is executing it.                                                   *)
THEOREM EntriesHaveOwners == LedgerSpec => []InProgressHasOwner
<1>1. LedgerInv => InProgressHasOwner
    BY DEF LedgerInv
<1> QED
    BY <1>1, LedgerInvariance, PTL
=============================================================================
