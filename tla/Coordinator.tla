----------------------------- MODULE Coordinator -----------------------------
(***************************************************************************)
(* persistence/coordinator.go: task leases, idempotency records and        *)
(* cancellation signals, kept by Redis or in the memory of the process.    *)
(*                                                                         *)
(* One resource, one idempotency key and one job, each with one entry.  A  *)
(* member of Calls is the caller of AcquireLease, PutIdempotency or        *)
(* RequestCancellation; a lease is then renewed and released by its        *)
(* caller.  The random token of a lease, and the result reference of a     *)
(* record, is the name of the caller.  Each operation that writes names    *)
(* the lifetime it wants, so a renewal or a second request may shorten     *)
(* what is there.  A call with an invalid reference or lifetime, or        *)
(* without random bytes for its token, returns an error and does nothing.  *)
(*                                                                         *)
(* A command goes to Redis, is executed there at once, and its answer      *)
(* comes back.  A command or its answer may be late or lost: the client    *)
(* sends it again (the Redis client retries what failed on the network)    *)
(* or reports an error, and what it sent may still be executed later.  A   *)
(* try takes at most MaxDelay.  Both sides measure time alike.             *)
(***************************************************************************)
EXTENDS Integers, FiniteSets

CONSTANTS Calls,
          MinTTL,    \* shortest lifetime of an entry (one second)
          MaxTTL,    \* longest lifetime of an entry (24 hours)
          MaxDelay,  \* timeout of one try of a command
          MaxTime,   \* bound: last value of the clock
          MaxFaults, \* bound: failed tries
          MaxKinds   \* bound: kinds of entry used in one behaviour

Kinds == {"lease", "idempotency", "cancel"}

ASSUME CoordinatorConstants ==
    /\ MinTTL \in Nat \ {0} /\ MaxTTL \in Nat /\ MinTTL <= MaxTTL
    /\ MaxDelay \in Nat /\ MaxTime \in Nat /\ MaxFaults \in Nat /\ MaxKinds \in Nat

Ops == {"acquire", "renew", "release", "put", "request"}

VARIABLES
    storage,  \* "memory" or "redis"
    clock,
    entry,    \* the three entries: whose they are, and until when
    call,     \* operation and place of a caller, the lifetime it asks for,
              \* when it sent the last try, the end of the lease it was told
              \* (ExpiresAt; 0: no lease), and the lifetime of that lease
    answer,   \* did Redis answer with success?
    late,     \* commands given up that may still be executed
    least,    \* history: the shortest lifetime a caller asked for in a
              \* renewal whose answer it has not heard
    faults    \* failed tries so far

vars == <<storage, clock, entry, call, answer, late, least, faults>>

NoEntry == [by |-> {}, until |-> 0]

NewCall == [op |-> "none", at |-> "new", ttl |-> 0, sent |-> 0, expires |-> 0, life |-> 0]

Init ==
    /\ storage \in {"memory", "redis"}
    /\ clock = 0
    /\ entry = [k \in Kinds |-> NoEntry]
    /\ call = [c \in Calls |-> NewCall]
    /\ answer = [c \in Calls |-> FALSE]
    /\ late = {}
    /\ least = [c \in Calls |-> MaxTTL]
    /\ faults = 0

(* Longest time from sending to answer; a call in memory takes none. *)
Delay == IF storage = "memory" THEN 0 ELSE MaxDelay

-----------------------------------------------------------------------------
(* The entries.                                                            *)

(* GetIdempotency and CancellationRequested find an entry. *)
Live(k) == entry[k].by # {} /\ clock < entry[k].until

(* The entry is c's from now on, for ttl, however long it had to go. *)
Put(k, c, ttl) == entry' = [entry EXCEPT ![k] = [by |-> {c}, until |-> clock + ttl]]

(* Mutant: whatever lease there is is deleted. *)
ReleasesAny(c) == Live("lease")

(* releaseLeaseScript; in memory an expired lease is released as well. *)
Releases(c) ==
    entry["lease"].by = {c} /\ (storage = "memory" \/ Live("lease"))

(* renewLeaseScript. *)
Renews(c) == entry["lease"].by = {c} /\ Live("lease")

(* Mutant: a record that is there is overwritten. *)
CreatesAlways(k) == TRUE

(* SetNX. *)
Creates(k) == ~Live(k)

Succeeds(c, op) ==
    CASE op = "acquire" -> Creates("lease")
      [] op = "renew"   -> Renews(c)
      [] op = "release" -> Releases(c)
      [] op = "put"     -> Creates("idempotency")
      [] op = "request" -> TRUE

(* Mutant: a request does not touch a signal that is already there. *)
CommandKeepsSignal(c, op, ttl) ==
    IF ~Succeeds(c, op) \/ (op = "request" /\ Live("cancel"))
    THEN UNCHANGED entry
    ELSE CASE op \in {"acquire", "renew"} -> Put("lease", c, ttl)
           [] op = "release" -> entry' = [entry EXCEPT !["lease"] = NoEntry]
           [] op = "put"     -> Put("idempotency", c, ttl)
           [] op = "request" -> Put("cancel", c, ttl)

(* What the command does to the entries. *)
Command(c, op, ttl) ==
    IF ~Succeeds(c, op)
    THEN UNCHANGED entry
    ELSE CASE op \in {"acquire", "renew"} -> Put("lease", c, ttl)
           [] op = "release" -> entry' = [entry EXCEPT !["lease"] = NoEntry]
           [] op = "put"     -> Put("idempotency", c, ttl)
           [] op = "request" -> Put("cancel", c, ttl)

-----------------------------------------------------------------------------
(* The callers.                                                            *)

Become(c, new) == call' = [call EXCEPT ![c] = new]

(* validateCoordinatorInput, and the same range in RenewLease. *)
ValidTTL(ttl) == MinTTL <= ttl /\ ttl <= MaxTTL

KindOf(op) ==
    CASE op = "put"     -> "idempotency"
      [] op = "request" -> "cancel"
      [] OTHER          -> "lease"

(* One more caller may use an entry of kind k: the entries are independent *)
(* of each other, and only so many are used together.                      *)
Admits(k) ==
    Cardinality({k} \cup {KindOf(call[c].op) : c \in {d \in Calls : call[d].at # "new"}})
        <= MaxKinds

(* A caller that releases its lease does not count on it any more. *)
Send(c, op, ttl) ==
    /\ Become(c, [call[c] EXCEPT !.op = op, !.at = "sent", !.ttl = ttl, !.sent = clock,
                                 !.expires = IF op = "renew" THEN @ ELSE 0])
    /\ UNCHANGED <<storage, clock, entry, answer, late, least, faults>>

AcquireLease(c, ttl) ==
    call[c].at = "new" /\ ValidTTL(ttl) /\ Admits("lease") /\ Send(c, "acquire", ttl)

PutIdempotency(c, ttl) ==
    call[c].at = "new" /\ ValidTTL(ttl) /\ Admits("idempotency") /\ Send(c, "put", ttl)

RequestCancellation(c, ttl) ==
    call[c].at = "new" /\ ValidTTL(ttl) /\ Admits("cancel") /\ Send(c, "request", ttl)

LeaseOps == {"acquire", "renew"}

HasLease(c) == call[c].at = "idle" /\ call[c].op \in LeaseOps

RenewLease(c, ttl) == HasLease(c) /\ ValidTTL(ttl) /\ Send(c, "renew", ttl)

ReleaseLease(c) == HasLease(c) /\ Send(c, "release", 0)

Execute(c) ==
    /\ call[c].at = "sent"
    /\ Become(c, [call[c] EXCEPT !.at = "answered"])
    /\ answer' = [answer EXCEPT ![c] = Succeeds(c, call[c].op)]
    /\ Command(c, call[c].op, call[c].ttl)
    /\ UNCHANGED <<storage, clock, late, least, faults>>

(* The call is over; the lifetime it asked for stays on record. *)
Ended(c) == [call[c] EXCEPT !.at = "ended", !.sent = 0, !.expires = 0, !.life = 0]

(* c knows its lease and waits for nothing. *)
Leased(c, expires, life) ==
    [op |-> call[c].op, at |-> "idle", ttl |-> 0, sent |-> 0, expires |-> expires, life |-> life]

(* A lease is reported with its end by the caller's clock, counted from    *)
(* the answer; ErrLeaseHeld, ErrLeaseLost and a record that was there end  *)
(* the call.                                                               *)
Receive(c) ==
    /\ call[c].at = "answered"
    /\ Become(c, IF ~answer[c] \/ call[c].op = "release"
                 THEN Ended(c)
                 ELSE IF call[c].op \in LeaseOps
                 THEN Leased(c, clock + call[c].ttl, call[c].ttl)
                 ELSE [call[c] EXCEPT !.at = "idle"])
    /\ answer' = [answer EXCEPT ![c] = FALSE]
    /\ UNCHANGED <<storage, clock, entry, late, least, faults>>

(* A try has failed: its command was executed, is lost, or is late. *)
Fails(c) ==
    /\ storage = "redis" /\ call[c].at \in {"sent", "answered"}
    /\ faults < MaxFaults /\ faults' = faults + 1
    /\ answer' = [answer EXCEPT ![c] = FALSE]
    /\ \/ late' = late
       \/ /\ call[c].at = "sent"
          /\ late' = late \cup {[by |-> c, op |-> call[c].op, ttl |-> call[c].ttl]}
    /\ least' = [least EXCEPT ![c] =
                   IF call[c].op = "renew" /\ call[c].ttl < @ THEN call[c].ttl ELSE @]
    /\ UNCHANGED <<storage, clock, entry>>

(* The Redis client sends the command again. *)
Retry(c) == Fails(c) /\ Become(c, [call[c] EXCEPT !.at = "sent", !.sent = clock])

(* An error is reported; after a failed renewal the caller still has the   *)
(* lease with the end it was told, which Redis may have shortened.         *)
GiveUp(c) ==
    /\ Fails(c)
    /\ Become(c, IF call[c].op = "renew" THEN Leased(c, call[c].expires, call[c].life)
                 ELSE Ended(c))

(* Redis executes a command whose sender does not wait for it. *)
ExecuteLate(command) ==
    /\ command \in late
    /\ Command(command.by, command.op, command.ttl)
    /\ late' = late \ {command}
    /\ UNCHANGED <<storage, clock, call, answer, least, faults>>

Tick ==
    /\ clock < MaxTime
    /\ \A c \in Calls : call[c].at \in {"sent", "answered"} => clock < call[c].sent + Delay
    /\ clock' = clock + 1
    /\ UNCHANGED <<storage, entry, call, answer, late, least, faults>>

-----------------------------------------------------------------------------
CallStep(c) ==
    \/ \E ttl \in 0..(MaxTTL + 1) :
          \/ AcquireLease(c, ttl) \/ PutIdempotency(c, ttl) \/ RequestCancellation(c, ttl)
          \/ RenewLease(c, ttl)
    \/ ReleaseLease(c)
    \/ Execute(c) \/ Receive(c) \/ Retry(c) \/ GiveUp(c)

Next ==
    \/ \E c \in Calls : CallStep(c)
    \/ \E command \in late : ExecuteLate(command)
    \/ Tick

Spec == Init /\ [][Next]_vars

-----------------------------------------------------------------------------
(* Properties.                                                             *)

CallRecords ==
    [op : Ops \cup {"none"}, at : {"new", "sent", "answered", "idle", "ended"},
     ttl : Nat, sent : Nat, expires : Nat, life : Nat]

(* The variables keep their types. *)
CoordinatorTypeOK ==
    /\ storage \in {"memory", "redis"}
    /\ clock \in Nat
    /\ entry \in [Kinds -> [by : SUBSET Calls, until : Nat]]
    /\ call \in [Calls -> CallRecords]
    /\ answer \in [Calls -> BOOLEAN]
    /\ late \subseteq [by : Calls, op : Ops, ttl : Nat]
    /\ least \in [Calls -> Nat]
    /\ faults \in Nat

(* c has a lease whose ExpiresAt is still to come. *)
Holds(c) == call[c].op \in LeaseOps /\ clock < call[c].expires

(* No renewal of c that it has not heard of asks for less than the         *)
(* lifetime of the lease c was told it has.                                *)
Steady(c) ==
    /\ call[c].life <= least[c]
    /\ call[c].op = "renew" /\ call[c].at # "idle" => call[c].life <= call[c].ttl

(* Two callers can both hold the lease by their own ExpiresAt only in the  *)
(* last Delay of one of them, and never with the storage in memory: the    *)
(* end of a lease is counted from the answer and so is late by at most the *)
(* delay of a try, while a repeated, late or lost command of another       *)
(* caller never takes a lease away (AcquireLease, RenewLease,              *)
(* ReleaseLease).  A caller that asked to shorten its own lease and did    *)
(* not hear the answer is not covered: Redis may have done it.             *)
LeaseOverlapBounded ==
    \A c, d \in Calls :
        c # d /\ Holds(c) /\ Holds(d) /\ Steady(c) /\ Steady(d)
        => clock + Delay >= call[c].expires \/ clock + Delay >= call[d].expires

(* A caller that was told it created the record finds its own result       *)
(* reference for the lifetime it asked for, counted from the try that      *)
(* succeeded (PutIdempotency, GetIdempotency).                             *)
RecordKept ==
    \A c \in Calls :
        call[c].at = "idle" /\ call[c].op = "put" /\ clock < call[c].sent + call[c].ttl
        => Live("idempotency") /\ entry["idempotency"].by = {c}

(* A cancellation that was accepted is found for the lifetime it was asked *)
(* for; only a later request with a shorter lifetime can end it before     *)
(* (RequestCancellation, CancellationRequested).                           *)
SignalKept ==
    \A c \in Calls :
        call[c].at = "idle" /\ call[c].op = "request" /\ clock < call[c].sent + call[c].ttl
        => Live("cancel") \/ \E d \in entry["cancel"].by : call[d].ttl < call[c].ttl

=============================================================================
