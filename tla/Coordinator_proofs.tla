------------------------- MODULE Coordinator_proofs -------------------------
(***************************************************************************)
(* Proofs about the Coordinator, for any number of callers, any range of   *)
(* lifetimes, any delay and any number of faults.  The argument: while an  *)
(* entry is live only a command of its own caller changes it (or, for a    *)
(* signal, another request), and the lifetimes such a command can bring    *)
(* are known: that of the operation under way, and those of the renewals   *)
(* that were given up, of which least is a lower bound.                    *)
(***************************************************************************)
EXTENDS Coordinator, TLAPS

(* c was told of success, or is about to be. *)
Granted(c) == call[c].at = "idle" \/ (call[c].at = "answered" /\ answer[c])

(* Callers and commands under way bear times that are possible, and no     *)
(* lease lasts longer than its lifetime from now.                          *)
TimeInv ==
    /\ \A c \in Calls : call[c].sent <= clock
    /\ \A c \in Calls : call[c].at \in {"sent", "answered"} => clock <= call[c].sent + Delay
    /\ \A c \in Calls : call[c].expires <= clock + call[c].life

(* A release is the last operation of its caller, and a request its only   *)
(* one; what a late command asks for is on record at its caller.           *)
PlaceInv ==
    /\ \A c \in Calls : call[c].op = "none" <=> call[c].at = "new"
    /\ \A c \in Calls : call[c].op = "release" => call[c].expires = 0 /\ call[c].at # "idle"
    /\ \A m \in late : m.op = "release" => call[m.by].op = "release"
    /\ \A m \in late : m.op = "renew" => least[m.by] <= m.ttl
    /\ \A m \in late : m.op = "request" =>
          call[m.by].op = "request" /\ call[m.by].ttl = m.ttl
    /\ \A d \in entry["cancel"].by : call[d].op = "request"

(* A lease just granted is there, or the answer is so old that the         *)
(* lifetime is over; no earlier renewal can shorten it.                    *)
AnswerInv ==
    \A c \in Calls :
        /\ call[c].at = "answered" /\ answer[c] /\ call[c].op \in LeaseOps
        /\ call[c].ttl <= least[c]
        => \/ clock >= call[c].sent + call[c].ttl
           \/ /\ entry["lease"].by = {c}
              /\ entry["lease"].until >= call[c].sent + call[c].ttl

(* A record that was created is there until its lifetime is over. *)
RecordInv ==
    \A c \in Calls : Granted(c) /\ call[c].op = "put" =>
        \/ clock >= call[c].sent + call[c].ttl
        \/ /\ entry["idempotency"].by = {c}
           /\ entry["idempotency"].until >= call[c].sent + call[c].ttl

(* A signal lasts, unless a request with a shorter lifetime came later. *)
SignalInv ==
    \A c \in Calls : Granted(c) /\ call[c].op = "request" =>
        \/ \E d \in entry["cancel"].by : call[d].ttl < call[c].ttl
        \/ /\ entry["cancel"].by # {}
           /\ entry["cancel"].until >= call[c].sent + call[c].ttl

(* A steady holder has the lease but for the last Delay. *)
HoldInv ==
    \A c \in Calls :
        call[c].op \in LeaseOps /\ Steady(c) /\ clock + Delay < call[c].expires =>
            entry["lease"].by = {c} /\ call[c].expires <= entry["lease"].until + Delay

Inv ==
    /\ CoordinatorTypeOK /\ TimeInv /\ PlaceInv
    /\ AnswerInv /\ RecordInv /\ SignalInv /\ HoldInv

-----------------------------------------------------------------------------
(* The delay is a number, and the storage, which it depends on, is fixed. *)
LEMMA DelayFixed ==
    /\ Delay \in Nat
    /\ UNCHANGED storage => Delay' = Delay
BY CoordinatorConstants DEF Delay

(* The types of one caller's record. *)
LEMMA CallType ==
    ASSUME CoordinatorTypeOK, NEW c \in Calls
    PROVE  /\ call[c] \in CallRecords
           /\ call[c].op \in Ops \cup {"none"}
           /\ call[c].at \in {"new", "sent", "answered", "idle", "ended"}
           /\ call[c].ttl \in Nat /\ call[c].sent \in Nat
           /\ call[c].expires \in Nat /\ call[c].life \in Nat
           /\ answer[c] \in BOOLEAN /\ least[c] \in Nat
           /\ clock \in Nat
BY DEF CoordinatorTypeOK, CallRecords

(* The types of one entry. *)
LEMMA EntryType ==
    ASSUME CoordinatorTypeOK, NEW k \in Kinds
    PROVE  entry[k].by \in SUBSET Calls /\ entry[k].until \in Nat
BY DEF CoordinatorTypeOK

(* A step that becomes c's new record keeps the types of call. *)
LEMMA BecomeType ==
    ASSUME CoordinatorTypeOK, NEW c \in Calls, NEW new \in CallRecords, Become(c, new)
    PROVE  /\ call' \in [Calls -> CallRecords]
           /\ call'[c] = new
           /\ \A d \in Calls \ {c} : call'[d] = call[d]
BY DEF CoordinatorTypeOK, Become

(* What a command does: it keeps the types of the entries, only a renewal  *)
(* by its own caller changes a live lease, a live record stays as it is,   *)
(* and only a request changes a signal.                                    *)
LEMMA CommandEffect ==
    ASSUME CoordinatorTypeOK, NEW c \in Calls, NEW op \in Ops, NEW ttl \in Nat,
           Command(c, op, ttl), op = "release" => call[c].op = "release"
    PROVE  /\ entry' \in [Kinds -> [by : SUBSET Calls, until : Nat]]
           /\ \A d \in Calls :
                 /\ entry["lease"].by = {d} /\ clock < entry["lease"].until
                 /\ call[d].op # "release"
                 => /\ entry'["lease"].by = {d}
                    /\ \/ entry'["lease"].until = entry["lease"].until
                       \/ c = d /\ op = "renew" /\ entry'["lease"].until = clock + ttl
           /\ \A d \in Calls :
                 entry["idempotency"].by = {d} /\ clock < entry["idempotency"].until
                 => entry'["idempotency"] = entry["idempotency"]
           /\ \/ entry'["cancel"] = entry["cancel"]
              \/ /\ op = "request"
                 /\ entry'["cancel"].by = {c} /\ entry'["cancel"].until = clock + ttl
           /\ Succeeds(c, op) =>
                 /\ op \in LeaseOps =>
                       entry'["lease"].by = {c} /\ entry'["lease"].until = clock + ttl
                 /\ op = "put" =>
                       entry'["idempotency"].by = {c} /\ entry'["idempotency"].until = clock + ttl
                 /\ op = "request" =>
                       entry'["cancel"].by = {c} /\ entry'["cancel"].until = clock + ttl
<1>1. /\ entry \in [Kinds -> [by : SUBSET Calls, until : Nat]]
      /\ clock \in Nat /\ clock + ttl \in Nat
      /\ "lease" \in Kinds /\ "idempotency" \in Kinds /\ "cancel" \in Kinds
    BY DEF CoordinatorTypeOK, Kinds
<1>2. CASE ~Succeeds(c, op)
    BY <1>1, <1>2 DEF Command
<1>3. CASE Succeeds(c, op) /\ op = "acquire"
  <2>1. entry' = [entry EXCEPT !["lease"] = [by |-> {c}, until |-> clock + ttl]]
      BY <1>3 DEF Command, Put
  <2>2. ~(entry["lease"].by # {} /\ clock < entry["lease"].until)
      BY <1>3 DEF Succeeds, Creates, Live
  <2>. QED  BY <1>1, <1>3, <2>1, <2>2 DEF LeaseOps
<1>4. CASE Succeeds(c, op) /\ op = "renew"
  <2>1. entry' = [entry EXCEPT !["lease"] = [by |-> {c}, until |-> clock + ttl]]
      BY <1>4 DEF Command, Put
  <2>2. entry["lease"].by = {c}
      BY <1>4 DEF Succeeds, Renews
  <2>. QED  BY <1>1, <1>4, <2>1, <2>2 DEF LeaseOps
<1>5. CASE Succeeds(c, op) /\ op = "release"
  <2>1. entry' = [entry EXCEPT !["lease"] = [by |-> {}, until |-> 0]]
      BY <1>5 DEF Command, NoEntry
  <2>2. entry["lease"].by = {c} /\ call[c].op = "release"
      BY <1>5 DEF Succeeds, Releases
  <2>. QED  BY <1>1, <1>5, <2>1, <2>2 DEF LeaseOps
<1>6. CASE Succeeds(c, op) /\ op = "put"
  <2>1. entry' = [entry EXCEPT !["idempotency"] = [by |-> {c}, until |-> clock + ttl]]
      BY <1>6 DEF Command, Put
  <2>2. ~(entry["idempotency"].by # {} /\ clock < entry["idempotency"].until)
      BY <1>6 DEF Succeeds, Creates, Live
  <2>. QED  BY <1>1, <1>6, <2>1, <2>2 DEF LeaseOps
<1>7. CASE Succeeds(c, op) /\ op = "request"
  <2>1. entry' = [entry EXCEPT !["cancel"] = [by |-> {c}, until |-> clock + ttl]]
      BY <1>7 DEF Command, Put
  <2>. QED  BY <1>1, <1>7, <2>1 DEF LeaseOps
<1>. QED  BY <1>2, <1>3, <1>4, <1>5, <1>6, <1>7 DEF Ops

(* A command of c, of its operation under way or of a late one, keeps what *)
(* the others were told, and what c was told before.  The record of c may  *)
(* move to its answer with it.                                             *)
LEMMA CommandKeeps ==
    ASSUME Inv, NEW c \in Calls, NEW op \in Ops, NEW ttl \in Nat,
           Command(c, op, ttl), UNCHANGED <<storage, clock, least>>,
           op = "release" => call[c].op = "release",
           op = "renew" => least[c] <= ttl \/ (call[c].at = "sent" /\ call[c].ttl = ttl
                                               /\ call[c].op = "renew"),
           op = "request" => call[c].op = "request" /\ call[c].ttl = ttl,
           \A d \in Calls : /\ call'[d].op = call[d].op /\ call'[d].ttl = call[d].ttl
                            /\ call'[d].sent = call[d].sent /\ call'[d].life = call[d].life
                            /\ call'[d].expires = call[d].expires
                            /\ call'[d].at # call[d].at => call[d].at = "sent"
                                                           /\ call'[d].at = "answered"
    PROVE  /\ HoldInv'
           /\ \A d \in entry'["cancel"].by : call'[d].op = "request"
           /\ \A d \in Calls :
                 /\ call[d].at = "answered" /\ answer[d] /\ call[d].op \in LeaseOps
                 /\ call[d].ttl <= least[d]
                 => \/ clock >= call[d].sent + call[d].ttl
                    \/ /\ entry'["lease"].by = {d}
                       /\ entry'["lease"].until >= call[d].sent + call[d].ttl
           /\ \A d \in Calls : Granted(d) /\ call[d].op = "put" =>
                 \/ clock >= call[d].sent + call[d].ttl
                 \/ /\ entry'["idempotency"].by = {d}
                    /\ entry'["idempotency"].until >= call[d].sent + call[d].ttl
           /\ \A d \in Calls : Granted(d) /\ call[d].op = "request" =>
                 \/ \E e \in entry'["cancel"].by : call'[e].ttl < call[d].ttl
                 \/ /\ entry'["cancel"].by # {}
                    /\ entry'["cancel"].until >= call[d].sent + call[d].ttl
<1>1. CoordinatorTypeOK /\ TimeInv /\ PlaceInv /\ AnswerInv /\ RecordInv /\ SignalInv /\ HoldInv
    BY DEF Inv
<1>2. /\ \A d \in Calls :
            /\ entry["lease"].by = {d} /\ clock < entry["lease"].until
            /\ call[d].op # "release"
            => /\ entry'["lease"].by = {d}
               /\ \/ entry'["lease"].until = entry["lease"].until
                  \/ c = d /\ op = "renew" /\ entry'["lease"].until = clock + ttl
      /\ \A d \in Calls :
            entry["idempotency"].by = {d} /\ clock < entry["idempotency"].until
            => entry'["idempotency"] = entry["idempotency"]
      /\ \/ entry'["cancel"] = entry["cancel"]
         \/ /\ op = "request"
            /\ entry'["cancel"].by = {c} /\ entry'["cancel"].until = clock + ttl
    BY <1>1, CommandEffect
<1>3. /\ entry["lease"].until \in Nat /\ entry["idempotency"].until \in Nat
      /\ entry["cancel"].until \in Nat /\ entry["cancel"].by \in SUBSET Calls
    BY <1>1, EntryType DEF Kinds
<1>4. Delay \in Nat /\ Delay' = Delay /\ clock \in Nat
    BY <1>1, DelayFixed DEF CoordinatorTypeOK
<1>5. \A d \in Calls : /\ call[d].ttl \in Nat /\ call[d].sent \in Nat
                       /\ call[d].expires \in Nat /\ call[d].life \in Nat /\ least[d] \in Nat
                       /\ call[d].sent <= clock /\ call[d].expires <= clock + call[d].life
    BY <1>1, CallType DEF TimeInv
<1>6. HoldInv'
  <2>. SUFFICES ASSUME NEW d \in Calls, call'[d].op \in LeaseOps, Steady(d)',
                       clock' + Delay' < call'[d].expires
                PROVE  entry'["lease"].by = {d} /\ call'[d].expires <= entry'["lease"].until + Delay'
      BY DEF HoldInv
  <2>1. Steady(d)
      BY DEF Steady
  <2>2. entry["lease"].by = {d} /\ call[d].expires <= entry["lease"].until + Delay
      BY <1>1, <1>4, <2>1 DEF HoldInv
  <2>3. clock < entry["lease"].until
      BY <1>3, <1>4, <1>5, <2>2
  <2>4. CASE entry'["lease"].until = entry["lease"].until
      BY <1>2, <1>4, <2>2, <2>3, <2>4 DEF LeaseOps
  <2>5. CASE c = d /\ op = "renew" /\ entry'["lease"].until = clock + ttl
    <3>1. call[c].life <= ttl
        BY <1>5, <2>1, <2>5 DEF Steady
    <3>. QED  BY <1>2, <1>4, <1>5, <2>2, <2>3, <2>5, <3>1 DEF LeaseOps
  <2>. QED  BY <1>2, <2>2, <2>3, <2>4, <2>5 DEF LeaseOps
<1>7. \A d \in entry'["cancel"].by : call'[d].op = "request"
    BY <1>1, <1>2, <1>3 DEF PlaceInv
<1>8. ASSUME NEW d \in Calls, call[d].at = "answered", answer[d], call[d].op \in LeaseOps,
             call[d].ttl <= least[d], ~(clock >= call[d].sent + call[d].ttl)
      PROVE  /\ entry'["lease"].by = {d}
             /\ entry'["lease"].until >= call[d].sent + call[d].ttl
  <2>1. entry["lease"].by = {d} /\ entry["lease"].until >= call[d].sent + call[d].ttl
      BY <1>1, <1>8 DEF AnswerInv
  <2>2. clock < entry["lease"].until
      BY <1>3, <1>4, <1>5, <1>8, <2>1
  <2>3. CASE c = d /\ op = "renew" /\ entry'["lease"].until = clock + ttl
    <3>1. call[d].ttl <= ttl
        BY <1>5, <1>8, <2>3
    <3>. QED  BY <1>2, <1>4, <1>5, <1>8, <2>1, <2>2, <2>3, <3>1 DEF LeaseOps
  <2>. QED  BY <1>2, <1>8, <2>1, <2>2, <2>3 DEF LeaseOps
<1>9. ASSUME NEW d \in Calls, Granted(d), call[d].op = "put",
             ~(clock >= call[d].sent + call[d].ttl)
      PROVE  /\ entry'["idempotency"].by = {d}
             /\ entry'["idempotency"].until >= call[d].sent + call[d].ttl
  <2>1. /\ entry["idempotency"].by = {d}
        /\ entry["idempotency"].until >= call[d].sent + call[d].ttl
      BY <1>1, <1>9 DEF RecordInv
  <2>. QED  BY <1>2, <1>3, <1>4, <1>5, <1>9, <2>1
<1>10. ASSUME NEW d \in Calls, Granted(d), call[d].op = "request"
       PROVE  \/ \E e \in entry'["cancel"].by : call'[e].ttl < call[d].ttl
              \/ /\ entry'["cancel"].by # {}
                 /\ entry'["cancel"].until >= call[d].sent + call[d].ttl
  <2>1. CASE entry'["cancel"] = entry["cancel"]
    <3>1. \/ \E e \in entry["cancel"].by : call[e].ttl < call[d].ttl
          \/ /\ entry["cancel"].by # {}
             /\ entry["cancel"].until >= call[d].sent + call[d].ttl
        BY <1>1, <1>10 DEF SignalInv
    <3>. QED  BY <1>3, <2>1, <3>1
  <2>2. CASE op = "request" /\ entry'["cancel"].by = {c} /\ entry'["cancel"].until = clock + ttl
    <3>1. c \in entry'["cancel"].by /\ call'[c].ttl = ttl
        BY <2>2
    <3>2. ttl < call[d].ttl \/ clock + ttl >= call[d].sent + call[d].ttl
        BY <1>4, <1>5
    <3>. QED  BY <2>2, <3>1, <3>2
  <2>. QED  BY <1>2, <2>1, <2>2
<1>. QED  BY <1>6, <1>7, <1>8, <1>9, <1>10

-----------------------------------------------------------------------------
(* The invariant holds at the start. *)
LEMMA InitInv == Init => Inv
<1>. SUFFICES ASSUME Init PROVE Inv
    OBVIOUS
<1>1. CoordinatorTypeOK
  <2>1. call \in [Calls -> CallRecords]
      BY DEF Init, NewCall, CallRecords
  <2>. QED  BY <2>1, CoordinatorConstants DEF Init, CoordinatorTypeOK, NoEntry
<1>2. \A c \in Calls : /\ call[c].op = "none" /\ call[c].at = "new" /\ call[c].sent = 0
                       /\ call[c].expires = 0 /\ call[c].life = 0
    BY DEF Init, NewCall
<1>3. clock = 0 /\ late = {} /\ entry["cancel"].by = {}
    BY DEF Init, NoEntry, Kinds
<1>4. TimeInv /\ PlaceInv
    BY <1>2, <1>3 DEF TimeInv, PlaceInv
<1>5. AnswerInv /\ RecordInv /\ SignalInv /\ HoldInv
    BY <1>2 DEF AnswerInv, RecordInv, SignalInv, HoldInv, Granted, LeaseOps
<1>. QED  BY <1>1, <1>4, <1>5 DEF Inv

(* Sending a first command, a renewal or a release keeps it. *)
LEMMA SendInv ==
    ASSUME Inv, NEW c \in Calls, NEW op \in Ops, NEW ttl \in Nat, Send(c, op, ttl),
           \/ call[c].at = "new" /\ op \notin {"renew", "release"}
           \/ HasLease(c)
    PROVE  Inv'
<1> DEFINE new == [call[c] EXCEPT !.op = op, !.at = "sent", !.ttl = ttl, !.sent = clock,
                                  !.expires = IF op = "renew" THEN @ ELSE 0]
<1>1. Become(c, new) /\ UNCHANGED <<storage, clock, entry, answer, late, least, faults>>
    BY DEF Send
<1>2. CoordinatorTypeOK /\ TimeInv /\ PlaceInv /\ AnswerInv /\ RecordInv /\ SignalInv /\ HoldInv
    BY DEF Inv
<1>3. call[c] \in CallRecords /\ clock \in Nat /\ call[c].expires \in Nat /\ call[c].life \in Nat
    BY <1>2, CallType
<1>4. /\ new \in CallRecords
      /\ new.op = op /\ new.at = "sent" /\ new.ttl = ttl /\ new.sent = clock
      /\ new.expires = (IF op = "renew" THEN call[c].expires ELSE 0) /\ new.life = call[c].life
    BY <1>3 DEF CallRecords
<1> HIDE DEF new
<1>5. /\ call' \in [Calls -> CallRecords]
      /\ call'[c] = new
      /\ \A d \in Calls \ {c} : call'[d] = call[d]
    BY <1>1, <1>2, <1>4, BecomeType
<1>6. Delay \in Nat /\ Delay' = Delay
    BY <1>1, DelayFixed
<1>7. /\ op = "renew" => HasLease(c) /\ call[c].op \in LeaseOps
      /\ call[c].op # "release" /\ call[c].op # "request"
    BY <1>2 DEF HasLease, PlaceInv, LeaseOps
<1>8. CoordinatorTypeOK'
    BY <1>1, <1>2, <1>5 DEF CoordinatorTypeOK
<1>9. TimeInv'
    BY <1>1, <1>2, <1>3, <1>4, <1>5, <1>6 DEF TimeInv
<1>10. PlaceInv'
  <2>1. \A d \in Calls : (call'[d].op = "none" <=> call'[d].at = "new")
      BY <1>2, <1>4, <1>5 DEF PlaceInv, Ops
  <2>2. \A d \in Calls : call'[d].op = "release" => call'[d].expires = 0 /\ call'[d].at # "idle"
      BY <1>2, <1>4, <1>5 DEF PlaceInv
  <2>3. \A m \in late' : m.by \in Calls /\ m \in late
      BY <1>1, <1>2 DEF CoordinatorTypeOK
  <2>4. \A m \in late' : /\ m.op = "release" => call'[m.by].op = "release"
                         /\ m.op = "renew" => least'[m.by] <= m.ttl
                         /\ m.op = "request" =>
                               call'[m.by].op = "request" /\ call'[m.by].ttl = m.ttl
      BY <1>1, <1>2, <1>5, <1>7, <2>3 DEF PlaceInv
  <2>5. \A d \in entry'["cancel"].by : call'[d].op = "request"
      BY <1>1, <1>2, <1>5, <1>7, EntryType DEF PlaceInv, Kinds
  <2>. QED  BY <2>1, <2>2, <2>4, <2>5 DEF PlaceInv
<1>11. AnswerInv' /\ RecordInv'
    BY <1>1, <1>2, <1>4, <1>5 DEF AnswerInv, RecordInv, Granted
<1>12. SignalInv'
  <2>1. entry["cancel"].by \in SUBSET Calls /\ c \notin entry["cancel"].by
      BY <1>2, <1>7, EntryType DEF PlaceInv, Kinds
  <2>. QED  BY <1>1, <1>2, <1>4, <1>5, <2>1 DEF SignalInv, Granted
<1>13. HoldInv'
  <2>. SUFFICES ASSUME NEW d \in Calls, call'[d].op \in LeaseOps, Steady(d)',
                       clock' + Delay' < call'[d].expires
                PROVE  entry'["lease"].by = {d} /\ call'[d].expires <= entry'["lease"].until + Delay'
      BY DEF HoldInv
  <2>1. CASE d # c
      BY <1>1, <1>2, <1>5, <1>6, <2>1 DEF HoldInv, Steady
  <2>2. CASE d = c
    <3>1. op = "renew"
        BY <1>1, <1>3, <1>4, <1>5, <1>6, <2>2
    <3>2. Steady(c)
        BY <1>1, <1>4, <1>5, <1>7, <2>2, <3>1 DEF Steady, HasLease
    <3>. QED  BY <1>1, <1>2, <1>4, <1>5, <1>6, <1>7, <2>2, <3>1, <3>2 DEF HoldInv
  <2>. QED  BY <2>1, <2>2
<1>. QED  BY <1>8, <1>9, <1>10, <1>11, <1>12, <1>13 DEF Inv

(* Redis, or the memory, carries out the command its caller waits for. *)
LEMMA ExecuteInv ==
    ASSUME Inv, NEW c \in Calls, Execute(c)
    PROVE  Inv'
<1> DEFINE new == [call[c] EXCEPT !.at = "answered"]
<1>1. /\ call[c].at = "sent" /\ Become(c, new) /\ Command(c, call[c].op, call[c].ttl)
      /\ answer' = [answer EXCEPT ![c] = Succeeds(c, call[c].op)]
      /\ UNCHANGED <<storage, clock, late, least, faults>>
    BY DEF Execute
<1>2. CoordinatorTypeOK /\ TimeInv /\ PlaceInv /\ AnswerInv /\ RecordInv /\ SignalInv /\ HoldInv
    BY DEF Inv
<1>3. call[c].op \in Ops /\ call[c] \in CallRecords /\ call[c].ttl \in Nat
    BY <1>1, <1>2, CallType DEF PlaceInv
<1>4. /\ new \in CallRecords
      /\ new.op = call[c].op /\ new.ttl = call[c].ttl /\ new.sent = call[c].sent
      /\ new.expires = call[c].expires /\ new.life = call[c].life /\ new.at = "answered"
    BY <1>3 DEF CallRecords
<1> HIDE DEF new
<1>5. /\ call' \in [Calls -> CallRecords]
      /\ call'[c] = new
      /\ \A d \in Calls \ {c} : call'[d] = call[d]
    BY <1>1, <1>2, <1>4, BecomeType
<1>6. Delay \in Nat /\ Delay' = Delay /\ clock \in Nat
    BY <1>1, <1>2, DelayFixed DEF CoordinatorTypeOK
<1>7. \A d \in Calls : /\ call'[d].op = call[d].op /\ call'[d].ttl = call[d].ttl
                       /\ call'[d].sent = call[d].sent /\ call'[d].life = call[d].life
                       /\ call'[d].expires = call[d].expires
                       /\ call'[d].at # call[d].at => call[d].at = "sent" /\ call'[d].at = "answered"
    BY <1>1, <1>4, <1>5
<1>8. /\ entry' \in [Kinds -> [by : SUBSET Calls, until : Nat]]
      /\ Succeeds(c, call[c].op) =>
            /\ call[c].op \in LeaseOps =>
                  entry'["lease"].by = {c} /\ entry'["lease"].until = clock + call[c].ttl
            /\ call[c].op = "put" =>
                  /\ entry'["idempotency"].by = {c}
                  /\ entry'["idempotency"].until = clock + call[c].ttl
            /\ call[c].op = "request" =>
                  entry'["cancel"].by = {c} /\ entry'["cancel"].until = clock + call[c].ttl
    BY <1>1, <1>2, <1>3, CommandEffect
<1>9. /\ HoldInv'
      /\ \A d \in entry'["cancel"].by : call'[d].op = "request"
      /\ \A d \in Calls :
            /\ call[d].at = "answered" /\ answer[d] /\ call[d].op \in LeaseOps
            /\ call[d].ttl <= least[d]
            => \/ clock >= call[d].sent + call[d].ttl
               \/ /\ entry'["lease"].by = {d}
                  /\ entry'["lease"].until >= call[d].sent + call[d].ttl
      /\ \A d \in Calls : Granted(d) /\ call[d].op = "put" =>
            \/ clock >= call[d].sent + call[d].ttl
            \/ /\ entry'["idempotency"].by = {d}
               /\ entry'["idempotency"].until >= call[d].sent + call[d].ttl
      /\ \A d \in Calls : Granted(d) /\ call[d].op = "request" =>
            \/ \E e \in entry'["cancel"].by : call'[e].ttl < call[d].ttl
            \/ /\ entry'["cancel"].by # {}
               /\ entry'["cancel"].until >= call[d].sent + call[d].ttl
    BY <1>1, <1>3, <1>7, CommandKeeps
<1>10. \A d \in Calls \ {c} : answer'[d] = answer[d] /\ (Granted(d)' => Granted(d))
    BY <1>1, <1>2, <1>5 DEF Granted, CoordinatorTypeOK
<1>11. answer'[c] => Succeeds(c, call[c].op)
    BY <1>1, <1>2 DEF CoordinatorTypeOK
<1>12. call[c].sent \in Nat /\ call[c].sent <= clock
    BY <1>2, CallType DEF TimeInv
<1>13. CoordinatorTypeOK'
  <2>1. Succeeds(c, call[c].op) \in BOOLEAN
      BY <1>3 DEF Ops, Succeeds, Creates, Renews, Releases, Live
  <2>2. answer' \in [Calls -> BOOLEAN]
      BY <1>1, <1>2, <2>1 DEF CoordinatorTypeOK
  <2>. QED  BY <1>1, <1>2, <1>5, <1>8, <2>2 DEF CoordinatorTypeOK
<1>14. TimeInv'
    BY <1>1, <1>2, <1>6, <1>7 DEF TimeInv
<1>15. PlaceInv'
  <2>1. \A d \in Calls : (call'[d].op = "none" <=> call'[d].at = "new")
      BY <1>2, <1>7 DEF PlaceInv
  <2>2. \A d \in Calls : call'[d].op = "release" => call'[d].expires = 0 /\ call'[d].at # "idle"
      BY <1>2, <1>7 DEF PlaceInv
  <2>3. \A m \in late' : m.by \in Calls /\ m \in late
      BY <1>1, <1>2 DEF CoordinatorTypeOK
  <2>. QED  BY <1>1, <1>2, <1>7, <1>9, <2>1, <2>2, <2>3 DEF PlaceInv
<1>16. AnswerInv'
  <2>1. ASSUME NEW d \in Calls \ {c}, call'[d].at = "answered", answer'[d],
               call'[d].op \in LeaseOps, call'[d].ttl <= least'[d]
        PROVE  \/ clock' >= call'[d].sent + call'[d].ttl
               \/ /\ entry'["lease"].by = {d}
                  /\ entry'["lease"].until >= call'[d].sent + call'[d].ttl
      BY <1>1, <1>5, <1>9, <1>10, <2>1
  <2>2. ASSUME answer'[c], call'[c].op \in LeaseOps
        PROVE  /\ entry'["lease"].by = {c}
               /\ entry'["lease"].until >= call'[c].sent + call'[c].ttl
      BY <1>3, <1>6, <1>7, <1>8, <1>11, <1>12, <2>2
  <2>. QED  BY <2>1, <2>2 DEF AnswerInv
<1>17. RecordInv'
  <2>1. ASSUME NEW d \in Calls \ {c}, Granted(d)', call'[d].op = "put"
        PROVE  \/ clock' >= call'[d].sent + call'[d].ttl
               \/ /\ entry'["idempotency"].by = {d}
                  /\ entry'["idempotency"].until >= call'[d].sent + call'[d].ttl
      BY <1>1, <1>5, <1>9, <1>10, <2>1
  <2>2. ASSUME Granted(c)', call'[c].op = "put"
        PROVE  /\ entry'["idempotency"].by = {c}
               /\ entry'["idempotency"].until >= call'[c].sent + call'[c].ttl
    <3>1. answer'[c]
        BY <1>4, <1>5, <2>2 DEF Granted
    <3>. QED  BY <1>3, <1>6, <1>7, <1>8, <1>11, <1>12, <2>2, <3>1
  <2>. QED  BY <2>1, <2>2 DEF RecordInv
<1>18. SignalInv'
  <2>1. ASSUME NEW d \in Calls \ {c}, Granted(d)', call'[d].op = "request"
        PROVE  \/ \E e \in entry'["cancel"].by : call'[e].ttl < call'[d].ttl
               \/ /\ entry'["cancel"].by # {}
                  /\ entry'["cancel"].until >= call'[d].sent + call'[d].ttl
      BY <1>5, <1>9, <1>10, <2>1
  <2>2. ASSUME Granted(c)', call'[c].op = "request"
        PROVE  /\ entry'["cancel"].by # {}
               /\ entry'["cancel"].until >= call'[c].sent + call'[c].ttl
    <3>1. answer'[c]
        BY <1>4, <1>5, <2>2 DEF Granted
    <3>. QED  BY <1>3, <1>6, <1>7, <1>8, <1>11, <1>12, <2>2, <3>1
  <2>. QED  BY <2>1, <2>2 DEF SignalInv
<1>. QED  BY <1>9, <1>13, <1>14, <1>15, <1>16, <1>17, <1>18 DEF Inv

(* A late command may be carried out at any time. *)
LEMMA ExecuteLateInv ==
    ASSUME Inv, NEW m \in late, ExecuteLate(m)
    PROVE  Inv'
<1>1. /\ Command(m.by, m.op, m.ttl) /\ late' \subseteq late
      /\ UNCHANGED <<storage, clock, call, answer, least, faults>>
    BY DEF ExecuteLate
<1>2. CoordinatorTypeOK /\ TimeInv /\ PlaceInv /\ AnswerInv /\ RecordInv /\ SignalInv /\ HoldInv
    BY DEF Inv
<1>3. /\ m.by \in Calls /\ m.op \in Ops /\ m.ttl \in Nat
      /\ m.op = "release" => call[m.by].op = "release"
      /\ m.op = "renew" => least[m.by] <= m.ttl
      /\ m.op = "request" => call[m.by].op = "request" /\ call[m.by].ttl = m.ttl
    BY <1>2 DEF CoordinatorTypeOK, PlaceInv
<1>4. entry' \in [Kinds -> [by : SUBSET Calls, until : Nat]]
    BY <1>1, <1>2, <1>3, CommandEffect
<1>5. /\ HoldInv'
      /\ \A d \in entry'["cancel"].by : call'[d].op = "request"
      /\ \A d \in Calls :
            /\ call[d].at = "answered" /\ answer[d] /\ call[d].op \in LeaseOps
            /\ call[d].ttl <= least[d]
            => \/ clock >= call[d].sent + call[d].ttl
               \/ /\ entry'["lease"].by = {d}
                  /\ entry'["lease"].until >= call[d].sent + call[d].ttl
      /\ \A d \in Calls : Granted(d) /\ call[d].op = "put" =>
            \/ clock >= call[d].sent + call[d].ttl
            \/ /\ entry'["idempotency"].by = {d}
               /\ entry'["idempotency"].until >= call[d].sent + call[d].ttl
      /\ \A d \in Calls : Granted(d) /\ call[d].op = "request" =>
            \/ \E e \in entry'["cancel"].by : call'[e].ttl < call[d].ttl
            \/ /\ entry'["cancel"].by # {}
               /\ entry'["cancel"].until >= call[d].sent + call[d].ttl
    BY <1>1, <1>3, CommandKeeps
<1>6. Delay' = Delay
    BY <1>1, DelayFixed
<1>7. CoordinatorTypeOK' /\ TimeInv'
    BY <1>1, <1>2, <1>4, <1>6 DEF CoordinatorTypeOK, TimeInv
<1>8. PlaceInv'
    BY <1>1, <1>2, <1>5 DEF PlaceInv
<1>9. AnswerInv' /\ RecordInv' /\ SignalInv'
    BY <1>1, <1>5 DEF AnswerInv, RecordInv, SignalInv, Granted
<1>. QED  BY <1>5, <1>7, <1>8, <1>9 DEF Inv

(* The caller hears the answer. *)
LEMMA ReceiveInv ==
    ASSUME Inv, NEW c \in Calls, Receive(c)
    PROVE  Inv'
<1>1. /\ call[c].at = "answered"
      /\ answer' = [answer EXCEPT ![c] = FALSE]
      /\ UNCHANGED <<storage, clock, entry, late, least, faults>>
    BY DEF Receive
<1>2. CoordinatorTypeOK /\ TimeInv /\ PlaceInv /\ AnswerInv /\ RecordInv /\ SignalInv /\ HoldInv
    BY DEF Inv
<1>3. Delay \in Nat /\ Delay' = Delay
    BY <1>1, DelayFixed
<1>4. /\ call[c] \in CallRecords /\ clock \in Nat /\ call[c].op \in Ops
      /\ call[c].ttl \in Nat /\ call[c].sent \in Nat /\ clock + call[c].ttl \in Nat
      /\ call[c].sent <= clock /\ clock <= call[c].sent + Delay
    BY <1>1, <1>2, CallType DEF PlaceInv, TimeInv
<1>5. PICK new \in CallRecords :
          /\ Become(c, new) /\ new.op = call[c].op
          /\ \/ new.at = "ended" /\ new.ttl = call[c].ttl /\ new.sent = 0
                /\ new.expires = 0 /\ new.life = 0
             \/ /\ answer[c] /\ call[c].op \in LeaseOps /\ new.at = "idle" /\ new.sent = 0
                /\ new.expires = clock + call[c].ttl /\ new.life = call[c].ttl
             \/ /\ answer[c] /\ call[c].op \notin LeaseOps \cup {"release"} /\ new.at = "idle"
                /\ new.ttl = call[c].ttl /\ new.sent = call[c].sent
                /\ new.expires = call[c].expires /\ new.life = call[c].life
  <2>1. CASE ~answer[c] \/ call[c].op = "release"
    <3> DEFINE n == [call[c] EXCEPT !.at = "ended", !.sent = 0, !.expires = 0, !.life = 0]
    <3>1. Become(c, n)
        BY <2>1 DEF Receive, Ended
    <3>2. /\ n \in CallRecords /\ n.op = call[c].op /\ n.at = "ended" /\ n.ttl = call[c].ttl
          /\ n.sent = 0 /\ n.expires = 0 /\ n.life = 0
        BY <1>4 DEF CallRecords
    <3> HIDE DEF n
    <3>. QED  BY <3>1, <3>2
  <2>2. CASE answer[c] /\ call[c].op \in LeaseOps
    <3> DEFINE n == [op |-> call[c].op, at |-> "idle", ttl |-> 0, sent |-> 0,
                     expires |-> clock + call[c].ttl, life |-> call[c].ttl]
    <3>1. Become(c, n)
        BY <2>2 DEF Receive, Leased, LeaseOps
    <3>2. /\ n \in CallRecords /\ n.op = call[c].op /\ n.at = "idle" /\ n.sent = 0
          /\ n.expires = clock + call[c].ttl /\ n.life = call[c].ttl
        BY <1>4 DEF CallRecords
    <3> HIDE DEF n
    <3>. QED  BY <2>2, <3>1, <3>2
  <2>3. CASE answer[c] /\ call[c].op \notin LeaseOps /\ call[c].op # "release"
    <3> DEFINE n == [call[c] EXCEPT !.at = "idle"]
    <3>1. Become(c, n)
        BY <2>3 DEF Receive
    <3>2. /\ n \in CallRecords /\ n.op = call[c].op /\ n.at = "idle" /\ n.ttl = call[c].ttl
          /\ n.sent = call[c].sent /\ n.expires = call[c].expires /\ n.life = call[c].life
        BY <1>4 DEF CallRecords
    <3> HIDE DEF n
    <3>. QED  BY <2>3, <3>1, <3>2
  <2>. QED  BY <2>1, <2>2, <2>3
<1>6. /\ call' \in [Calls -> CallRecords]
      /\ call'[c] = new
      /\ \A d \in Calls \ {c} : call'[d] = call[d]
    BY <1>2, <1>5, BecomeType
<1>7. /\ \A d \in Calls : call'[d].op = call[d].op
      /\ \A d \in Calls : call[d].op = "request" => call'[d].ttl = call[d].ttl
      /\ \A d \in Calls \ {c} : answer'[d] = answer[d] /\ (Granted(d)' => Granted(d))
    BY <1>1, <1>2, <1>5, <1>6 DEF Granted, CoordinatorTypeOK, LeaseOps
<1>8. CoordinatorTypeOK'
    BY <1>1, <1>2, <1>6 DEF CoordinatorTypeOK
<1>9. TimeInv'
  <2>1. \A d \in Calls \ {c} : /\ call'[d].sent <= clock'
                               /\ call'[d].at \in {"sent", "answered"} =>
                                     clock' <= call'[d].sent + Delay'
                               /\ call'[d].expires <= clock' + call'[d].life
      BY <1>1, <1>2, <1>3, <1>6 DEF TimeInv
  <2>2. new.sent <= clock /\ new.at \notin {"sent", "answered"} /\ new.expires <= clock + new.life
      BY <1>2, <1>4, <1>5 DEF TimeInv
  <2>. QED  BY <1>1, <1>3, <1>6, <2>1, <2>2 DEF TimeInv
<1>10. PlaceInv'
  <2>1. \A d \in Calls : (call'[d].op = "none" <=> call'[d].at = "new")
      BY <1>1, <1>2, <1>5, <1>6 DEF PlaceInv
  <2>2. \A d \in Calls : call'[d].op = "release" => call'[d].expires = 0 /\ call'[d].at # "idle"
      BY <1>2, <1>5, <1>6 DEF PlaceInv, LeaseOps
  <2>3. \A m \in late' : m.by \in Calls /\ m \in late
      BY <1>1, <1>2 DEF CoordinatorTypeOK
  <2>4. \A d \in entry'["cancel"].by : call'[d].op = "request"
      BY <1>1, <1>2, <1>7, EntryType DEF PlaceInv, Kinds
  <2>. QED  BY <1>1, <1>2, <1>7, <2>1, <2>2, <2>3, <2>4 DEF PlaceInv
<1>11. ~answer'[c]
    BY <1>1, <1>2 DEF CoordinatorTypeOK
<1>12. AnswerInv'
    BY <1>1, <1>2, <1>6, <1>7, <1>11 DEF AnswerInv
<1>13. Granted(c)' /\ call'[c].op \notin LeaseOps =>
           Granted(c) /\ call'[c].ttl = call[c].ttl /\ call'[c].sent = call[c].sent
    BY <1>1, <1>5, <1>6, <1>11 DEF Granted
<1>14. RecordInv'
    BY <1>1, <1>2, <1>6, <1>7, <1>13 DEF RecordInv, LeaseOps
<1>15. SignalInv'
  <2>. SUFFICES ASSUME NEW d \in Calls, Granted(d)', call'[d].op = "request"
                PROVE  \/ \E e \in entry'["cancel"].by : call'[e].ttl < call'[d].ttl
                       \/ /\ entry'["cancel"].by # {}
                          /\ entry'["cancel"].until >= call'[d].sent + call'[d].ttl
      BY DEF SignalInv
  <2>1. Granted(d) /\ call[d].op = "request" /\ call'[d].ttl = call[d].ttl
        /\ call'[d].sent = call[d].sent
      BY <1>6, <1>7, <1>13 DEF LeaseOps
  <2>2. \A e \in entry["cancel"].by : call'[e].ttl = call[e].ttl
      BY <1>2, <1>7, EntryType DEF PlaceInv, Kinds
  <2>. QED  BY <1>1, <1>2, <2>1, <2>2 DEF SignalInv
<1>16. HoldInv'
  <2>. SUFFICES ASSUME NEW d \in Calls, call'[d].op \in LeaseOps, Steady(d)',
                       clock' + Delay' < call'[d].expires
                PROVE  entry'["lease"].by = {d} /\ call'[d].expires <= entry'["lease"].until + Delay'
      BY DEF HoldInv
  <2>1. CASE d # c
      BY <1>1, <1>2, <1>3, <1>6, <2>1 DEF HoldInv, Steady
  <2>2. CASE d = c
    <3>1. /\ answer[c] /\ call[c].op \in LeaseOps
          /\ new.expires = clock + call[c].ttl /\ new.life = call[c].ttl
        BY <1>1, <1>3, <1>4, <1>5, <1>6, <2>2
    <3>2. Delay < call[c].ttl /\ call[c].ttl <= least[c]
        BY <1>1, <1>3, <1>4, <1>6, <2>2, <3>1 DEF Steady
    <3>3. clock < call[c].sent + call[c].ttl
        BY <1>3, <1>4, <3>2
    <3>4. entry["lease"].by = {c} /\ entry["lease"].until >= call[c].sent + call[c].ttl
        BY <1>1, <1>2, <1>4, <3>1, <3>2, <3>3 DEF AnswerInv
    <3>5. entry["lease"].until \in Nat
        BY <1>2, EntryType DEF Kinds
    <3>. QED  BY <1>1, <1>3, <1>4, <1>6, <2>2, <3>1, <3>4, <3>5
  <2>. QED  BY <2>1, <2>2
<1>. QED  BY <1>8, <1>9, <1>10, <1>12, <1>14, <1>15, <1>16 DEF Inv

(* A try that failed is repeated, or reported. *)
LEMMA FailsInv ==
    ASSUME Inv, NEW c \in Calls, Retry(c) \/ GiveUp(c)
    PROVE  Inv'
<1>1. /\ call[c].at \in {"sent", "answered"}
      /\ answer' = [answer EXCEPT ![c] = FALSE]
      /\ UNCHANGED <<storage, clock, entry>> /\ faults' = faults + 1
      /\ late' \subseteq late \cup {[by |-> c, op |-> call[c].op, ttl |-> call[c].ttl]}
      /\ least' = [least EXCEPT ![c] =
                     IF call[c].op = "renew" /\ call[c].ttl < @ THEN call[c].ttl ELSE @]
    BY DEF Retry, GiveUp, Fails
<1>2. CoordinatorTypeOK /\ TimeInv /\ PlaceInv /\ AnswerInv /\ RecordInv /\ SignalInv /\ HoldInv
    BY DEF Inv
<1>3. Delay \in Nat /\ Delay' = Delay
    BY <1>1, DelayFixed
<1>4. /\ call[c].op \in Ops /\ call[c] \in CallRecords /\ clock \in Nat
      /\ call[c].ttl \in Nat /\ call[c].expires \in Nat /\ call[c].life \in Nat
      /\ call[c].expires <= clock + call[c].life
    BY <1>1, <1>2, CallType DEF PlaceInv, TimeInv
<1>5. PICK new \in CallRecords :
          /\ Become(c, new) /\ new.op = call[c].op
          /\ \/ /\ new.at = "sent" /\ new.sent = clock /\ new.ttl = call[c].ttl
                /\ new.expires = call[c].expires /\ new.life = call[c].life
             \/ /\ new.at = "idle" /\ call[c].op = "renew" /\ new.sent = 0
                /\ new.expires = call[c].expires /\ new.life = call[c].life
             \/ /\ new.at = "ended" /\ new.ttl = call[c].ttl /\ new.sent = 0
                /\ new.expires = 0 /\ new.life = 0
  <2>1. CASE Retry(c)
    <3> DEFINE n == [call[c] EXCEPT !.at = "sent", !.sent = clock]
    <3>1. Become(c, n)
        BY <2>1 DEF Retry
    <3>2. /\ n \in CallRecords /\ n.op = call[c].op /\ n.at = "sent" /\ n.sent = clock
          /\ n.ttl = call[c].ttl /\ n.expires = call[c].expires /\ n.life = call[c].life
        BY <1>4 DEF CallRecords
    <3> HIDE DEF n
    <3>. QED  BY <3>1, <3>2
  <2>2. CASE GiveUp(c) /\ call[c].op = "renew"
    <3> DEFINE n == [op |-> call[c].op, at |-> "idle", ttl |-> 0, sent |-> 0,
                     expires |-> call[c].expires, life |-> call[c].life]
    <3>1. Become(c, n)
        BY <2>2 DEF GiveUp, Leased
    <3>2. /\ n \in CallRecords /\ n.op = call[c].op /\ n.at = "idle" /\ n.sent = 0
          /\ n.expires = call[c].expires /\ n.life = call[c].life
        BY <1>4 DEF CallRecords
    <3> HIDE DEF n
    <3>. QED  BY <2>2, <3>1, <3>2
  <2>3. CASE GiveUp(c) /\ call[c].op # "renew"
    <3> DEFINE n == [call[c] EXCEPT !.at = "ended", !.sent = 0, !.expires = 0, !.life = 0]
    <3>1. Become(c, n)
        BY <2>3 DEF GiveUp, Ended
    <3>2. /\ n \in CallRecords /\ n.op = call[c].op /\ n.at = "ended" /\ n.ttl = call[c].ttl
          /\ n.sent = 0 /\ n.expires = 0 /\ n.life = 0
        BY <1>4 DEF CallRecords
    <3> HIDE DEF n
    <3>. QED  BY <3>1, <3>2
  <2>. QED  BY <2>1, <2>2, <2>3
<1>6. /\ call' \in [Calls -> CallRecords]
      /\ call'[c] = new
      /\ \A d \in Calls \ {c} : call'[d] = call[d]
    BY <1>2, <1>5, BecomeType
<1>7. /\ \A d \in Calls : call'[d].op = call[d].op
      /\ \A d \in Calls : call[d].op = "request" => call'[d].ttl = call[d].ttl
      /\ ~answer'[c]
      /\ \A d \in Calls \ {c} : answer'[d] = answer[d] /\ least'[d] = least[d]
      /\ \A d \in Calls \ {c} : Granted(d)' => Granted(d)
      /\ Granted(c)' => call'[c].op = "renew"
    BY <1>1, <1>2, <1>5, <1>6 DEF Granted, CoordinatorTypeOK
<1>8. /\ least' \in [Calls -> Nat] /\ least[c] \in Nat
      /\ least'[c] <= least[c] /\ (call[c].op = "renew" => least'[c] <= call[c].ttl)
    BY <1>1, <1>2, <1>4 DEF CoordinatorTypeOK
<1>9. late' \subseteq [by : Calls, op : Ops, ttl : Nat]
    BY <1>1, <1>2, <1>4 DEF CoordinatorTypeOK
<1>10. CoordinatorTypeOK'
    BY <1>1, <1>2, <1>6, <1>8, <1>9 DEF CoordinatorTypeOK
<1>11. TimeInv'
  <2>1. \A d \in Calls \ {c} : /\ call'[d].sent <= clock'
                               /\ call'[d].at \in {"sent", "answered"} =>
                                     clock' <= call'[d].sent + Delay'
                               /\ call'[d].expires <= clock' + call'[d].life
      BY <1>1, <1>2, <1>3, <1>6 DEF TimeInv
  <2>2. /\ new.sent <= clock /\ new.expires <= clock + new.life
        /\ new.at \in {"sent", "answered"} => clock <= new.sent + Delay
      BY <1>3, <1>4, <1>5
  <2>. QED  BY <1>1, <1>3, <1>6, <2>1, <2>2 DEF TimeInv
<1>12. PlaceInv'
  <2>1. \A d \in Calls : (call'[d].op = "none" <=> call'[d].at = "new")
      BY <1>1, <1>2, <1>4, <1>5, <1>6 DEF PlaceInv, Ops
  <2>2. \A d \in Calls : call'[d].op = "release" => call'[d].expires = 0 /\ call'[d].at # "idle"
      BY <1>2, <1>5, <1>6 DEF PlaceInv
  <2>3. ASSUME NEW m \in late'
        PROVE  /\ m.op = "release" => call'[m.by].op = "release"
               /\ m.op = "renew" => least'[m.by] <= m.ttl
               /\ m.op = "request" => call'[m.by].op = "request" /\ call'[m.by].ttl = m.ttl
    <3>0. m.by \in Calls /\ m.ttl \in Nat
        BY <1>9
    <3>1. least[m.by] \in Nat /\ least'[m.by] \in Nat /\ least'[m.by] <= least[m.by]
      <4>1. least[m.by] \in Nat /\ least'[m.by] \in Nat
          BY <1>2, <1>8, <3>0 DEF CoordinatorTypeOK
      <4>. QED  BY <1>7, <1>8, <3>0, <4>1
    <3>2. CASE m \in late
      <4>1. m.op = "renew" => least'[m.by] <= m.ttl
          BY <1>2, <3>0, <3>1, <3>2 DEF PlaceInv
      <4>. QED  BY <1>2, <1>7, <3>0, <3>2, <4>1 DEF PlaceInv
    <3>3. CASE m = [by |-> c, op |-> call[c].op, ttl |-> call[c].ttl]
        BY <1>7, <1>8, <3>3
    <3>. QED  BY <1>1, <3>2, <3>3
  <2>4. \A d \in entry'["cancel"].by : call'[d].op = "request"
      BY <1>1, <1>2, <1>7, EntryType DEF PlaceInv, Kinds
  <2>. QED  BY <2>1, <2>2, <2>3, <2>4 DEF PlaceInv
<1>13. AnswerInv'
    BY <1>1, <1>2, <1>6, <1>7 DEF AnswerInv
<1>14. RecordInv'
    BY <1>1, <1>2, <1>6, <1>7 DEF RecordInv
<1>15. SignalInv'
  <2>. SUFFICES ASSUME NEW d \in Calls, Granted(d)', call'[d].op = "request"
                PROVE  \/ \E e \in entry'["cancel"].by : call'[e].ttl < call'[d].ttl
                       \/ /\ entry'["cancel"].by # {}
                          /\ entry'["cancel"].until >= call'[d].sent + call'[d].ttl
      BY DEF SignalInv
  <2>1. d # c /\ Granted(d) /\ call'[d] = call[d]
      BY <1>6, <1>7
  <2>2. \A e \in entry["cancel"].by : call'[e].ttl = call[e].ttl
      BY <1>2, <1>7, EntryType DEF PlaceInv, Kinds
  <2>. QED  BY <1>1, <1>2, <2>1, <2>2 DEF SignalInv
<1>16. HoldInv'
  <2>. SUFFICES ASSUME NEW d \in Calls, call'[d].op \in LeaseOps, Steady(d)',
                       clock' + Delay' < call'[d].expires
                PROVE  entry'["lease"].by = {d} /\ call'[d].expires <= entry'["lease"].until + Delay'
      BY DEF HoldInv
  <2>1. CASE d # c
      BY <1>1, <1>2, <1>3, <1>6, <1>7, <2>1 DEF HoldInv, Steady
  <2>2. CASE d = c
    <3>1. new.expires = call[c].expires /\ new.life = call[c].life
        BY <1>1, <1>3, <1>4, <1>5, <1>6, <2>2
    <3>2. call[c].life <= least'[c]
        BY <1>6, <2>2, <3>1 DEF Steady
    <3>3. Steady(c)
        BY <1>4, <1>8, <3>2 DEF Steady
    <3>. QED  BY <1>1, <1>2, <1>3, <1>5, <1>6, <2>2, <3>1, <3>3 DEF HoldInv
  <2>. QED  BY <2>1, <2>2
<1>. QED  BY <1>10, <1>11, <1>12, <1>13, <1>14, <1>15, <1>16 DEF Inv

(* Time passes, but not beyond the delay of a try. *)
LEMMA TickInv ==
    ASSUME Inv, Tick
    PROVE  Inv'
<1>1. /\ \A c \in Calls : call[c].at \in {"sent", "answered"} => clock < call[c].sent + Delay
      /\ clock' = clock + 1
      /\ UNCHANGED <<storage, entry, call, answer, late, least, faults>>
    BY DEF Tick
<1>2. CoordinatorTypeOK /\ TimeInv /\ PlaceInv /\ AnswerInv /\ RecordInv /\ SignalInv /\ HoldInv
    BY DEF Inv
<1>3. Delay \in Nat /\ Delay' = Delay /\ clock \in Nat
    BY <1>1, <1>2, DelayFixed DEF CoordinatorTypeOK
<1>4. \A d \in Calls : /\ call[d].sent \in Nat /\ call[d].expires \in Nat
                       /\ call[d].life \in Nat /\ call[d].ttl \in Nat
    BY <1>2, CallType
<1>5. CoordinatorTypeOK'
    BY <1>1, <1>2, <1>3 DEF CoordinatorTypeOK
<1>6. TimeInv'
    BY <1>1, <1>2, <1>3, <1>4 DEF TimeInv
<1>7. PlaceInv' /\ SignalInv'
    BY <1>1, <1>2 DEF PlaceInv, SignalInv, Granted
<1>8. AnswerInv' /\ RecordInv'
    BY <1>1, <1>2, <1>3, <1>4 DEF AnswerInv, RecordInv, Granted
<1>9. HoldInv'
    BY <1>1, <1>2, <1>3, <1>4 DEF HoldInv, Steady
<1>. QED  BY <1>5, <1>6, <1>7, <1>8, <1>9 DEF Inv

-----------------------------------------------------------------------------
(* The invariant is inductive (all operations of persistence/coordinator.go, *)
(* each with its own lifetime, and the network they go over).              *)
THEOREM CoordinatorInvariance == Spec => []Inv
<1>1. Init => Inv
    BY InitInv
<1>2. Inv /\ [Next]_vars => Inv'
  <2>. SUFFICES ASSUME Inv, [Next]_vars PROVE Inv'
      OBVIOUS
  <2>1. CASE UNCHANGED vars
      BY <2>1 DEF vars, Inv, CoordinatorTypeOK, TimeInv, PlaceInv, AnswerInv, RecordInv,
                  SignalInv, HoldInv, Granted, Steady, Delay
  <2>2. ASSUME NEW c \in Calls, CallStep(c) PROVE Inv'
    <3>1. ASSUME NEW ttl \in 0..(MaxTTL + 1),
                 AcquireLease(c, ttl) \/ PutIdempotency(c, ttl) \/ RequestCancellation(c, ttl)
          PROVE  Inv'
      <4>1. ttl \in Nat
          BY CoordinatorConstants
      <4>. QED  BY <3>1, <4>1, SendInv
                DEF AcquireLease, PutIdempotency, RequestCancellation, Ops
    <3>2. ASSUME NEW ttl \in 0..(MaxTTL + 1), RenewLease(c, ttl)
          PROVE  Inv'
      <4>1. ttl \in Nat
          BY CoordinatorConstants
      <4>. QED  BY <3>2, <4>1, SendInv DEF RenewLease, Ops
    <3>3. CASE ReleaseLease(c)
        BY <3>3, SendInv DEF ReleaseLease, Ops
    <3>4. CASE Execute(c)
        BY <3>4, ExecuteInv
    <3>5. CASE Receive(c)
        BY <3>5, ReceiveInv
    <3>6. CASE Retry(c) \/ GiveUp(c)
        BY <3>6, FailsInv
    <3>. QED  BY <2>2, <3>1, <3>2, <3>3, <3>4, <3>5, <3>6 DEF CallStep
  <2>3. ASSUME NEW m \in late, ExecuteLate(m) PROVE Inv'
      BY <2>3, ExecuteLateInv
  <2>4. CASE Tick
      BY <2>4, TickInv
  <2>. QED  BY <2>1, <2>2, <2>3, <2>4 DEF Next
<1>. QED  BY <1>1, <1>2, PTL DEF Spec

(* The variables of the Coordinator keep their types. *)
THEOREM CoordinatorTypeCorrect == Spec => []CoordinatorTypeOK
<1>1. Inv => CoordinatorTypeOK
    BY DEF Inv
<1>. QED  BY <1>1, CoordinatorInvariance, PTL

(* Two steady holders of the lease overlap only in the last Delay of one   *)
(* of them (AcquireLease, RenewLease, ReleaseLease), whatever is lost,     *)
(* late or repeated.                                                       *)
THEOREM LeaseOverlapIsBounded == Spec => []LeaseOverlapBounded
<1>1. Inv => LeaseOverlapBounded
  <2>. SUFFICES ASSUME Inv, NEW c \in Calls, NEW d \in Calls, c # d,
                       Holds(c), Holds(d), Steady(c), Steady(d),
                       ~(clock + Delay >= call[c].expires), ~(clock + Delay >= call[d].expires)
                PROVE  FALSE
      BY DEF LeaseOverlapBounded
  <2>1. clock + Delay < call[c].expires /\ clock + Delay < call[d].expires
      BY DelayFixed, CallType DEF Inv
  <2>2. entry["lease"].by = {c} /\ entry["lease"].by = {d}
      BY <2>1 DEF Inv, HoldInv, Holds
  <2>. QED  BY <2>2
<1>. QED  BY <1>1, CoordinatorInvariance, PTL

(* A record that was created lasts for its lifetime (PutIdempotency). *)
THEOREM RecordIsKept == Spec => []RecordKept
<1>1. Inv => RecordKept
  <2>. SUFFICES ASSUME Inv, NEW c \in Calls, call[c].at = "idle", call[c].op = "put",
                       clock < call[c].sent + call[c].ttl
                PROVE  Live("idempotency") /\ entry["idempotency"].by = {c}
      BY DEF RecordKept
  <2>1. /\ clock \in Nat /\ call[c].sent \in Nat /\ call[c].ttl \in Nat
        /\ entry["idempotency"].until \in Nat
      BY CallType, EntryType DEF Inv, Kinds
  <2>2. /\ entry["idempotency"].by = {c}
        /\ entry["idempotency"].until >= call[c].sent + call[c].ttl
      BY <2>1 DEF Inv, RecordInv, Granted
  <2>. QED  BY <2>1, <2>2 DEF Live
<1>. QED  BY <1>1, CoordinatorInvariance, PTL

(* A cancellation signal lasts for its lifetime, unless a later request    *)
(* asked for less (RequestCancellation).                                   *)
THEOREM SignalIsKept == Spec => []SignalKept
<1>1. Inv => SignalKept
  <2>. SUFFICES ASSUME Inv, NEW c \in Calls, call[c].at = "idle", call[c].op = "request",
                       clock < call[c].sent + call[c].ttl
                PROVE  Live("cancel") \/ \E d \in entry["cancel"].by : call[d].ttl < call[c].ttl
      BY DEF SignalKept
  <2>1. /\ clock \in Nat /\ call[c].sent \in Nat /\ call[c].ttl \in Nat
        /\ entry["cancel"].until \in Nat
      BY CallType, EntryType DEF Inv, Kinds
  <2>2. \/ \E d \in entry["cancel"].by : call[d].ttl < call[c].ttl
        \/ /\ entry["cancel"].by # {}
           /\ entry["cancel"].until >= call[c].sent + call[c].ttl
      BY DEF Inv, SignalInv, Granted
  <2>. QED  BY <2>1, <2>2 DEF Live
<1>. QED  BY <1>1, CoordinatorInvariance, PTL

=============================================================================
