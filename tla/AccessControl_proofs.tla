------------------------ MODULE AccessControl_proofs ------------------------
(***************************************************************************)
(* Proofs about signed messages, for any number of messages and handlers   *)
(* and all windows, lifetimes and limits that satisfy the assumptions of   *)
(* AccessControl.  The argument: a message that was acted on is in its     *)
(* verifier's table until it is too old for every handler, those included  *)
(* that read the clock some time ago.                                      *)
(***************************************************************************)
EXTENDS AccessControl, TLAPS

Places == Waiting \cup Acting \cup {"idle", "arrived"}

HandlerRecords == [at : Places, msg : SUBSET Messages, first : Nat, now : Nat]

(* m was acted on. *)
Used(m) == \E h \in Handlers : handler[h].at \in Acting /\ handler[h].msg = {m}

(* No sender's clock is further than Drift from the receivers'. *)
StampInv ==
    \A m \in Messages : Sent(m) => -Drift <= stamp[m] /\ stamp[m] <= clock + Drift

(* What a handler's record w says: it has a message that was sent, and one *)
(* that waits found its message fresh, not longer than Stall ago.          *)
WaitOK(w) ==
    /\ w.at # "idle" => \E m \in Messages : w.msg = {m} /\ Sent(m)
    /\ \A q \in Requests : w.at = "verified" /\ w.msg = {q} =>
          /\ w.first = w.now /\ w.now <= clock /\ clock <= w.now + Stall
          /\ stamp[q] <= w.now + Drift /\ w.now <= stamp[q] + Skew
    /\ \A a \in Assertions : w.at \in {"validated", "consuming"} /\ w.msg = {a} =>
          /\ w.first <= clock /\ w.now <= clock /\ clock <= w.first + Stall
          /\ w.first < stamp[a] + Lifetime + IdSkew

WaitInv == \A h \in Handlers : WaitOK(handler[h])

(* A message that was acted on is in its table, or too old. *)
NonceInv ==
    \A q \in Requests : Used(q) =>
        \/ nonces[q] # Never /\ nonces[q] >= stamp[q] - Drift + 2 * Skew
        \/ clock >= stamp[q] - Drift + 2 * Skew

ConsumedInv ==
    \A a \in Assertions : Used(a) =>
        \/ consumed[a] # Never /\ consumed[a] >= stamp[a] + Lifetime + IdSkew
        \/ clock >= stamp[a] + Lifetime + 2 * IdSkew

Inv == AccessTypeOK /\ StampInv /\ WaitInv /\ NonceInv /\ ConsumedInv /\ NoReplay

-----------------------------------------------------------------------------
(* The numbers among the constants. *)
LEMMA Numbers ==
    /\ Skew \in Nat /\ IdSkew \in Nat /\ Lifetime \in Nat /\ Lifetime > 0 /\ Drift \in Nat
    /\ Stall \in Nat /\ Drift + Stall < Skew /\ Stall <= IdSkew
    /\ SessionTTL \in Nat
    /\ Never \in Int /\ Never = -1 - Drift
BY AccessConstants, TimingAssumption DEF Never

(* The types of the variables, one by one. *)
LEMMA Types ==
    ASSUME AccessTypeOK
    PROVE  /\ clock \in Nat
           /\ \A m \in Messages : stamp[m] \in Int
           /\ \A q \in Requests : nonces[q] \in Nat \cup {Never} /\ nonces[q] \in Int
           /\ \A a \in Assertions : consumed[a] \in Int
           /\ \A h \in Handlers : handler[h] \in HandlerRecords
           /\ Requests \subseteq Messages /\ Assertions \subseteq Messages
BY Numbers DEF AccessTypeOK, HandlerRecords, Places, Messages

(* An idle handler's record. *)
LEMMA IdleOK == IdleHandler \in HandlerRecords /\ IdleHandler.at = "idle" /\ WaitOK(IdleHandler)
BY DEF IdleHandler, HandlerRecords, Places, WaitOK

(* A record of a handler that waits for nothing. *)
LEMMA CalmOK ==
    ASSUME NEW m \in Messages, Sent(m), NEW w, w.msg = {m}, w.at \notin Waiting
    PROVE  WaitOK(w)
BY DEF WaitOK, Waiting

(* One handler changes, the others stay. *)
LEMMA BecomeEffect ==
    ASSUME AccessTypeOK, NEW h \in Handlers, NEW new \in HandlerRecords, Become(h, new)
    PROVE  /\ handler' \in [Handlers -> HandlerRecords]
           /\ handler'[h] = new
           /\ \A g \in Handlers \ {h} : handler'[g] = handler[g]
BY DEF AccessTypeOK, Become, HandlerRecords, Places

(* The tables of sessions keep their types. *)
SessionTypes ==
    /\ sessions \in [Assertions -> {"none", "live", "revoked", "deleted"}]
    /\ expires \in [Assertions -> Nat]
    /\ cached \subseteq Assertions

(* Every step keeps the types of the sessions. *)
LEMMA SessionStep ==
    ASSUME Inv, Next
    PROVE  SessionTypes'
<1>. USE DEF SessionTypes
<1>1. SessionTypes /\ clock \in Nat /\ SessionTTL \in Nat
    BY Numbers DEF Inv, AccessTypeOK
<1>2. ASSUME NEW q \in Requests, Sign(q) PROVE SessionTypes'
    BY <1>1, <1>2 DEF Sign, Stamp, sessionVars
<1>3. ASSUME NEW q \in Requests, NEW h \in Handlers, RequestStep(h, q) PROVE SessionTypes'
    BY <1>1, <1>3 DEF RequestStep, Deliver, VerifyRequest, RecordNonce, Acquire, sessionVars
<1>4. ASSUME NEW a \in Assertions, SignAssertion(a) \/ Revoke(a) \/ DropExpired(a)
      PROVE  SessionTypes'
    BY <1>1, <1>4 DEF SignAssertion, Stamp, Revoke, DropExpired, sessionVars
<1>5. ASSUME NEW a \in Assertions, NEW h \in Handlers, AssertionStep(h, a)
      PROVE  SessionTypes'
  <2>1. CASE Deliver(h, a) \/ ValidateClaims(h, a) \/ Consume(h, a)
      BY <1>1, <2>1 DEF Deliver, ValidateClaims, Consume, sessionVars
  <2>2. CASE Issue(h, a)
    <3>1. clock + SessionTTL \in Nat
        BY <1>1
    <3>. QED  BY <1>1, <2>2, <3>1 DEF Issue, IssueSession
  <2>3. CASE ReceiveSession(h, a)
      BY <1>1, <2>3 DEF ReceiveSession
  <2>. QED  BY <1>5, <2>1, <2>2, <2>3 DEF AssertionStep
<1>6. ASSUME NEW h \in Handlers, Complete(h) \/ ReadClock(h) PROVE SessionTypes'
    BY <1>1, <1>6 DEF Complete, ReadClock, sessionVars
<1>7. CASE Tick
    BY <1>1, <1>7 DEF Tick, sessionVars
<1>. QED  BY <1>2, <1>3, <1>4, <1>5, <1>6, <1>7 DEF Next

-----------------------------------------------------------------------------
(* Steps that accept nothing.                                              *)

(* The steps of a handler that only move it, with what they do. *)
QuietStep(h) ==
    \/ \E m \in Messages : Deliver(h, m)
    \/ \E q \in Requests : VerifyRequest(h, q) \/ Acquire(h, q)
    \/ \E a \in Assertions : ValidateClaims(h, a) \/ Issue(h, a) \/ ReceiveSession(h, a)
    \/ Complete(h) \/ ReadClock(h)

QuietTo(h, new) ==
    /\ Become(h, new) /\ WaitOK(new)
    /\ new.at \in Acting => handler[h].at \in Acting /\ new.msg = handler[h].msg

(* Such a step leads to a record as WaitInv wants it. *)
LEMMA QuietRecord ==
    ASSUME Inv, NEW h \in Handlers, QuietStep(h)
    PROVE  /\ \E new \in HandlerRecords : QuietTo(h, new)
           /\ UNCHANGED <<clock, stamp, nonces, consumed>>
<1>1. AccessTypeOK /\ StampInv /\ WaitOK(handler[h])
    BY DEF Inv, WaitInv
<1>2. /\ clock \in Nat /\ handler[h] \in HandlerRecords
      /\ \A m \in Messages : stamp[m] \in Int
      /\ Requests \subseteq Messages /\ Assertions \subseteq Messages
    BY <1>1, Types
<1>3. /\ Skew \in Nat /\ IdSkew \in Nat /\ Lifetime \in Nat /\ Drift \in Nat
      /\ Stall \in Nat
    BY Numbers
<1>4. ASSUME NEW m \in Messages, Deliver(h, m)
      PROVE  \E new \in HandlerRecords : QuietTo(h, new)
  <2> DEFINE n == With(m, "arrived")
  <2>1. Become(h, n) /\ Sent(m)
      BY <1>4 DEF Deliver
  <2>2. n \in HandlerRecords /\ n.msg = {m} /\ n.at \notin Waiting /\ n.at \notin Acting
      BY DEF With, HandlerRecords, Places, Waiting, Acting
  <2> HIDE DEF n
  <2>. QED  BY <2>1, <2>2, CalmOK DEF QuietTo
<1>5. ASSUME NEW q \in Requests, VerifyRequest(h, q)
      PROVE  \E new \in HandlerRecords : QuietTo(h, new)
  <2>1. CASE FreshRequest(q)
    <3> DEFINE n == [at |-> "verified", msg |-> {q}, first |-> clock, now |-> clock]
    <3>1. Become(h, n) /\ handler[h].at = "arrived" /\ handler[h].msg = {q}
        BY <1>5, <2>1 DEF VerifyRequest, Serves
    <3>2. Sent(q)
        BY <1>1, <1>2, <3>1 DEF WaitOK
    <3>3. stamp[q] <= clock + Drift /\ clock <= stamp[q] + Skew
        BY <1>1, <1>2, <1>3, <2>1, <3>2 DEF StampInv, FreshRequest
    <3>4. /\ n \in HandlerRecords /\ n.at \notin Acting /\ n.at = "verified" /\ n.msg = {q}
          /\ n.first = clock /\ n.now = clock
        BY <1>2 DEF HandlerRecords, Places, Waiting, Acting
    <3> HIDE DEF n
    <3>5. WaitOK(n)
      <4>1. \E m \in Messages : n.msg = {m} /\ Sent(m)
          BY <1>2, <3>2, <3>4
      <4>2. \A r \in Requests : n.msg = {r} => r = q
          BY <3>4
      <4>3. clock <= clock + Stall
          BY <1>2, <1>3
      <4>. QED  BY <1>2, <3>3, <3>4, <4>1, <4>2, <4>3 DEF WaitOK
    <3>. QED  BY <3>1, <3>4, <3>5 DEF QuietTo
  <2>2. CASE ~FreshRequest(q)
      BY <1>5, <2>2, IdleOK DEF VerifyRequest, QuietTo, Acting
  <2>. QED  BY <2>1, <2>2
<1>6. ASSUME NEW a \in Assertions, ValidateClaims(h, a)
      PROVE  \E new \in HandlerRecords : QuietTo(h, new)
  <2>1. CASE FreshAssertion(a)
    <3> DEFINE n == [at |-> "validated", msg |-> {a}, first |-> clock, now |-> clock]
    <3>1. Become(h, n) /\ handler[h].at = "arrived" /\ handler[h].msg = {a}
        BY <1>6, <2>1 DEF ValidateClaims, Serves
    <3>2. Sent(a)
        BY <1>1, <1>2, <3>1 DEF WaitOK
    <3>3. clock < stamp[a] + Lifetime + IdSkew
        BY <1>2, <1>3, <2>1 DEF FreshAssertion, Expiry
    <3>4. /\ n \in HandlerRecords /\ n.at \notin Acting /\ n.at = "validated" /\ n.msg = {a}
          /\ n.first = clock /\ n.now = clock
        BY <1>2 DEF HandlerRecords, Places, Waiting, Acting
    <3> HIDE DEF n
    <3>5. WaitOK(n)
      <4>1. \E m \in Messages : n.msg = {m} /\ Sent(m)
          BY <1>2, <3>2, <3>4
      <4>2. \A b \in Assertions : n.msg = {b} => b = a
          BY <3>4
      <4>3. clock <= clock /\ clock <= clock + Stall
          BY <1>2, <1>3
      <4>4. \A b \in Assertions : n.msg = {b} =>
                /\ n.first <= clock /\ n.now <= clock /\ clock <= n.first + Stall
                /\ n.first < stamp[b] + Lifetime + IdSkew
          BY <3>3, <3>4, <4>2, <4>3
      <4>. QED  BY <3>4, <4>1, <4>4 DEF WaitOK
    <3>. QED  BY <3>1, <3>4, <3>5 DEF QuietTo
  <2>2. CASE ~FreshAssertion(a)
      BY <1>6, <2>2, IdleOK DEF ValidateClaims, QuietTo, Acting
  <2>. QED  BY <2>1, <2>2
<1>7. ASSUME NEW place \in {"running", "busy", "done", "issued"},
             Goto(h, place), handler[h].at \in Acting
      PROVE  \E new \in HandlerRecords : QuietTo(h, new)
  <2> DEFINE n == [handler[h] EXCEPT !.at = place]
  <2>1. Become(h, n)
      BY <1>7 DEF Goto
  <2>2. n \in HandlerRecords /\ n.msg = handler[h].msg /\ n.at = place
      BY <1>2, <1>7 DEF HandlerRecords, Places, Acting
  <2> HIDE DEF n
  <2>3. PICK m \in Messages : handler[h].msg = {m} /\ Sent(m)
      BY <1>1, <1>7 DEF WaitOK, Acting
  <2>4. WaitOK(n)
      BY <2>2, <2>3, CalmOK DEF Waiting
  <2>. QED  BY <1>7, <2>1, <2>2, <2>4 DEF QuietTo
<1>8. ASSUME NEW q \in Requests, Acquire(h, q)
      PROVE  \E new \in HandlerRecords : QuietTo(h, new)
  <2>1. handler[h].at \in Acting /\ (Goto(h, "running") \/ Goto(h, "busy"))
      BY <1>8 DEF Acquire, Serves, Acting
  <2>. QED  BY <1>7, <2>1
<1>9. ASSUME NEW a \in Assertions, Issue(h, a) \/ ReceiveSession(h, a)
      PROVE  \E new \in HandlerRecords : QuietTo(h, new)
  <2>1. handler[h].at \in Acting /\ (Goto(h, "issued") \/ Goto(h, "done"))
      BY <1>9 DEF Issue, ReceiveSession, Serves, Acting
  <2>. QED  BY <1>7, <2>1
<1>10. ASSUME Complete(h) PROVE \E new \in HandlerRecords : QuietTo(h, new)
  <2>1. handler[h].at \in Acting /\ Goto(h, "done")
      BY <1>10 DEF Complete, Acting
  <2>. QED  BY <1>7, <2>1
<1>11. ASSUME ReadClock(h) PROVE \E new \in HandlerRecords : QuietTo(h, new)
  <2> DEFINE n == [handler[h] EXCEPT !.at = "consuming", !.now = clock]
  <2>1. Become(h, n) /\ handler[h].at = "validated"
      BY <1>11 DEF ReadClock
  <2>2. /\ n \in HandlerRecords /\ n.msg = handler[h].msg /\ n.at = "consuming"
        /\ n.first = handler[h].first /\ n.now = clock /\ n.at \notin Acting
    <3>1. "consuming" \in Places /\ "consuming" \notin Acting /\ clock \in Nat
        BY <1>2 DEF Places, Waiting, Acting
    <3>. QED  BY <1>2, <3>1 DEF HandlerRecords
  <2> HIDE DEF n
  <2>3. WaitOK(n)
      BY <1>1, <1>2, <2>1, <2>2 DEF WaitOK
  <2>. QED  BY <2>1, <2>2, <2>3 DEF QuietTo
<1>12. UNCHANGED <<clock, stamp, nonces, consumed>>
    BY DEF QuietStep, Deliver, VerifyRequest, Acquire, ValidateClaims, Issue, ReceiveSession,
           Complete, ReadClock
<1>13. \E new \in HandlerRecords : QuietTo(h, new)
    BY <1>4, <1>5, <1>6, <1>8, <1>9, <1>10, <1>11 DEF QuietStep
<1>. QED  BY <1>12, <1>13

(* Such a step keeps the invariant. *)
LEMMA QuietInv ==
    ASSUME Inv, SessionTypes', NEW h \in Handlers, QuietStep(h)
    PROVE  Inv'
<1>1. PICK new \in HandlerRecords : QuietTo(h, new)
    BY QuietRecord
<1>2. UNCHANGED <<clock, stamp, nonces, consumed>>
    BY QuietRecord
<1>3. AccessTypeOK /\ StampInv /\ WaitInv /\ NonceInv /\ ConsumedInv /\ NoReplay
    BY DEF Inv
<1>4. /\ handler' \in [Handlers -> HandlerRecords]
      /\ handler'[h] = new
      /\ \A g \in Handlers \ {h} : handler'[g] = handler[g]
    BY <1>1, <1>3, BecomeEffect DEF QuietTo
<1>5. \A g \in Handlers : handler'[g].at \in Acting =>
          handler[g].at \in Acting /\ handler'[g].msg = handler[g].msg
    BY <1>1, <1>4 DEF QuietTo
<1>6. \A m \in Messages : Used(m)' => Used(m)
    BY <1>5 DEF Used
<1>7. AccessTypeOK'
    BY <1>2, <1>3, <1>4 DEF AccessTypeOK, SessionTypes, HandlerRecords, Places
<1>8. StampInv'
    BY <1>2, <1>3 DEF StampInv, Sent
<1>9. WaitInv'
  <2>1. \A g \in Handlers : WaitOK(handler'[g])
      BY <1>1, <1>3, <1>4 DEF WaitInv, QuietTo
  <2>. QED  BY <1>2, <2>1 DEF WaitInv, WaitOK, Sent
<1>10. NonceInv' /\ ConsumedInv'
    BY <1>2, <1>3, <1>6 DEF NonceInv, ConsumedInv, Messages
<1>11. NoReplay'
    BY <1>3, <1>5 DEF NoReplay
<1>. QED  BY <1>7, <1>8, <1>9, <1>10, <1>11 DEF Inv

-----------------------------------------------------------------------------
(* Accepting a message.                                                    *)

(* A handler turns a message away, or accepts one nobody has acted on: the *)
(* handlers' part of the invariant.                                        *)
LEMMA AcceptStep ==
    ASSUME Inv, NEW h \in Handlers, NEW m \in Messages, handler[h].msg = {m}, Sent(m),
           handler[h].at \notin Acting, UNCHANGED <<clock, stamp>>,
           Become(h, IdleHandler) \/ (Accept(h, m) /\ ~Used(m))
    PROVE  /\ handler' \in [Handlers -> HandlerRecords]
           /\ StampInv' /\ WaitInv' /\ NoReplay'
           /\ \A x \in Messages : Used(x)' => Used(x) \/ (x = m /\ Accept(h, m))
<1>1. AccessTypeOK /\ StampInv /\ WaitInv /\ NoReplay
    BY DEF Inv
<1>2. StampInv'
    BY <1>1 DEF StampInv, Sent
<1>3. CASE Become(h, IdleHandler)
  <2>1. /\ handler' \in [Handlers -> HandlerRecords]
        /\ handler'[h] = IdleHandler
        /\ \A g \in Handlers \ {h} : handler'[g] = handler[g]
      BY <1>1, <1>3, BecomeEffect, IdleOK
  <2>2. IdleHandler.at \notin Acting
      BY IdleOK DEF Acting
  <2>3. \A g \in Handlers : WaitOK(handler'[g])
      BY <1>1, <2>1, IdleOK DEF WaitInv
  <2>4. WaitInv'
      BY <2>3 DEF WaitInv, WaitOK, Sent
  <2>5. NoReplay'
      BY <1>1, <2>1, <2>2 DEF NoReplay
  <2>6. \A x \in Messages : Used(x)' => Used(x)
      BY <2>1, <2>2 DEF Used
  <2>. QED  BY <1>2, <2>1, <2>4, <2>5, <2>6
<1>4. CASE Accept(h, m) /\ ~Used(m)
  <2> DEFINE n == With(m, "accepted")
  <2>1. Become(h, n)
      BY <1>4 DEF Accept
  <2>2. n \in HandlerRecords /\ n.at = "accepted" /\ n.msg = {m}
      BY DEF With, HandlerRecords, Places, Acting
  <2> HIDE DEF n
  <2>3. /\ handler' \in [Handlers -> HandlerRecords]
        /\ handler'[h] = n
        /\ \A g \in Handlers \ {h} : handler'[g] = handler[g]
      BY <1>1, <2>1, <2>2, BecomeEffect
  <2>4. WaitOK(n)
      BY <2>2, CalmOK DEF Waiting
  <2>5. \A g \in Handlers : WaitOK(handler'[g])
      BY <1>1, <2>3, <2>4 DEF WaitInv
  <2>6. WaitInv'
      BY <2>5 DEF WaitInv, WaitOK, Sent
  <2>7. NoReplay'
      BY <1>1, <1>4, <2>2, <2>3 DEF NoReplay, Used
  <2>8. \A x \in Messages : Used(x)' => Used(x) \/ x = m
      BY <2>2, <2>3 DEF Used
  <2>. QED  BY <1>2, <1>4, <2>3, <2>6, <2>7, <2>8
<1>. QED  BY <1>3, <1>4

(* The critical section of the Connector's Verify keeps the invariant. *)
LEMMA RecordNonceInv ==
    ASSUME Inv, SessionTypes', NEW h \in Handlers, NEW q \in Requests, RecordNonce(h, q)
    PROVE  Inv'
<1> DEFINE t == handler[h].now
           live == LiveNonces(t)
<1>1. AccessTypeOK /\ StampInv /\ WaitInv /\ NonceInv /\ ConsumedInv /\ NoReplay
    BY DEF Inv
<1>2. /\ handler[h].at = "verified" /\ handler[h].msg = {q}
      /\ UNCHANGED <<clock, stamp, consumed>>
    BY DEF RecordNonce, Serves
<1>3. /\ clock \in Nat /\ handler[h] \in HandlerRecords
      /\ \A m \in Messages : stamp[m] \in Int
      /\ \A r \in Requests : nonces[r] \in Nat \cup {Never} /\ nonces[r] \in Int
      /\ Requests \subseteq Messages /\ Assertions \subseteq Messages
    BY <1>1, Types
<1>4. t \in Nat
    BY <1>3 DEF HandlerRecords
<1>5. /\ Sent(q) /\ t <= clock /\ clock <= t + Stall
      /\ stamp[q] <= t + Drift /\ t <= stamp[q] + Skew
    BY <1>1, <1>2 DEF WaitInv, WaitOK
<1> HIDE DEF t
<1>6. /\ live \in [Requests -> Nat \cup {Never}]
      /\ \A r \in Requests : live[r] = nonces[r] \/ (live[r] = Never /\ nonces[r] <= clock)
      /\ \A r \in Requests : live[r] = Never => nonces[r] = Never \/ nonces[r] <= t
    BY <1>3, <1>4, <1>5, Numbers DEF LiveNonces
<1> HIDE DEF live
<1>7. live[q] = Never => ~Used(q)
  <2>. SUFFICES ASSUME live[q] = Never, Used(q) PROVE FALSE
      OBVIOUS
  <2>1. stamp[q] \in Int /\ nonces[q] \in Int
      BY <1>3
  <2>2. (nonces[q] <= t /\ nonces[q] >= stamp[q] - Drift + 2 * Skew)
        \/ clock >= stamp[q] - Drift + 2 * Skew
      BY <1>1, <1>6 DEF NonceInv
  <2>. QED  BY <1>3, <1>4, <1>5, <2>1, <2>2, Numbers
<1>8. \/ nonces' = live /\ Become(h, IdleHandler)
      \/ /\ live[q] = Never /\ Accept(h, q)
         /\ nonces' = [live EXCEPT ![q] = t + 2 * Skew]
    BY DEF RecordNonce, NonceExpiry, live, t
<1>9. /\ handler' \in [Handlers -> HandlerRecords]
      /\ StampInv' /\ WaitInv' /\ NoReplay'
      /\ \A x \in Messages : Used(x)' => Used(x) \/ (x = q /\ Accept(h, q))
  <2>1. Become(h, IdleHandler) \/ (Accept(h, q) /\ ~Used(q))
      BY <1>7, <1>8
  <2>2. handler[h].at \notin Acting /\ q \in Messages
      BY <1>2, <1>3 DEF Acting
  <2>. QED  BY <1>2, <1>5, <2>1, <2>2, AcceptStep
<1>10. nonces' \in [Requests -> Nat \cup {Never}]
  <2>1. t + 2 * Skew \in Nat
      BY <1>4, Numbers
  <2>. QED  BY <1>6, <1>8, <2>1
<1>11. AccessTypeOK'
    BY <1>1, <1>2, <1>9, <1>10 DEF AccessTypeOK, SessionTypes, HandlerRecords, Places
<1>12. ConsumedInv'
  <2>1. \A a \in Assertions : Used(a)' => Used(a)
      BY <1>3, <1>9, AccessConstants
  <2>. QED  BY <1>1, <1>2, <2>1 DEF ConsumedInv
<1>13. NonceInv'
  <2>. SUFFICES ASSUME NEW r \in Requests, Used(r)'
                PROVE  \/ nonces'[r] # Never /\ nonces'[r] >= stamp[r] - Drift + 2 * Skew
                       \/ clock >= stamp[r] - Drift + 2 * Skew
      BY <1>2 DEF NonceInv, Never
  <2>1. stamp[r] \in Int /\ nonces[r] \in Int
      BY <1>3
  <2>2. CASE nonces' = live /\ Become(h, IdleHandler)
    <3>1. Used(r)
      <4>1. handler'[h].at = "idle" /\ \A g \in Handlers \ {h} : handler'[g] = handler[g]
          BY <1>1, <2>2, BecomeEffect, IdleOK
      <4>. QED  BY <4>1 DEF Used, Acting
    <3>2. \/ nonces[r] # Never /\ nonces[r] >= stamp[r] - Drift + 2 * Skew
          \/ clock >= stamp[r] - Drift + 2 * Skew
        BY <1>1, <3>1 DEF NonceInv
    <3>. QED  BY <1>3, <1>6, <2>1, <2>2, <3>2, Numbers
  <2>3. CASE Accept(h, q) /\ nonces' = [live EXCEPT ![q] = t + 2 * Skew]
    <3>1. CASE r = q
      <4>1. nonces'[q] = t + 2 * Skew
          BY <1>6, <2>3
      <4>3. stamp[q] >= -Drift
          BY <1>1, <1>3, <1>5 DEF StampInv
      <4>4. t + 2 * Skew # Never /\ t + 2 * Skew >= stamp[q] - Drift + 2 * Skew
          BY <1>3, <1>4, <1>5, <4>3, Numbers
      <4>. QED  BY <3>1, <4>1, <4>4
    <3>2. CASE r # q
      <4>1. nonces'[r] = live[r] /\ Used(r)
          BY <1>3, <1>6, <1>9, <2>3, <3>2
      <4>2. \/ nonces[r] # Never /\ nonces[r] >= stamp[r] - Drift + 2 * Skew
            \/ clock >= stamp[r] - Drift + 2 * Skew
          BY <1>1, <4>1 DEF NonceInv
      <4>. QED  BY <1>3, <1>6, <2>1, <4>1, <4>2, Numbers
    <3>. QED  BY <3>1, <3>2
  <2>. QED  BY <1>8, <2>2, <2>3
<1>. QED  BY <1>9, <1>11, <1>12, <1>13 DEF Inv

(* The critical section of the identity verifier's consume keeps it. *)
LEMMA ConsumeInv ==
    ASSUME Inv, SessionTypes', NEW h \in Handlers, NEW a \in Assertions, Consume(h, a)
    PROVE  Inv'
<1> DEFINE t == handler[h].now
           live == LiveConsumed(t)
           deadline == stamp[a] + Lifetime + IdSkew
<1>1. AccessTypeOK /\ StampInv /\ WaitInv /\ NonceInv /\ ConsumedInv /\ NoReplay
    BY DEF Inv
<1>2. /\ handler[h].at = "consuming" /\ handler[h].msg = {a}
      /\ UNCHANGED <<clock, stamp, nonces>>
    BY DEF Consume, Serves
<1>3. /\ clock \in Nat /\ handler[h] \in HandlerRecords
      /\ \A m \in Messages : stamp[m] \in Int
      /\ \A b \in Assertions : consumed[b] \in Int
      /\ Requests \subseteq Messages /\ Assertions \subseteq Messages
    BY <1>1, Types
<1>4. t \in Int /\ handler[h].first \in Int /\ stamp[a] \in Int /\ deadline \in Int
    BY <1>3, Numbers DEF HandlerRecords
<1>5. /\ Sent(a) /\ t <= clock /\ clock <= handler[h].first + Stall
      /\ handler[h].first < deadline
    BY <1>1, <1>2 DEF WaitInv, WaitOK
<1>6. /\ live \in [Assertions -> Int]
      /\ \A b \in Assertions : live[b] = consumed[b]
                               \/ (live[b] = Never /\ consumed[b] <= clock - IdSkew)
      /\ \A b \in Assertions : live[b] = Never =>
                               consumed[b] = Never \/ consumed[b] <= clock - IdSkew
    BY <1>3, <1>4, <1>5, Numbers DEF LiveConsumed
<1>7. /\ \/ consumed' = live /\ Become(h, IdleHandler)
         \/ /\ live[a] = Never /\ Accept(h, a)
            /\ consumed' = [live EXCEPT ![a] = deadline]
    BY DEF Consume, Expiry
<1>8. clock < stamp[a] + Lifetime + 2 * IdSkew
    BY <1>3, <1>4, <1>5, Numbers
<1> HIDE DEF t, live
<1>9. live[a] = Never => ~Used(a)
  <2>. SUFFICES ASSUME live[a] = Never, Used(a) PROVE FALSE
      OBVIOUS
  <2>1. consumed[a] \in Int
      BY <1>3
  <2>2. \/ consumed[a] <= clock - IdSkew /\ consumed[a] >= stamp[a] + Lifetime + IdSkew
        \/ clock >= stamp[a] + Lifetime + 2 * IdSkew
      BY <1>1, <1>6 DEF ConsumedInv
  <2>. QED  BY <1>3, <1>4, <1>8, <2>1, <2>2, Numbers
<1>10. /\ handler' \in [Handlers -> HandlerRecords]
       /\ StampInv' /\ WaitInv' /\ NoReplay'
       /\ \A x \in Messages : Used(x)' => Used(x) \/ (x = a /\ Accept(h, a))
  <2>1. Become(h, IdleHandler) \/ (Accept(h, a) /\ ~Used(a))
      BY <1>7, <1>9
  <2>2. handler[h].at \notin Acting /\ a \in Messages
      BY <1>2, <1>3 DEF Acting
  <2>. QED  BY <1>2, <1>5, <2>1, <2>2, AcceptStep
<1>11. consumed' \in [Assertions -> Int]
    BY <1>4, <1>6, <1>7
<1>12. AccessTypeOK'
    BY <1>1, <1>2, <1>10, <1>11 DEF AccessTypeOK, SessionTypes, HandlerRecords, Places
<1>13. NonceInv'
  <2>1. \A q \in Requests : Used(q)' => Used(q)
      BY <1>3, <1>10, AccessConstants
  <2>. QED  BY <1>1, <1>2, <2>1 DEF NonceInv
<1>14. ConsumedInv'
  <2>. SUFFICES ASSUME NEW b \in Assertions, Used(b)'
                PROVE  \/ consumed'[b] # Never /\ consumed'[b] >= stamp[b] + Lifetime + IdSkew
                       \/ clock >= stamp[b] + Lifetime + 2 * IdSkew
      BY <1>2 DEF ConsumedInv, Never
  <2>1. stamp[b] \in Int /\ consumed[b] \in Int
      BY <1>3
  <2>2. ASSUME Used(b), consumed'[b] = live[b]
        PROVE  \/ consumed'[b] # Never /\ consumed'[b] >= stamp[b] + Lifetime + IdSkew
               \/ clock >= stamp[b] + Lifetime + 2 * IdSkew
    <3>1. \/ consumed[b] # Never /\ consumed[b] >= stamp[b] + Lifetime + IdSkew
          \/ clock >= stamp[b] + Lifetime + 2 * IdSkew
        BY <1>1, <2>2 DEF ConsumedInv
    <3>. QED  BY <1>3, <1>6, <2>1, <2>2, <3>1, Numbers
  <2>3. CASE consumed' = live /\ Become(h, IdleHandler)
    <3>1. handler'[h].at = "idle" /\ \A g \in Handlers \ {h} : handler'[g] = handler[g]
        BY <1>1, <2>3, BecomeEffect, IdleOK
    <3>2. Used(b)
        BY <3>1 DEF Used, Acting
    <3>. QED  BY <2>2, <2>3, <3>2
  <2>4. CASE Accept(h, a) /\ consumed' = [live EXCEPT ![a] = deadline]
    <3>1. CASE b = a
      <4>1. consumed'[a] = deadline
          BY <1>6, <2>4
      <4>2. stamp[a] >= -Drift
          BY <1>1, <1>3, <1>5 DEF StampInv
      <4>3. deadline # Never
          BY <1>4, <4>2, Numbers
      <4>. QED  BY <1>4, <3>1, <4>1, <4>3
    <3>2. CASE b # a
      <4>1. consumed'[b] = live[b] /\ Used(b)
          BY <1>3, <1>6, <1>10, <2>4, <3>2
      <4>. QED  BY <2>2, <4>1
    <3>. QED  BY <3>1, <3>2
  <2>. QED  BY <1>7, <2>3, <2>4
<1>. QED  BY <1>10, <1>12, <1>13, <1>14 DEF Inv

-----------------------------------------------------------------------------
(* Senders, sessions and time.                                             *)

(* A message is signed once, before anyone serves it. *)
LEMMA StampStep ==
    ASSUME Inv, NEW m \in Messages, Stamp(m)
    PROVE  Inv'
<1>1. AccessTypeOK /\ StampInv /\ WaitInv /\ NonceInv /\ ConsumedInv /\ NoReplay
    BY DEF Inv
<1>2. PICK time \in (clock - Drift)..(clock + Drift) :
          ~Sent(m) /\ stamp' = [stamp EXCEPT ![m] = time]
    BY DEF Stamp
<1>3. UNCHANGED <<clock, nonces, consumed, handler, sessionVars>>
    BY DEF Stamp
<1>4. clock \in Nat /\ Drift \in Nat /\ stamp \in [Messages -> Int]
    BY <1>1, Numbers DEF AccessTypeOK
<1>5. time \in Int /\ -Drift <= time /\ time <= clock + Drift
    BY <1>2, <1>4
<1>6. stamp' \in [Messages -> Int] /\ \A x \in Messages : x # m => stamp'[x] = stamp[x]
    BY <1>2, <1>4, <1>5
<1>7. \A x \in Messages : Sent(x) => stamp'[x] = stamp[x] /\ Sent(x)'
    BY <1>2, <1>6 DEF Sent, Never
<1>8. AccessTypeOK'
    BY <1>1, <1>3, <1>6 DEF AccessTypeOK, sessionVars
<1>9. StampInv'
    BY <1>1, <1>2, <1>3, <1>4, <1>5, <1>6 DEF StampInv, Sent, Never
<1>10. \A h \in Handlers : handler[h].at # "idle" =>
           \A x \in Messages : handler[h].msg = {x} => Sent(x)
    BY <1>1 DEF WaitInv, WaitOK
<1>11. WaitInv'
  <2>. SUFFICES ASSUME NEW h \in Handlers PROVE WaitOK(handler[h])'
      BY <1>3 DEF WaitInv
  <2>1. WaitOK(handler[h])
      BY <1>1 DEF WaitInv
  <2>. QED  BY <1>3, <1>7, <1>10, <2>1 DEF WaitOK, Messages
<1>12. \A x \in Messages : Used(x)' => Used(x) /\ stamp'[x] = stamp[x]
    BY <1>3, <1>7, <1>10 DEF Used, Acting
<1>13. NonceInv' /\ ConsumedInv'
    BY <1>1, <1>3, <1>12 DEF NonceInv, ConsumedInv, Messages, Never
<1>14. NoReplay'
    BY <1>1, <1>3 DEF NoReplay
<1>. QED  BY <1>8, <1>9, <1>11, <1>13, <1>14 DEF Inv

(* Revoking or dropping a session touches no message. *)
LEMMA SessionEndInv ==
    ASSUME Inv, SessionTypes', UNCHANGED <<clock, stamp, nonces, consumed, handler>>
    PROVE  Inv'
<1>1. AccessTypeOK'
    BY DEF Inv, AccessTypeOK, SessionTypes
<1>2. StampInv' /\ WaitInv'
    BY DEF Inv, StampInv, WaitInv, WaitOK, Sent
<1>3. NonceInv' /\ ConsumedInv' /\ NoReplay'
    BY DEF Inv, NonceInv, ConsumedInv, NoReplay, Used
<1>. QED  BY <1>1, <1>2, <1>3 DEF Inv

(* Time passes, but not beyond the stall of a handler that waits. *)
LEMMA TickInv ==
    ASSUME Inv, Tick
    PROVE  Inv'
<1>1. AccessTypeOK /\ StampInv /\ WaitInv /\ NonceInv /\ ConsumedInv /\ NoReplay
    BY DEF Inv
<1>2. /\ clock' = clock + 1
      /\ \A h \in Handlers : handler[h].at \in Waiting => clock < handler[h].first + Stall
      /\ UNCHANGED <<stamp, nonces, consumed, handler, sessionVars>>
    BY DEF Tick
<1>3. /\ clock \in Nat
      /\ \A m \in Messages : stamp[m] \in Int
      /\ \A h \in Handlers : handler[h].first \in Int /\ handler[h].now \in Int
      /\ Requests \subseteq Messages /\ Assertions \subseteq Messages
    BY <1>1, Types DEF HandlerRecords
<1>4. AccessTypeOK'
    BY <1>1, <1>2, <1>3 DEF AccessTypeOK, sessionVars
<1>5. StampInv'
    BY <1>1, <1>2, <1>3, Numbers DEF StampInv, Sent
<1>6. WaitInv'
  <2>. SUFFICES ASSUME NEW h \in Handlers PROVE WaitOK(handler[h])'
      BY <1>2 DEF WaitInv
  <2>1. WaitOK(handler[h])
      BY <1>1 DEF WaitInv
  <2>2. handler[h].at \in {"verified", "validated", "consuming"} =>
            clock + 1 <= handler[h].first + Stall
      BY <1>2, <1>3, Numbers DEF Waiting
  <2>3. (handler[h].at # "idle" => \E m \in Messages : handler[h].msg = {m} /\ Sent(m))'
      BY <1>2, <2>1 DEF WaitOK, Sent
  <2>4. \A q \in Requests : handler[h].at = "verified" /\ handler[h].msg = {q} =>
            /\ handler[h].first = handler[h].now /\ handler[h].now <= clock + 1
            /\ clock + 1 <= handler[h].now + Stall
            /\ stamp[q] <= handler[h].now + Drift /\ handler[h].now <= stamp[q] + Skew
      BY <1>3, <2>1, <2>2, Numbers DEF WaitOK
  <2>5. \A a \in Assertions :
            handler[h].at \in {"validated", "consuming"} /\ handler[h].msg = {a} =>
            /\ handler[h].first <= clock + 1 /\ handler[h].now <= clock + 1
            /\ clock + 1 <= handler[h].first + Stall
            /\ handler[h].first < stamp[a] + Lifetime + IdSkew
      BY <1>3, <2>1, <2>2, Numbers DEF WaitOK
  <2>. QED  BY <1>2, <2>3, <2>4, <2>5 DEF WaitOK
<1>7. \A m \in Messages : Used(m)' => Used(m)
    BY <1>2 DEF Used
<1>8. NonceInv'
    BY <1>1, <1>2, <1>3, <1>7, Numbers DEF NonceInv, Never
<1>9. ConsumedInv'
    BY <1>1, <1>2, <1>3, <1>7, Numbers DEF ConsumedInv, Never
<1>10. NoReplay'
    BY <1>1, <1>2 DEF NoReplay
<1>. QED  BY <1>4, <1>5, <1>6, <1>8, <1>9, <1>10 DEF Inv

-----------------------------------------------------------------------------
(* The invariant holds at the start. *)
LEMMA InitInv == Init => Inv
<1>. SUFFICES ASSUME Init PROVE Inv
    OBVIOUS
<1>1. \A h \in Handlers : handler[h] = IdleHandler
    BY DEF Init, NewConnector
<1>2. IdleHandler.at \notin Acting
    BY IdleOK DEF Acting
<1>3. AccessTypeOK
    BY Numbers, IdleOK DEF Init, NewRequestVerifier, NewIdentityVerifier, NewConnector,
                           AccessTypeOK, HandlerRecords, Places
<1>4. StampInv
    BY DEF Init, StampInv, Sent
<1>5. WaitInv
    BY <1>1, IdleOK DEF WaitInv
<1>6. NonceInv /\ ConsumedInv /\ NoReplay
    BY <1>1, <1>2 DEF NonceInv, ConsumedInv, NoReplay, Used
<1>. QED  BY <1>3, <1>4, <1>5, <1>6 DEF Inv

(* Every step is one of these. *)
LEMMA StepKinds ==
    ASSUME Next
    PROVE  \/ \E m \in Messages : Stamp(m)
           \/ \E h \in Handlers : QuietStep(h)
           \/ \E h \in Handlers, q \in Requests : RecordNonce(h, q)
           \/ \E h \in Handlers, a \in Assertions : Consume(h, a)
           \/ UNCHANGED <<clock, stamp, nonces, consumed, handler>>
           \/ Tick
<1>1. ASSUME NEW q \in Requests, Sign(q) PROVE \E m \in Messages : Stamp(m)
    BY <1>1 DEF Sign, Messages
<1>2. ASSUME NEW q \in Requests, NEW h \in Handlers, RequestStep(h, q)
      PROVE  QuietStep(h) \/ RecordNonce(h, q)
    BY <1>2 DEF RequestStep, QuietStep, Messages
<1>3. ASSUME NEW a \in Assertions, SignAssertion(a) \/ Revoke(a) \/ DropExpired(a)
      PROVE  \/ \E m \in Messages : Stamp(m)
             \/ UNCHANGED <<clock, stamp, nonces, consumed, handler>>
    BY <1>3 DEF SignAssertion, Revoke, DropExpired, Messages
<1>4. ASSUME NEW a \in Assertions, NEW h \in Handlers, AssertionStep(h, a)
      PROVE  QuietStep(h) \/ Consume(h, a)
    BY <1>4 DEF AssertionStep, QuietStep, Messages
<1>5. ASSUME NEW h \in Handlers, Complete(h) \/ ReadClock(h) PROVE QuietStep(h)
    BY <1>5 DEF QuietStep
<1>. QED  BY <1>1, <1>2, <1>3, <1>4, <1>5 DEF Next

(* The invariant is inductive (Verifier.Verify of connector-protocol,      *)
(* identity.Verifier, Sessions, and the handlers that use them).           *)
THEOREM AccessInvariance == Spec => []Inv
<1>1. Init => Inv
    BY InitInv
<1>2. Inv /\ [Next]_vars => Inv'
  <2>. SUFFICES ASSUME Inv, [Next]_vars PROVE Inv'
      OBVIOUS
  <2>1. CASE UNCHANGED vars
    <3>1. SessionTypes'
        BY <2>1 DEF vars, sessionVars, Inv, AccessTypeOK, SessionTypes
    <3>. QED  BY <2>1, <3>1, SessionEndInv DEF vars
  <2>2. CASE Next
    <3>1. SessionTypes'
        BY <2>2, SessionStep
    <3>. QED  BY <2>2, <3>1, StepKinds, StampStep, QuietInv, RecordNonceInv, ConsumeInv,
                 SessionEndInv, TickInv
  <2>. QED  BY <2>1, <2>2
<1>. QED  BY <1>1, <1>2, PTL DEF Spec

(* The variables of the verifiers and the session table keep their types. *)
THEOREM AccessTypeCorrect == Spec => []AccessTypeOK
<1>1. Inv => AccessTypeOK
    BY DEF Inv
<1>. QED  BY <1>1, AccessInvariance, PTL

(* No signed request and no assertion is acted on twice (Verifier.Verify,  *)
(* Verifier.consume), for clocks that are closer than the window less the  *)
(* stall of a handler.                                                     *)
THEOREM SingleUse == Spec => []NoReplay
<1>1. Inv => NoReplay
    BY DEF Inv
<1>. QED  BY <1>1, AccessInvariance, PTL

(* A message that is acted on is no older than its window (Verifier.Verify, *)
(* validateClaims).                                                        *)
THEOREM LateRefused == Spec => LateMessagesRefused
<1> DEFINE A == \A h \in Handlers :
                    handler[h].at \notin Acting /\ handler'[h].at \in Acting =>
                        \A m \in handler[h].msg : clock <= stamp[m] + Window(m)
<1>1. Inv /\ [Next]_vars => A
  <2>. SUFFICES ASSUME Inv, [Next]_vars, NEW h \in Handlers,
                       handler[h].at \notin Acting, handler'[h].at \in Acting,
                       NEW m \in handler[h].msg
                PROVE  clock <= stamp[m] + Window(m)
      OBVIOUS
  <2>1. AccessTypeOK /\ WaitOK(handler[h])
      BY DEF Inv, WaitInv
  <2>2. handler' # handler
      OBVIOUS
  <2>3. /\ clock \in Nat /\ handler[h] \in HandlerRecords
        /\ \A x \in Messages : stamp[x] \in Int
        /\ Requests \subseteq Messages /\ Assertions \subseteq Messages
      BY <2>1, Types
  <2>4. CASE \E g \in Handlers : QuietStep(g)
    <3>1. PICK g \in Handlers : QuietStep(g)
        BY <2>4
    <3>2. PICK new \in HandlerRecords : QuietTo(g, new)
        BY <3>1, QuietRecord
    <3>3. /\ handler'[g] = new
          /\ \A x \in Handlers \ {g} : handler'[x] = handler[x]
        BY <2>1, <3>2, BecomeEffect DEF QuietTo
    <3>. QED  BY <3>2, <3>3 DEF QuietTo
  <2>5. ASSUME NEW g \in Handlers, NEW q \in Requests, RecordNonce(g, q)
        PROVE  clock <= stamp[m] + Window(m)
    <3>1. /\ handler[g].at = "verified" /\ handler[g].msg = {q}
          /\ Become(g, IdleHandler) \/ Accept(g, q)
        BY <2>5 DEF RecordNonce, Serves
    <3>2. g = h
        BY <2>1, <3>1 DEF Become, Accept, AccessTypeOK
    <3>3. m = q /\ q \in Requests
        BY <3>1, <3>2
    <3>4. clock <= handler[h].now + Stall /\ handler[h].now <= stamp[q] + Skew
        BY <2>1, <3>1, <3>2 DEF WaitOK
    <3>5. Window(q) = Stall + Skew
        BY DEF Window
    <3>6. handler[h].now \in Int /\ stamp[q] \in Int
        BY <2>3 DEF HandlerRecords
    <3>. QED  BY <2>3, <3>3, <3>4, <3>5, <3>6, Numbers
  <2>6. ASSUME NEW g \in Handlers, NEW a \in Assertions, Consume(g, a)
        PROVE  clock <= stamp[m] + Window(m)
    <3>1. /\ handler[g].at = "consuming" /\ handler[g].msg = {a}
          /\ Become(g, IdleHandler) \/ Accept(g, a)
        BY <2>6 DEF Consume, Serves
    <3>2. g = h
        BY <2>1, <3>1 DEF Become, Accept, AccessTypeOK
    <3>3. m = a /\ a \notin Requests
        BY <3>1, <3>2, AccessConstants
    <3>4. clock <= handler[h].first + Stall /\ handler[h].first < stamp[a] + Lifetime + IdSkew
        BY <2>1, <3>1, <3>2 DEF WaitOK
    <3>5. Window(a) = Stall + (Lifetime + IdSkew - 1)
        BY <3>3 DEF Window
    <3>6. handler[h].first \in Int /\ stamp[a] \in Int
        BY <2>3 DEF HandlerRecords
    <3>. QED  BY <2>3, <3>3, <3>4, <3>5, <3>6, Numbers
  <2>7. CASE \E x \in Messages : Stamp(x)
      BY <2>2, <2>7 DEF Stamp
  <2>8. CASE Tick
      BY <2>2, <2>8 DEF Tick
  <2>. QED  BY <2>2, <2>4, <2>5, <2>6, <2>7, <2>8, StepKinds DEF vars
<1>2. Inv /\ [Next]_vars => [A]_vars
    BY <1>1
<1>. QED  BY <1>2, AccessInvariance, PTL DEF Spec, LateMessagesRefused

-----------------------------------------------------------------------------
(* Sessions.                                                               *)

(* a was exchanged for a session. *)
Bought(a) ==
    \E h \in Handlers : handler[h].at \in {"issued", "done"} /\ handler[h].msg = {a}

(* Who has a session, or had one, has exchanged his assertion for it. *)
BoughtInv == \A a \in Assertions : sessions[a] # "none" => Bought(a)

(* A handler that has issued a session, or is done, stays there. *)
LEMMA ExchangeStays ==
    ASSUME AccessTypeOK, [Next]_vars, NEW g \in Handlers, handler[g].at \in {"issued", "done"}
    PROVE  handler'[g].at \in {"issued", "done"} /\ handler'[g].msg = handler[g].msg
<1>1. handler \in [Handlers -> HandlerRecords]
    BY DEF AccessTypeOK, HandlerRecords, Places
<1>2. ASSUME NEW h \in Handlers, NEW new, Become(h, new), h # g
      PROVE  handler'[g] = handler[g]
    BY <1>1, <1>2 DEF Become
<1>3. ASSUME NEW h \in Handlers, Goto(h, "done")
      PROVE  handler'[g].at \in {"issued", "done"} /\ handler'[g].msg = handler[g].msg
    BY <1>1, <1>3 DEF Goto, Become, HandlerRecords
<1>4. ASSUME NEW m \in Messages, Stamp(m) PROVE handler' = handler
    BY <1>4 DEF Stamp
<1>5. ASSUME NEW h \in Handlers, QuietStep(h)
      PROVE  handler'[g].at \in {"issued", "done"} /\ handler'[g].msg = handler[g].msg
  <2>1. CASE \E m \in Messages : Deliver(h, m)
    <3>1. h # g /\ \E new : Become(h, new)
        BY <2>1 DEF Deliver
    <3>. QED  BY <1>2, <3>1
  <2>2. CASE \E q \in Requests : VerifyRequest(h, q) \/ Acquire(h, q)
    <3>1. h # g /\ \E new : Become(h, new)
        BY <2>2 DEF VerifyRequest, Acquire, Serves, Goto
    <3>. QED  BY <1>2, <3>1
  <2>3. CASE \E a \in Assertions : ValidateClaims(h, a) \/ Issue(h, a)
    <3>1. h # g /\ \E new : Become(h, new)
        BY <2>3 DEF ValidateClaims, Issue, Serves, Goto
    <3>. QED  BY <1>2, <3>1
  <2>4. CASE (\E a \in Assertions : ReceiveSession(h, a)) \/ Complete(h)
      BY <1>3, <2>4 DEF ReceiveSession, Complete
  <2>5. CASE ReadClock(h)
    <3>1. h # g /\ \E new : Become(h, new)
        BY <2>5 DEF ReadClock
    <3>. QED  BY <1>2, <3>1
  <2>. QED  BY <1>5, <2>1, <2>2, <2>3, <2>4, <2>5 DEF QuietStep
<1>6. ASSUME NEW h \in Handlers, NEW q \in Requests, RecordNonce(h, q)
      PROVE  handler'[g] = handler[g]
  <2>1. h # g /\ \E new : Become(h, new)
      BY <1>6 DEF RecordNonce, Serves, Accept
  <2>. QED  BY <1>2, <2>1
<1>7. ASSUME NEW h \in Handlers, NEW a \in Assertions, Consume(h, a)
      PROVE  handler'[g] = handler[g]
  <2>1. h # g /\ \E new : Become(h, new)
      BY <1>7 DEF Consume, Serves, Accept
  <2>. QED  BY <1>2, <2>1
<1>8. CASE handler' = handler
    BY <1>8
<1>9. CASE Next
    BY <1>4, <1>5, <1>6, <1>7, <1>8, <1>9, StepKinds DEF Tick
<1>. QED  BY <1>8, <1>9 DEF vars

(* What a step does to the sessions. *)
LEMMA SessionEffect ==
    ASSUME [Next]_vars
    PROVE  \/ sessions' = sessions
           \/ \E a \in Assertions, h \in Handlers : Issue(h, a)
           \/ \E a \in Assertions : Revoke(a) \/ DropExpired(a)
<1>1. ASSUME NEW q \in Requests, Sign(q) PROVE sessions' = sessions
    BY <1>1 DEF Sign, Stamp, sessionVars
<1>2. ASSUME NEW q \in Requests, NEW h \in Handlers, RequestStep(h, q)
      PROVE  sessions' = sessions
    BY <1>2 DEF RequestStep, Deliver, VerifyRequest, RecordNonce, Acquire, sessionVars
<1>3. ASSUME NEW a \in Assertions, SignAssertion(a) PROVE sessions' = sessions
    BY <1>3 DEF SignAssertion, Stamp, sessionVars
<1>4. ASSUME NEW a \in Assertions, NEW h \in Handlers, AssertionStep(h, a)
      PROVE  sessions' = sessions \/ Issue(h, a)
    BY <1>4 DEF AssertionStep, Deliver, ValidateClaims, Consume, ReceiveSession, sessionVars
<1>5. ASSUME NEW h \in Handlers, Complete(h) \/ ReadClock(h) PROVE sessions' = sessions
    BY <1>5 DEF Complete, ReadClock, sessionVars
<1>6. CASE Tick
    BY <1>6 DEF Tick, sessionVars
<1>7. CASE UNCHANGED vars
    BY <1>7 DEF vars, sessionVars
<1>. QED  BY <1>1, <1>2, <1>3, <1>4, <1>5, <1>6, <1>7 DEF Next

(* A handler issues a session for an assertion that bought none before. *)
LEMMA IssueIsFirst ==
    ASSUME Inv, BoughtInv, NEW a \in Assertions, NEW h \in Handlers, Issue(h, a)
    PROVE  sessions[a] = "none" /\ Bought(a)'
<1>1. handler[h].at = "accepted" /\ handler[h].msg = {a} /\ Goto(h, "issued")
    BY DEF Issue, Serves
<1>2. ~Bought(a)
  <2>. SUFFICES ASSUME NEW g \in Handlers, handler[g].at \in {"issued", "done"},
                       handler[g].msg = {a}
                PROVE  FALSE
      BY DEF Bought
  <2>1. g = h
      BY <1>1 DEF Inv, NoReplay, Acting
  <2>. QED  BY <1>1, <2>1
<1>3. handler'[h].at = "issued" /\ handler'[h].msg = {a}
  <2>1. handler \in [Handlers -> HandlerRecords]
      BY DEF Inv, AccessTypeOK, HandlerRecords, Places
  <2>. QED  BY <1>1, <2>1 DEF Goto, Become, HandlerRecords
<1>. QED  BY <1>2, <1>3 DEF BoughtInv, Bought

(* A session that was revoked or deleted is not replaced by another for    *)
(* the same assertion (Verifier.consume, createIdentitySession,            *)
(* Sessions.Revoke).                                                       *)
THEOREM SignOutIsFinal == Spec => EndedSessionsStayEnded
<1> DEFINE A == \A a \in Assertions :
                    sessions[a] \in {"revoked", "deleted"} => sessions'[a] = sessions[a]
<1>1. Init => BoughtInv
    BY DEF Init, BoughtInv
<1>2. Inv /\ BoughtInv /\ [Next]_vars => A /\ BoughtInv'
  <2>. SUFFICES ASSUME Inv, BoughtInv, [Next]_vars PROVE A /\ BoughtInv'
      OBVIOUS
  <2>1. AccessTypeOK /\ sessions \in [Assertions -> {"none", "live", "revoked", "deleted"}]
      BY DEF Inv, AccessTypeOK
  <2>2. \A a \in Assertions : Bought(a) => Bought(a)'
      BY <2>1, ExchangeStays DEF Bought
  <2>3. ASSUME NEW a \in Assertions, NEW h \in Handlers, Issue(h, a) PROVE A /\ BoughtInv'
    <3>1. sessions[a] = "none" /\ Bought(a)'
        BY <2>3, IssueIsFirst
    <3>2. sessions' = [sessions EXCEPT ![a] = "live"]
        BY <2>3 DEF Issue, IssueSession
    <3>3. \A b \in Assertions \ {a} : sessions'[b] = sessions[b]
        BY <2>1, <3>2
    <3>4. A
        BY <3>1, <3>3
    <3>5. BoughtInv'
        BY <2>2, <3>1, <3>3 DEF BoughtInv
    <3>. QED  BY <3>4, <3>5
  <2>4. ASSUME NEW a \in Assertions, Revoke(a) \/ DropExpired(a) PROVE A /\ BoughtInv'
    <3>1. /\ sessions[a] = "live"
          /\ \A b \in Assertions \ {a} : sessions'[b] = sessions[b]
        BY <2>1, <2>4 DEF Revoke, DropExpired
    <3>2. A
        BY <3>1
    <3>3. BoughtInv'
        BY <2>2, <3>1 DEF BoughtInv
    <3>. QED  BY <3>2, <3>3
  <2>5. CASE sessions' = sessions
      BY <2>2, <2>5 DEF BoughtInv
  <2>. QED  BY <2>3, <2>4, <2>5, SessionEffect
<1>3. Inv /\ BoughtInv /\ [Next]_vars => BoughtInv' /\ [A]_vars
    BY <1>2
<1>. QED  BY <1>1, <1>3, AccessInvariance, PTL DEF Spec, EndedSessionsStayEnded

=============================================================================
