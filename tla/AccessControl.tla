---------------------------- MODULE AccessControl ----------------------------
(***************************************************************************)
(* The two signed messages of the system and what receives them:           *)
(*                                                                         *)
(*   requests of the control plane to the Connector: Signer and Verifier   *)
(*     of connector-protocol, Client.post, connector/service/server.go;    *)
(*   identity assertions the web console exchanges for sessions:           *)
(*     web/lib/identity-bridge.ts, identity.Verifier, auth.Sessions.       *)
(*                                                                         *)
(* Both are bearer messages: the network may delay, lose, reorder and      *)
(* repeat them, and each verifier keeps a table of the ones it accepted.   *)
(* A member of Handlers is one HTTP request that carries a message, and    *)
(* the goroutine that serves it; when it refuses the message the handler   *)
(* is idle again.  A message is named by its nonce, or jti.                *)
(*                                                                         *)
(* clock is the receivers' clock, in the unit of the constants.  A sender's *)
(* clock is at most Drift away from it.  A verifier reads its clock before *)
(* it takes its lock; Stall bounds the time a handler takes from the first *)
(* reading until it is served.                                             *)
(***************************************************************************)
EXTENDS Integers, FiniteSets

CONSTANTS Requests, Assertions, Handlers,
          Skew,          \* maxSkew of the Connector's verifier
          MaxNonces,     \* maxNonces of the Connector's verifier
          MaxConcurrent, \* slots of the Connector
          IdSkew,        \* ClockSkew of the identity verifier
          Lifetime,      \* lifetime of an assertion
          SessionTTL,    \* lifetime of a session
          Margin,        \* what the console wants left of a cached session
          Drift, Stall,
          MaxTime        \* bound: last value of the clock

ASSUME AccessConstants ==
    /\ Requests \cap Assertions = {}
    /\ IsFiniteSet(Requests) /\ IsFiniteSet(Handlers)
    /\ Skew \in Nat /\ IdSkew \in Nat /\ Lifetime \in Nat \ {0}
    /\ MaxNonces \in Nat /\ MaxConcurrent \in Nat
    /\ SessionTTL \in Nat \ {0} /\ Margin \in Nat
    /\ Drift \in Nat /\ Stall \in Nat /\ MaxTime \in Nat

(* What single use rests on: clocks that are close, handlers that go on.   *)
ASSUME TimingAssumption == Drift + Stall < Skew /\ Stall <= IdSkew

Messages == Requests \cup Assertions

Never == -1 - Drift

VARIABLES
    clock,
    stamp,     \* timestamp, or iat, of a message that was sent
    nonces,    \* Verifier.nonces: when the entry of a request expires
    consumed,  \* identity Verifier.consumed: the deadline of an assertion
    handler,   \* place of a handler, the message it serves, and the clock
               \* as its verifier read it first and last
    sessions,  \* session an assertion was exchanged for
    expires,   \* ExpiresAt of that session
    cached     \* the session the console has cached

sessionVars == <<sessions, expires, cached>>

vars == <<clock, stamp, nonces, consumed, handler, sessionVars>>

IdleHandler == [at |-> "idle", msg |-> {}, first |-> 0, now |-> 0]

(* A handler at a place where it needs no reading of the clock. *)
With(m, place) == [at |-> place, msg |-> {m}, first |-> 0, now |-> 0]

(* The tables of a new verifier, and the slots of a new Connector. *)
NewRequestVerifier == nonces = [q \in Requests |-> Never]

NewIdentityVerifier == consumed = [a \in Assertions |-> Never]

NewConnector == handler = [h \in Handlers |-> IdleHandler]

Init ==
    /\ clock = 0
    /\ stamp = [m \in Messages |-> Never]
    /\ NewRequestVerifier /\ NewIdentityVerifier /\ NewConnector
    /\ sessions = [a \in Assertions |-> "none"]
    /\ expires = [a \in Assertions |-> 0]
    /\ cached = {}

-----------------------------------------------------------------------------
(* Senders and network.                                                    *)

Sent(m) == stamp[m] # Never

Stamp(m) ==
    /\ ~Sent(m)
    /\ \E time \in (clock - Drift)..(clock + Drift) : stamp' = [stamp EXCEPT ![m] = time]
    /\ UNCHANGED <<clock, nonces, consumed, handler, sessionVars>>

(* Client.post and Signer.Sign: every call has a nonce of its own. *)
Sign(q) == Stamp(q)

(* A cached session the console still uses. *)
CacheValid == \E a \in cached : expires[a] > clock + Margin

(* issueIdentityBridgeSession signs an assertion when it has no session to *)
(* use; two of its calls may do so at the same time.  (It imports its key  *)
(* between the look at the cache and the stamp; as the stamp may be Drift  *)
(* away from the clock, that is left out.)                                 *)
SignAssertion(a) == ~CacheValid /\ Stamp(a)

Serves(h, m, place) == handler[h].at = place /\ handler[h].msg = {m}

Become(h, new) == handler' = [handler EXCEPT ![h] = new]

Goto(h, place) == Become(h, [handler[h] EXCEPT !.at = place])

(* The verifier has accepted m; its clock readings are forgotten. *)
Accept(h, m) == Become(h, With(m, "accepted"))

(* A message arrives, perhaps not for the first time. *)
Deliver(h, m) ==
    /\ handler[h].at = "idle" /\ Sent(m)
    /\ Become(h, With(m, "arrived"))
    /\ UNCHANGED <<clock, stamp, nonces, consumed, sessionVars>>

-----------------------------------------------------------------------------
(* The Connector: Verifier.Verify, then a slot, then the operation.        *)

(* Mutant: a request is never too old. *)
FreshAtAnyAge(q) == stamp[q] <= clock + Skew

FreshRequest(q) == clock - Skew <= stamp[q] /\ stamp[q] <= clock + Skew

(* Headers, signature and time window; the clock is read once. *)
VerifyRequest(h, q) ==
    /\ Serves(h, q, "arrived")
    /\ Become(h, IF FreshRequest(q)
                 THEN [at |-> "verified", msg |-> {q}, first |-> clock, now |-> clock]
                 ELSE IdleHandler)
    /\ UNCHANGED <<clock, stamp, nonces, consumed, sessionVars>>

(* The entries left when the expired ones are deleted. *)
LiveNonces(time) == [q \in Requests |-> IF nonces[q] <= time THEN Never ELSE nonces[q]]

(* Mutant: an entry is kept for one skew only. *)
NonceExpiryOneSkew(time) == time + Skew

NonceExpiry(time) == time + 2 * Skew

(* The critical section of Verify. *)
RecordNonce(h, q) ==
    /\ Serves(h, q, "verified")
    /\ LET live == LiveNonces(handler[h].now)
           full == Cardinality({r \in Requests : live[r] # Never}) >= MaxNonces
       IN IF live[q] # Never \/ full
          THEN nonces' = live /\ Become(h, IdleHandler)
          ELSE nonces' = [live EXCEPT ![q] = NonceExpiry(handler[h].now)] /\ Accept(h, q)
    /\ UNCHANGED <<clock, stamp, consumed, sessionVars>>

Slots == {h \in Handlers : handler[h].at = "running"}

(* acquire does not wait; a request without a slot is lost with its nonce. *)
Acquire(h, q) ==
    /\ Serves(h, q, "accepted")
    /\ Goto(h, IF Cardinality(Slots) < MaxConcurrent THEN "running" ELSE "busy")
    /\ UNCHANGED <<clock, stamp, nonces, consumed, sessionVars>>

(* handleRuntimeSnapshot and handleHostKeyProbe answer, whether or not the *)
(* request was valid and the operation went well, and release the slot.    *)
Complete(h) ==
    /\ handler[h].at = "running" /\ Goto(h, "done")
    /\ UNCHANGED <<clock, stamp, nonces, consumed, sessionVars>>

-----------------------------------------------------------------------------
(* The control plane: identity.Verifier, createIdentitySession, Sessions.  *)

Expiry(a) == stamp[a] + Lifetime

FreshAssertion(a) == stamp[a] <= clock + IdSkew /\ Expiry(a) > clock - IdSkew

(* Verify up to validateClaims. *)
ValidateClaims(h, a) ==
    /\ Serves(h, a, "arrived")
    /\ Become(h, IF FreshAssertion(a)
                 THEN [at |-> "validated", msg |-> {a}, first |-> clock, now |-> clock]
                 ELSE IdleHandler)
    /\ UNCHANGED <<clock, stamp, nonces, consumed, sessionVars>>

(* consume reads the clock again before it takes the lock. *)
ReadClock(h) ==
    /\ handler[h].at = "validated"
    /\ Become(h, [handler[h] EXCEPT !.at = "consuming", !.now = clock])
    /\ UNCHANGED <<clock, stamp, nonces, consumed, sessionVars>>

(* Mutant: an assertion is forgotten before its deadline. *)
LiveConsumedEarly(time) ==
    [a \in Assertions |-> IF consumed[a] <= time + IdSkew THEN Never ELSE consumed[a]]

(* The entries left: an assertion is forgotten IdSkew after its deadline.  *)
LiveConsumed(time) ==
    [a \in Assertions |-> IF consumed[a] <= time - IdSkew THEN Never ELSE consumed[a]]

(* The critical section of consume. *)
Consume(h, a) ==
    /\ Serves(h, a, "consuming")
    /\ LET live == LiveConsumed(handler[h].now)
       IN IF live[a] # Never
          THEN consumed' = live /\ Become(h, IdleHandler)
          ELSE consumed' = [live EXCEPT ![a] = Expiry(a) + IdSkew] /\ Accept(h, a)
    /\ UNCHANGED <<clock, stamp, nonces, sessionVars>>

(* Sessions.Issue stores a session. *)
IssueSession(a) ==
    /\ sessions' = [sessions EXCEPT ![a] = "live"]
    /\ expires' = [expires EXCEPT ![a] = clock + SessionTTL]

(* createIdentitySession. *)
Issue(h, a) ==
    /\ Serves(h, a, "accepted") /\ Goto(h, "issued")
    /\ IssueSession(a)
    /\ UNCHANGED <<clock, stamp, nonces, consumed, cached>>

(* The console caches the session, unless the answer is lost, comes after  *)
(* its timeout, or has too little time left.                               *)
ReceiveSession(h, a) ==
    /\ Serves(h, a, "issued") /\ Goto(h, "done")
    /\ \/ expires[a] > clock + Margin /\ cached' = {a}
       \/ UNCHANGED cached
    /\ UNCHANGED <<clock, stamp, nonces, consumed, sessions, expires>>

(* revokeCurrentSession, of a session the console holds. *)
Revoke(a) ==
    /\ a \in cached /\ sessions[a] = "live" /\ clock < expires[a]
    /\ sessions' = [sessions EXCEPT ![a] = "revoked"]
    /\ UNCHANGED <<clock, stamp, nonces, consumed, handler, expires, cached>>

(* Sessions.Authenticate finds a session that has expired and deletes it.  *)
DropExpired(a) ==
    /\ a \in cached /\ sessions[a] = "live" /\ clock >= expires[a]
    /\ sessions' = [sessions EXCEPT ![a] = "deleted"]
    /\ UNCHANGED <<clock, stamp, nonces, consumed, handler, expires, cached>>

-----------------------------------------------------------------------------
(* Where a handler has read the clock and waits to be served. *)
Waiting == {"verified", "validated", "consuming"}

Tick ==
    /\ clock < MaxTime
    /\ \A h \in Handlers : handler[h].at \in Waiting => clock < handler[h].first + Stall
    /\ clock' = clock + 1
    /\ UNCHANGED <<stamp, nonces, consumed, handler, sessionVars>>

RequestStep(h, q) ==
    Deliver(h, q) \/ VerifyRequest(h, q) \/ RecordNonce(h, q) \/ Acquire(h, q)

AssertionStep(h, a) ==
    Deliver(h, a) \/ ValidateClaims(h, a) \/ Consume(h, a) \/ Issue(h, a) \/ ReceiveSession(h, a)

Next ==
    \/ \E q \in Requests : Sign(q) \/ \E h \in Handlers : RequestStep(h, q)
    \/ \E a \in Assertions :
          \/ SignAssertion(a) \/ Revoke(a) \/ DropExpired(a)
          \/ \E h \in Handlers : AssertionStep(h, a)
    \/ \E h \in Handlers : Complete(h) \/ ReadClock(h)
    \/ Tick

Spec == Init /\ [][Next]_vars

-----------------------------------------------------------------------------
(* Properties.                                                             *)

(* The handler's message was accepted. *)
Acting == {"accepted", "running", "busy", "issued", "done"}

(* The variables keep their types; a nonce in the table has an expiry that *)
(* is not before the start of time.                                        *)
AccessTypeOK ==
    /\ clock \in Nat
    /\ stamp \in [Messages -> Int]
    /\ nonces \in [Requests -> Nat \cup {Never}]
    /\ consumed \in [Assertions -> Int]
    /\ handler \in [Handlers -> [at : Waiting \cup Acting \cup {"idle", "arrived"},
                                 msg : SUBSET Messages, first : Nat, now : Nat]]
    /\ sessions \in [Assertions -> {"none", "live", "revoked", "deleted"}]
    /\ expires \in [Assertions -> Nat]
    /\ cached \subseteq Assertions

(* However a message is delayed and repeated, it is acted on at most once: *)
(* a signed request starts one operation on the Connector, an assertion    *)
(* buys one session.  An entry of a table is forgotten only when its       *)
(* message has become too old for every handler (Verifier.Verify,          *)
(* Verifier.consume).                                                      *)
NoReplay ==
    \A h1, h2 \in Handlers :
        /\ handler[h1].at \in Acting /\ handler[h2].at \in Acting
        /\ handler[h1].msg = handler[h2].msg
        => h1 = h2

(* Signing out is final: once the session an assertion bought was revoked, *)
(* or has expired and was deleted, repeating the assertion opens no        *)
(* session in its place (Verifier.consume keeps the assertion while it is  *)
(* valid, createIdentitySession issues only for one it accepts).           *)
EndedSessionsStayEnded ==
    [][\A a \in Assertions :
          sessions[a] \in {"revoked", "deleted"} => sessions'[a] = sessions[a]]_vars

(* How old a message may be when it is acted on: Skew for a request, less  *)
(* than its lifetime and IdSkew for an assertion, and the handler's stall. *)
Window(m) == Stall + (IF m \in Requests THEN Skew ELSE Lifetime + IdSkew - 1)

(* A message that was held up on its way is refused: one that is acted on  *)
(* is no older than Window, although the clock it was compared with was    *)
(* read before the lock was taken (Verifier.Verify, validateClaims).       *)
LateMessagesRefused ==
    [][\A h \in Handlers :
          handler[h].at \notin Acting /\ handler'[h].at \in Acting =>
              \A m \in handler[h].msg : clock <= stamp[m] + Window(m)]_vars

=============================================================================
