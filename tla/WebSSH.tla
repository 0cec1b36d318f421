------------------------------- MODULE WebSSH -------------------------------
(***************************************************************************)
(* Browser terminals: the ticket request of the control plane              *)
(* (control-plane/internal/api/webssh.go), the gateway that turns a ticket *)
(* into a proxied WebSocket (websshgateway/broker.go, websocket.go) and    *)
(* the Connector that opens the PTY (connector/service/webssh.go,          *)
(* connector/webssh/pty.go).                                               *)
(*                                                                         *)
(* A member of Tickets is one Issue call with the browser ticket, the      *)
(* connection ID and the Connector ticket it creates; a member of Conns is *)
(* one browser WebSocket, the handler that serves it and the upstream      *)
(* WebSocket this handler may open.  All tickets are for one host; two     *)
(* tickets may be of two sessions or of two credentials.  The gateway and  *)
(* the Connector run on one machine and read one clock.  A ticket table    *)
(* maps a ticket to its expiry, 0 when it has no entry.                    *)
(***************************************************************************)
EXTENDS Naturals, FiniteSets, Sequences

CONSTANTS Tickets, Conns,
          Keys,          \* host keys
          Max,           \* MaxOutstandingTickets of the gateway
          MaxConsumed,   \* remembered tickets; the code takes 4 * Max
          MaxConcurrent, \* connSlots of the gateway
          TTL,           \* TicketTTL of the gateway
          UpMax, UpMaxConsumed, UpConcurrent, UpTTL, \* the same for the Connector
          MaxTime        \* bound: last value of the clock

ASSUME WebSSHConstants ==
    /\ IsFiniteSet(Tickets) /\ IsFiniteSet(Conns) /\ Keys # {}
    /\ Max \in Nat \ {0} /\ MaxConsumed \in Nat \ {0} /\ MaxConcurrent \in Nat \ {0}
    /\ UpMax \in Nat \ {0} /\ UpMaxConsumed \in Nat \ {0} /\ UpConcurrent \in Nat \ {0}
    /\ TTL \in Nat \ {0} /\ UpTTL \in Nat \ {0} /\ MaxTime \in Nat

VARIABLES
    issue,      \* place of the Issue call of a ticket
    keyOf,      \* the host key the ticket was requested with
    upExpiry,   \* the expiry in the Connector's answer
    tickets, consumed,     \* Broker.tickets and Broker.consumed
    conn,       \* place of the handler of a browser connection
    uses,       \* the ticket a connection consumed, if any
    up,         \* place of the Connector's handler of its upstream connection
    upTickets, upConsumed, \* webSSHManager.tickets and consumed
    events,     \* audit events per connection ID
    lost,       \* tickets whose session ended, or whose credential or host is gone
    hostKey,    \* the host's pinned key, if any
    gateway, connector,    \* "serving", or "closed" once Close was called
    clock

issueVars == <<issue, keyOf, upExpiry>>
tableVars == <<tickets, consumed>>
connVars == <<conn, uses>>
upVars == <<up, upTickets, upConsumed>>
envVars == <<lost, hostKey, gateway, connector, clock>>

vars == <<issueVars, tableVars, connVars, upVars, events, envVars>>

(* A new gateway, and a new Connector, as New and newWebSSHManager make    *)
(* them.                                                                   *)
GatewayInit ==
    /\ issue = [t \in Tickets |-> "idle"]
    /\ tickets = [t \in Tickets |-> 0]
    /\ consumed = [t \in Tickets |-> 0]
    /\ conn = [c \in Conns |-> "idle"]
    /\ uses = [c \in Conns |-> {}]
    /\ events = [t \in Tickets |-> <<>>]
    /\ gateway = "serving"

ConnectorInit ==
    /\ up = [c \in Conns |-> "none"]
    /\ upExpiry = [t \in Tickets |-> 0]
    /\ upTickets = [t \in Tickets |-> 0]
    /\ upConsumed = [t \in Tickets |-> 0]
    /\ connector = "serving"

Init ==
    /\ GatewayInit
    /\ ConnectorInit
    /\ keyOf = [t \in Tickets |-> CHOOSE k \in Keys : TRUE]
    /\ lost = {}
    /\ hostKey \in {{k} : k \in Keys}
    /\ clock = 0

-----------------------------------------------------------------------------
(* Helpers.                                                                *)

Entries(table) == {t \in Tickets : table[t] # 0}

(* pruneLocked: an entry that does not expire after now is deleted. *)
Prune(table) == [t \in Tickets |-> IF table[t] <= clock THEN 0 ELSE table[t]]

With(table, t, expiry) == [Prune(table) EXCEPT ![t] = expiry]

Min2(a, b) == IF a <= b THEN a ELSE b

(* authorizeWebSSH: session, role and scope, a pinned key whichever it is, *)
(* and the credential of the binding.                                      *)
Authorized(t) == t \notin lost /\ hostKey # {}

Audit(t, event) == events' = [events EXCEPT ![t] = Append(@, event)]

(* Mutant: a call is counted when its ticket is stored. *)
IssuingStored == {t \in Tickets : issue[t] = "stored"}

(* Issue calls that count in Broker.issuing. *)
Issuing == {t \in Tickets : issue[t] \in {"reserved", "accepted", "stored", "refused"}}

(* Handlers the gateway's wait group counts; they hold a slot as well. *)
Handlers == {c \in Conns : conn[c] \notin {"idle", "rejected", "closed"}}

(* Sessions the Connector's wait group counts. *)
UpSessions == {c \in Conns : up[c] \in {"begun", "ticketed", "opening", "open"}}

-----------------------------------------------------------------------------
(* createTerminalSession and Broker.Issue.                                 *)

RequestTerminal(t) ==
    /\ issue[t] = "idle"
    /\ Authorized(t)
    /\ \E k \in hostKey : keyOf' = [keyOf EXCEPT ![t] = k]
    /\ issue' = [issue EXCEPT ![t] = "hostRead"]
    /\ UNCHANGED <<upExpiry, tableVars, connVars, upVars, events, envVars>>

(* The credential may be missing or not open, the request invalid, or the  *)
(* authorization gone.                                                     *)
IssueAuthorize(t) ==
    /\ issue[t] = "hostRead"
    /\ \/ Authorized(t) /\ issue' = [issue EXCEPT ![t] = "authorized"]
       \/ issue' = [issue EXCEPT ![t] = "failed"]
    /\ UNCHANGED <<keyOf, upExpiry, tableVars, connVars, upVars, events, envVars>>

(* reserveTicket. *)
ReserveTicket(t) ==
    /\ issue[t] = "authorized"
    /\ tickets' = Prune(tickets) /\ consumed' = Prune(consumed)
    /\ issue' = [issue EXCEPT ![t] =
                    IF /\ gateway = "serving"
                       /\ Cardinality(Entries(Prune(tickets))) + Cardinality(Issuing) < Max
                    THEN "reserved" ELSE "failed"]
    /\ UNCHANGED <<keyOf, upExpiry, connVars, upVars, events, envVars>>

(* webSSHManager.createTicket has room. *)
UpFree ==
    /\ connector = "serving"
    /\ Cardinality(Entries(Prune(upTickets))) < UpMax
    /\ Cardinality(Entries(Prune(upConsumed))) < UpMaxConsumed

(* connector.WebSSHTicket: the Connector creates a ticket, whose answer    *)
(* may be lost, or refuses, or is not reached.                             *)
ConnectorTicket(t) ==
    /\ issue[t] = "reserved"
    /\ \/ /\ UpFree
          /\ upTickets' = With(upTickets, t, clock + UpTTL)
          /\ upConsumed' = Prune(upConsumed)
          /\ upExpiry' = [upExpiry EXCEPT ![t] = clock + UpTTL]
          /\ \E outcome \in {"accepted", "refused"} :
                issue' = [issue EXCEPT ![t] = outcome]
       \/ /\ ~UpFree
          /\ upTickets' = Prune(upTickets) /\ upConsumed' = Prune(upConsumed)
          /\ issue' = [issue EXCEPT ![t] = "refused"]
          /\ UNCHANGED upExpiry
       \/ /\ issue' = [issue EXCEPT ![t] = "refused"]
          /\ UNCHANGED <<upTickets, upConsumed, upExpiry>>
    /\ UNCHANGED <<keyOf, tableVars, connVars, up, events, envVars>>

(* The condition of storeTicket. *)
HasRoom ==
    /\ gateway = "serving"
    /\ Cardinality(Entries(Prune(tickets))) < Max
    /\ Cardinality(Entries(Prune(consumed))) < MaxConsumed

(* validateConnectorResponse, storeTicket, and the "issued" event. *)
StoreTicket(t) ==
    /\ issue[t] = "accepted"
    /\ \/ /\ upExpiry[t] <= clock
          /\ issue' = [issue EXCEPT ![t] = "refused"]
          /\ UNCHANGED <<tableVars, events>>
       \/ /\ upExpiry[t] > clock /\ HasRoom
          /\ tickets' = With(tickets, t, Min2(clock + TTL, upExpiry[t]))
          /\ consumed' = Prune(consumed)
          /\ Audit(t, "issued")
          /\ issue' = [issue EXCEPT ![t] = "stored"]
       \/ /\ upExpiry[t] > clock /\ ~HasRoom
          /\ tickets' = Prune(tickets) /\ consumed' = Prune(consumed)
          /\ issue' = [issue EXCEPT ![t] = "refused"]
          /\ UNCHANGED events
    /\ UNCHANGED <<keyOf, upExpiry, connVars, upVars, envVars>>

(* The deferred releaseTicketReservation; then the browser gets its answer.*)
ReleaseReservation(t) ==
    /\ \/ issue[t] = "stored" /\ issue' = [issue EXCEPT ![t] = "issued"]
       \/ issue[t] = "refused" /\ issue' = [issue EXCEPT ![t] = "failed"]
    /\ UNCHANGED <<keyOf, upExpiry, tableVars, connVars, upVars, events, envVars>>

-----------------------------------------------------------------------------
(* Broker.ServeHTTP and serveSession.                                      *)

Goto(c, from, to) == conn[c] = from /\ conn' = [conn EXCEPT ![c] = to]

(* beginHandler and a slot.  A request that is refused for its origin, for *)
(* its protocol, for lack of a slot or during shutdown leaves no trace.    *)
BeginHandler(c) ==
    /\ Goto(c, "idle", "accepted")
    /\ gateway = "serving" /\ Cardinality(Handlers) < MaxConcurrent
    /\ UNCHANGED <<issueVars, tableVars, uses, upVars, events, envVars>>

RegisterSession(c) ==
    /\ Goto(c, "accepted", IF gateway = "serving" THEN "registered" ELSE "rejected")
    /\ UNCHANGED <<issueVars, tableVars, uses, upVars, events, envVars>>

(* How long a consumed ticket is remembered. *)
RememberUntil == clock + TTL

(* Mutant: a hello with another binding leaves the ticket in its table. *)
ConsumeTicketMatching(c, t, matches) ==
    /\ conn[c] = "registered" /\ issue[t] = "issued"
    /\ \/ /\ t \in Entries(Prune(tickets))
          /\ tickets' = With(tickets, t, IF matches THEN 0 ELSE tickets[t])
          /\ consumed' = With(consumed, t, RememberUntil)
          /\ uses' = [uses EXCEPT ![c] = {t}]
          /\ conn' = [conn EXCEPT ![c] = IF matches THEN "ticketed" ELSE "refused"]
       \/ /\ t \notin Entries(Prune(tickets))
          /\ tickets' = Prune(tickets) /\ consumed' = Prune(consumed)
          /\ conn' = [conn EXCEPT ![c] = "refused"]
          /\ UNCHANGED uses
    /\ UNCHANGED <<issueVars, upVars, events, envVars>>

(* A hello with ticket t; consumeTicket deletes and remembers it whether   *)
(* or not connection ID and binding match.                                 *)
ConsumeTicket(c, t, matches) ==
    /\ conn[c] = "registered" /\ issue[t] = "issued"
    /\ \/ /\ t \in Entries(Prune(tickets))
          /\ tickets' = With(tickets, t, 0)
          /\ consumed' = With(consumed, t, RememberUntil)
          /\ uses' = [uses EXCEPT ![c] = {t}]
          /\ conn' = [conn EXCEPT ![c] = IF matches THEN "ticketed" ELSE "refused"]
       \/ /\ t \notin Entries(Prune(tickets))
          /\ tickets' = Prune(tickets) /\ consumed' = Prune(consumed)
          /\ conn' = [conn EXCEPT ![c] = "refused"]
          /\ UNCHANGED uses
    /\ UNCHANGED <<issueVars, upVars, events, envVars>>

(* No hello within the handshake timeout, an invalid one, a browser that   *)
(* left, or a done context.                                                *)
NoHello(c) ==
    /\ Goto(c, "registered", "refused")
    /\ UNCHANGED <<issueVars, tableVars, uses, upVars, events, envVars>>

Disconnected(c) == \E t \in uses[c] : Audit(t, "disconnected")

AuthorizeSession(c) ==
    /\ conn[c] = "ticketed"
    /\ IF \A t \in uses[c] : Authorized(t)
       THEN conn' = [conn EXCEPT ![c] = "dialing"] /\ UNCHANGED events
       ELSE conn' = [conn EXCEPT ![c] = "leaving"] /\ Disconnected(c)
    /\ UNCHANGED <<issueVars, tableVars, uses, upVars, envVars>>

(* manager.connections has a free slot. *)
UpSlotFree ==
    Cardinality({d \in Conns : up[d] = "accepted"} \cup UpSessions) < 2 * UpConcurrent

(* Mutant: a failed dial is not audited. *)
DialConnectorQuiet(c) ==
    /\ conn[c] = "dialing"
    /\ \/ /\ gateway = "serving" /\ UpSlotFree
          /\ conn' = [conn EXCEPT ![c] = "dialed"]
          /\ up' = [up EXCEPT ![c] = "accepted"]
       \/ /\ conn' = [conn EXCEPT ![c] = "leaving"]
          /\ UNCHANGED up
    /\ UNCHANGED <<issueVars, tableVars, uses, upTickets, upConsumed, events, envVars>>

(* dialConnector, and the upgrade in handleWebSSHConnect. *)
DialConnector(c) ==
    /\ conn[c] = "dialing"
    /\ \/ /\ gateway = "serving" /\ UpSlotFree
          /\ conn' = [conn EXCEPT ![c] = "dialed"]
          /\ up' = [up EXCEPT ![c] = "accepted"]
          /\ UNCHANGED events
       \/ /\ conn' = [conn EXCEPT ![c] = "leaving"]
          /\ Disconnected(c)
          /\ UNCHANGED up
    /\ UNCHANGED <<issueVars, tableVars, uses, upTickets, upConsumed, envVars>>

(* The Connector's hello; a write that fails may still have arrived. *)
SendHello(c) ==
    /\ conn[c] = "dialed"
    /\ \/ conn' = [conn EXCEPT ![c] = "greeted"] /\ UNCHANGED events
       \/ conn' = [conn EXCEPT ![c] = "leaving"] /\ Disconnected(c)
    /\ UNCHANGED <<issueVars, tableVars, uses, upVars, envVars>>

AuditConnected(c) ==
    /\ Goto(c, "greeted", "proxying")
    /\ \E t \in uses[c] : Audit(t, "connected")
    /\ UNCHANGED <<issueVars, tableVars, uses, upVars, envVars>>

(* A proxy ended (either side closed, sent something invalid or too much), *)
(* or the session was idle or open for too long; closeNow follows.         *)
ProxyResult(c) ==
    /\ Goto(c, "proxying", "finished")
    /\ UNCHANGED <<issueVars, tableVars, uses, upVars, events, envVars>>

(* Mutant: only the host key is looked at again. *)
ReauthorizeHost(c) ==
    /\ hostKey = {}
    /\ Goto(c, "proxying", "finished")
    /\ UNCHANGED <<issueVars, tableVars, uses, upVars, events, envVars>>

(* The authorization ticker. *)
Reauthorize(c) ==
    /\ \E t \in uses[c] : ~Authorized(t)
    /\ Goto(c, "proxying", "finished")
    /\ UNCHANGED <<issueVars, tableVars, uses, upVars, events, envVars>>

(* The broker's context was cancelled. *)
ContextDone(c) ==
    /\ gateway # "serving"
    /\ Goto(c, "proxying", "finished")
    /\ UNCHANGED <<issueVars, tableVars, uses, upVars, events, envVars>>

AuditDisconnected(c) ==
    /\ Goto(c, "finished", "leaving")
    /\ Disconnected(c)
    /\ UNCHANGED <<issueVars, tableVars, uses, upVars, envVars>>

(* unregisterSession, closeNow, the slot and wait.Done. *)
Leave(c) ==
    /\ \/ Goto(c, "leaving", "closed")
       \/ Goto(c, "refused", "rejected")
    /\ UNCHANGED <<issueVars, tableVars, uses, upVars, events, envVars>>

-----------------------------------------------------------------------------
(* handleWebSSHConnect and serveConnection of the Connector.               *)

GotoUp(c, from, to) == up[c] = from /\ up' = [up EXCEPT ![c] = to]

BeginSession(c) ==
    /\ GotoUp(c, "accepted", IF connector = "serving" THEN "begun" ELSE "closed")
    /\ UNCHANGED <<issueVars, tableVars, connVars, upTickets, upConsumed, events, envVars>>

(* The hello of the gateway, which repeats session ID and binding. *)
UpConsumeTicket(c) ==
    /\ up[c] = "begun" /\ conn[c] # "dialed"
    /\ \E t \in uses[c] :
          \/ /\ t \in Entries(Prune(upTickets))
             /\ upTickets' = With(upTickets, t, 0)
             /\ upConsumed' = With(upConsumed, t, clock + UpTTL)
             /\ up' = [up EXCEPT ![c] = "ticketed"]
          \/ /\ t \notin Entries(Prune(upTickets))
             /\ upTickets' = Prune(upTickets) /\ upConsumed' = Prune(upConsumed)
             /\ up' = [up EXCEPT ![c] = "closed"]
    /\ UNCHANGED <<issueVars, tableVars, connVars, events, envVars>>

UpNoHello(c) ==
    /\ GotoUp(c, "begun", "closed")
    /\ UNCHANGED <<issueVars, tableVars, connVars, upTickets, upConsumed, events, envVars>>

(* A concurrency slot; without one the consumed ticket is gone. *)
AcquireSession(c) ==
    /\ GotoUp(c, "ticketed",
              IF Cardinality({d \in Conns : up[d] \in {"opening", "open"}}) < UpConcurrent
              THEN "opening" ELSE "closed")
    /\ UNCHANGED <<issueVars, tableVars, connVars, upTickets, upConsumed, events, envVars>>

(* OpenPTY does not notice that the gateway has gone. *)
OpenPTY(c) ==
    /\ \/ GotoUp(c, "opening", "open")
       \/ GotoUp(c, "opening", "closed")
    /\ UNCHANGED <<issueVars, tableVars, connVars, upTickets, upConsumed, events, envVars>>

(* Client or shell gone, invalid input, timeouts, shutdown; pty.Close. *)
EndPTY(c) ==
    /\ GotoUp(c, "open", "closed")
    /\ UNCHANGED <<issueVars, tableVars, connVars, upTickets, upConsumed, events, envVars>>

-----------------------------------------------------------------------------
(* Background and environment.                                             *)

PruneGateway ==
    /\ gateway = "serving"
    /\ tickets' = Prune(tickets) /\ consumed' = Prune(consumed)
    /\ UNCHANGED <<issueVars, connVars, upVars, events, envVars>>

PruneConnector ==
    /\ connector = "serving"
    /\ upTickets' = Prune(upTickets) /\ upConsumed' = Prune(upConsumed)
    /\ UNCHANGED <<issueVars, tableVars, connVars, up, events, envVars>>

(* Mutant: Close forgets the tickets that are outstanding. *)
CloseGatewayOnly ==
    /\ gateway = "serving"
    /\ gateway' = "closed"
    /\ UNCHANGED <<issueVars, tableVars, connVars, upVars, events, lost, hostKey, connector,
                   clock>>

(* Broker.Close up to the wait: tickets are wiped, contexts cancelled,     *)
(* active sessions closed.                                                 *)
CloseGateway ==
    /\ gateway = "serving"
    /\ gateway' = "closed"
    /\ tickets' = [t \in Tickets |-> 0]
    /\ UNCHANGED <<issueVars, consumed, connVars, upVars, events, lost, hostKey, connector,
                   clock>>

(* webSSHManager.Close. *)
CloseConnector ==
    /\ connector = "serving"
    /\ connector' = "closed"
    /\ upTickets' = [t \in Tickets |-> 0]
    /\ UNCHANGED <<issueVars, tableVars, connVars, up, upConsumed, events, lost, hostKey,
                   gateway, clock>>

(* The session ends, the host is deleted, or its credential is replaced or *)
(* deleted: identifiers are never used again.                              *)
Revoke(t) ==
    /\ issue[t] # "idle" /\ t \notin lost
    /\ lost' = lost \cup {t}
    /\ UNCHANGED <<issueVars, tableVars, connVars, upVars, events, hostKey, gateway, connector,
                   clock>>

(* updateHost with another address drops the key, pinHostKey sets one. *)
ChangeHostKey ==
    /\ \/ hostKey' = {}
       \/ \E k \in Keys : hostKey' = {k}
    /\ UNCHANGED <<issueVars, tableVars, connVars, upVars, events, lost, gateway, connector,
                   clock>>

Tick ==
    /\ clock < MaxTime
    /\ clock' = clock + 1
    /\ UNCHANGED <<issueVars, tableVars, connVars, upVars, events, lost, hostKey, gateway,
                   connector>>

-----------------------------------------------------------------------------
Issue(t) ==
    \/ IssueAuthorize(t) \/ ReserveTicket(t) \/ ConnectorTicket(t) \/ StoreTicket(t)
    \/ ReleaseReservation(t)

(* Steps of a handler that some timeout bounds. *)
Serve(c) ==
    \/ RegisterSession(c) \/ NoHello(c) \/ AuthorizeSession(c) \/ DialConnector(c)
    \/ SendHello(c) \/ AuditConnected(c) \/ AuditDisconnected(c) \/ Leave(c)

UpServe(c) ==
    \/ BeginSession(c) \/ UpConsumeTicket(c) \/ UpNoHello(c) \/ AcquireSession(c)
    \/ OpenPTY(c)

Next ==
    \/ \E t \in Tickets : RequestTerminal(t) \/ Issue(t) \/ Revoke(t)
    \/ \E c \in Conns :
          \/ BeginHandler(c)
          \/ \E t \in Tickets, matches \in BOOLEAN : ConsumeTicket(c, t, matches)
          \/ Serve(c) \/ ProxyResult(c) \/ Reauthorize(c) \/ ContextDone(c)
          \/ UpServe(c) \/ EndPTY(c)
    \/ PruneGateway \/ PruneConnector
    \/ CloseGateway \/ CloseConnector
    \/ ChangeHostKey \/ Tick

Spec == Init /\ [][Next]_vars

(* What makes an open terminal end: a peer that closed its connection is   *)
(* noticed by the reader, a lost authorization by the ticker, a shutdown   *)
(* by the context.  The idle and the absolute timeout are not relied on.   *)
EndProxy(c) == (up[c] = "closed" /\ ProxyResult(c)) \/ Reauthorize(c) \/ ContextDone(c)

UpEnd(c) == (conn[c] \in {"finished", "closed"} \/ connector # "serving") /\ EndPTY(c)

Fairness ==
    \A c \in Conns : /\ WF_vars(Serve(c)) /\ WF_vars(UpServe(c))
                     /\ WF_vars(EndProxy(c)) /\ WF_vars(UpEnd(c))

FairSpec == Spec /\ Fairness

-----------------------------------------------------------------------------
(* Properties.                                                             *)

(* Every variable stays in its range. *)
WebSSHTypeOK ==
    /\ issue \in [Tickets -> {"idle", "hostRead", "authorized", "reserved", "accepted",
                              "stored", "refused", "issued", "failed"}]
    /\ keyOf \in [Tickets -> Keys]
    /\ upExpiry \in [Tickets -> Nat]
    /\ tickets \in [Tickets -> Nat] /\ consumed \in [Tickets -> Nat]
    /\ conn \in [Conns -> {"idle", "accepted", "registered", "ticketed", "dialing", "dialed",
                           "greeted", "proxying", "finished", "leaving", "closed", "refused",
                           "rejected"}]
    /\ uses \in [Conns -> SUBSET Tickets]
    /\ up \in [Conns -> {"none", "accepted", "begun", "ticketed", "opening", "open", "closed"}]
    /\ upTickets \in [Tickets -> Nat] /\ upConsumed \in [Tickets -> Nat]
    /\ events \in [Tickets -> Seq({"issued", "connected", "disconnected"})]
    /\ lost \subseteq Tickets
    /\ hostKey \subseteq Keys
    /\ gateway \in {"serving", "closed"} /\ connector \in {"serving", "closed"}
    /\ clock \in Nat

(* "A mismatch consumes the ticket" (docs/webssh-gateway.md), and so does  *)
(* every other use: however connections race, and whatever has expired or  *)
(* was forgotten, a ticket is accepted by one hello at most.               *)
TicketUsedOnce ==
    \A c1, c2 \in Conns : uses[c1] \cap uses[c2] # {} => c1 = c2

(* The tables stay within their limits: a reservation is worth its place,  *)
(* so that storing a ticket never fails for lack of room among the         *)
(* outstanding ones, and remembered tickets exceed their limit by no more  *)
(* than the tickets that were outstanding when it was reached.             *)
TicketsBounded ==
    LET outstanding == Cardinality(Entries(tickets))
        pending == Cardinality({t \in Tickets : issue[t] \in {"reserved", "accepted"}})
    IN  /\ outstanding + pending <= Max
        /\ outstanding + Cardinality(Entries(consumed)) < Max + MaxConsumed

(* The audit trail of a connection: issued before connected before         *)
(* disconnected, each once; a handler that accepted a ticket does not end  *)
(* without its "disconnected"; no PTY is open that was not announced.      *)
AuditTrail ==
    /\ \A t \in Tickets :
          events[t] \in {<<>>, <<"issued">>, <<"issued", "connected">>,
                        <<"issued", "disconnected">>,
                        <<"issued", "connected", "disconnected">>}
    /\ \A c \in Conns : \A t \in uses[c] :
          /\ conn[c] \in {"leaving", "closed"} => events[t][Len(events[t])] = "disconnected"
          /\ up[c] = "open" => conn[c] = "greeted" \/ Len(events[t]) > 1

(* A terminal whose session ended, or whose host or credential is gone, is *)
(* closed: the handler leaves and the PTY does not stay open.              *)
RevokedTerminalsClose ==
    \A c \in Conns : (conn[c] = "proxying" /\ uses[c] \cap lost # {})
                        ~> (conn[c] = "closed" /\ up[c] = "closed")

(* Close comes back, on either side: it waits until no handler is left,    *)
(* and none comes after it.  No ticket and, with the gateway, no PTY       *)
(* outlives it for good.                                                   *)
ShutdownCompletes ==
    /\ gateway = "closed"
         ~> [](/\ Handlers = {} /\ Entries(tickets) = {}
               /\ \A c \in Conns : up[c] \in {"none", "closed"})
    /\ connector = "closed" ~> [](UpSessions = {} /\ Entries(upTickets) = {})

(* docs/architecture.md, section 6.5: a ticket is bound to the version of  *)
(* the host key.  The Connector is only dialled while the host still has   *)
(* the key the ticket was requested with.                                  *)
TicketBoundToHostKey ==
    [][\A c \in Conns : Goto(c, "ticketed", "dialing")
        => \A t \in uses[c] : hostKey = {keyOf[t]}]_vars
=============================================================================
