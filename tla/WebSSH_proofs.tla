---------------------------- MODULE WebSSH_proofs ----------------------------
(***************************************************************************)
(* Proofs about WebSSH, for every finite set of tickets and connections,   *)
(* every limit and every lifetime.                                         *)
(***************************************************************************)
EXTENDS WebSSH, FiniteSetTheorems, SequenceTheorems, TLAPS

(* Sets of tickets are finite; their cardinalities are numbers. *)
LEMMA TicketSetsFinite ==
    ASSUME NEW S \in SUBSET Tickets
    PROVE  IsFiniteSet(S) /\ Cardinality(S) \in Nat
BY WebSSHConstants, FS_Subset, FS_CardinalityType

(* Pruning only removes entries. *)
LEMMA PruneEffect ==
    ASSUME NEW table \in [Tickets -> Nat], clock \in Nat
    PROVE  /\ Prune(table) \in [Tickets -> Nat]
           /\ Entries(Prune(table)) \subseteq Entries(table)
           /\ \A t \in Entries(Prune(table)) : Prune(table)[t] = table[t]
BY DEF Prune, Entries

(* Writing one entry prunes the others. *)
LEMMA WithEffect ==
    ASSUME NEW table \in [Tickets -> Nat], clock \in Nat, NEW t \in Tickets, NEW e \in Nat
    PROVE  /\ With(table, t, e) \in [Tickets -> Nat]
           /\ Entries(With(table, t, e))
                = IF e = 0 THEN Entries(Prune(table)) \ {t} ELSE Entries(Prune(table)) \cup {t}
BY DEF Prune, Entries, With

-----------------------------------------------------------------------------
(* The type invariant.                                                     *)

(* A pruned table is a table. *)
LEMMA TablesType ==
    ASSUME WebSSHTypeOK, NEW table \in {tickets, consumed, upTickets, upConsumed}
    PROVE  Prune(table) \in [Tickets -> Nat]
BY PruneEffect DEF WebSSHTypeOK

(* Every initial state has its type. *)
LEMMA WebSSHInitType == Init => WebSSHTypeOK
BY WebSSHConstants DEF Init, GatewayInit, ConnectorInit, WebSSHTypeOK

(* The steps of an Issue call (Broker.Issue) keep the types. *)
LEMMA IssueType ==
    ASSUME WebSSHTypeOK, NEW t \in Tickets, RequestTerminal(t) \/ Issue(t) \/ Revoke(t)
    PROVE  WebSSHTypeOK'
<1> USE WebSSHConstants DEF issueVars, tableVars, connVars, upVars, envVars
<1>1. clock \in Nat /\ clock + UpTTL \in Nat /\ clock + TTL \in Nat
    BY DEF WebSSHTypeOK
<1>2. CASE RequestTerminal(t)
    BY <1>2 DEF WebSSHTypeOK, RequestTerminal
<1>3. CASE IssueAuthorize(t)
    BY <1>3 DEF WebSSHTypeOK, IssueAuthorize
<1>4. CASE ReserveTicket(t)
    BY <1>4, TablesType DEF WebSSHTypeOK, ReserveTicket
<1>5. CASE ConnectorTicket(t)
    <2>1. With(upTickets, t, clock + UpTTL) \in [Tickets -> Nat]
        BY <1>1, WithEffect DEF WebSSHTypeOK
    <2>2. Prune(upTickets) \in [Tickets -> Nat] /\ Prune(upConsumed) \in [Tickets -> Nat]
        BY TablesType
    <2>3. /\ upTickets' \in [Tickets -> Nat] /\ upConsumed' \in [Tickets -> Nat]
          /\ upExpiry' \in [Tickets -> Nat]
        BY <1>1, <1>5, <2>1, <2>2 DEF WebSSHTypeOK, ConnectorTicket
    <2>4. issue' = [issue EXCEPT ![t] = "accepted"] \/ issue' = [issue EXCEPT ![t] = "refused"]
        BY <1>5 DEF ConnectorTicket
    <2> QED
        BY <1>5, <2>3, <2>4 DEF WebSSHTypeOK, ConnectorTicket
<1>6. CASE StoreTicket(t)
    <2>1. Min2(clock + TTL, upExpiry[t]) \in Nat
        BY <1>1 DEF Min2, WebSSHTypeOK
    <2>2. Append(events[t], "issued") \in Seq({"issued", "connected", "disconnected"})
        BY DEF WebSSHTypeOK
    <2>3. With(tickets, t, Min2(clock + TTL, upExpiry[t])) \in [Tickets -> Nat]
        BY <1>1, <2>1, WithEffect DEF WebSSHTypeOK
    <2>4. Prune(tickets) \in [Tickets -> Nat] /\ Prune(consumed) \in [Tickets -> Nat]
        BY TablesType
    <2>5. tickets' \in [Tickets -> Nat] /\ consumed' \in [Tickets -> Nat]
        BY <1>6, <2>3, <2>4 DEF WebSSHTypeOK, StoreTicket
    <2>6. events' \in [Tickets -> Seq({"issued", "connected", "disconnected"})]
        BY <1>6, <2>2 DEF WebSSHTypeOK, StoreTicket, Audit
    <2>7. issue' = [issue EXCEPT ![t] = "stored"] \/ issue' = [issue EXCEPT ![t] = "refused"]
        BY <1>6 DEF StoreTicket
    <2> QED
        BY <1>6, <2>5, <2>6, <2>7 DEF WebSSHTypeOK, StoreTicket
<1>7. CASE ReleaseReservation(t)
    BY <1>7 DEF WebSSHTypeOK, ReleaseReservation
<1>8. CASE Revoke(t)
    BY <1>8 DEF WebSSHTypeOK, Revoke
<1> QED
    BY <1>2, <1>3, <1>4, <1>5, <1>6, <1>7, <1>8 DEF Issue

(* consumeTicket keeps the types. *)
LEMMA ConsumeType ==
    ASSUME WebSSHTypeOK, NEW c \in Conns, NEW t \in Tickets, NEW matches \in BOOLEAN,
           ConsumeTicket(c, t, matches)
    PROVE  WebSSHTypeOK'
<1>1. 0 \in Nat /\ RememberUntil \in Nat
    BY WebSSHConstants DEF WebSSHTypeOK, RememberUntil
<1>2. /\ With(tickets, t, 0) \in [Tickets -> Nat]
      /\ With(consumed, t, RememberUntil) \in [Tickets -> Nat]
    BY <1>1, WithEffect DEF WebSSHTypeOK
<1>3. Prune(tickets) \in [Tickets -> Nat] /\ Prune(consumed) \in [Tickets -> Nat]
    BY TablesType
<1>4. tickets' \in [Tickets -> Nat] /\ consumed' \in [Tickets -> Nat]
    BY <1>2, <1>3 DEF ConsumeTicket
<1>5. uses' \in [Conns -> SUBSET Tickets]
    <2>1. uses' = [uses EXCEPT ![c] = {t}] \/ uses' = uses
        BY DEF ConsumeTicket
    <2>2. uses \in [Conns -> SUBSET Tickets] /\ {t} \in SUBSET Tickets
        BY DEF WebSSHTypeOK
    <2> QED
        BY <2>1, <2>2
<1>6. conn' = [conn EXCEPT ![c] = "ticketed"] \/ conn' = [conn EXCEPT ![c] = "refused"]
    BY DEF ConsumeTicket
<1> QED
    BY <1>4, <1>5, <1>6 DEF WebSSHTypeOK, ConsumeTicket, issueVars, upVars, envVars

(* An audited event is appended to one trail. *)
LEMMA AuditType ==
    ASSUME WebSSHTypeOK, NEW t \in Tickets, NEW e \in {"issued", "connected", "disconnected"},
           Audit(t, e)
    PROVE  events' \in [Tickets -> Seq({"issued", "connected", "disconnected"})]
<1>1. Append(events[t], e) \in Seq({"issued", "connected", "disconnected"})
    BY DEF WebSSHTypeOK
<1> QED
    BY <1>1 DEF WebSSHTypeOK, Audit

(* The steps of the handler of a browser connection keep the types. *)
LEMMA ServeType ==
    ASSUME WebSSHTypeOK, NEW c \in Conns,
           BeginHandler(c) \/ Serve(c) \/ ProxyResult(c) \/ Reauthorize(c) \/ ContextDone(c)
    PROVE  WebSSHTypeOK'
<1>1. Disconnected(c) => events' \in [Tickets -> Seq({"issued", "connected", "disconnected"})]
    BY AuditType DEF Disconnected, WebSSHTypeOK
<1>2. (\E t \in uses[c] : Audit(t, "connected"))
         => events' \in [Tickets -> Seq({"issued", "connected", "disconnected"})]
    BY AuditType DEF WebSSHTypeOK
<1> USE DEF issueVars, tableVars, connVars, upVars, envVars, Goto
<1>3. CASE BeginHandler(c) \/ RegisterSession(c) \/ NoHello(c) \/ ProxyResult(c)
           \/ Reauthorize(c) \/ ContextDone(c) \/ Leave(c)
    BY <1>3 DEF WebSSHTypeOK, BeginHandler, RegisterSession, NoHello, ProxyResult, Reauthorize,
                ContextDone, Leave
<1>4. CASE AuthorizeSession(c) \/ SendHello(c) \/ AuditDisconnected(c)
    BY <1>1, <1>4 DEF WebSSHTypeOK, AuthorizeSession, SendHello, AuditDisconnected
<1>5. CASE DialConnector(c)
    BY <1>1, <1>5 DEF WebSSHTypeOK, DialConnector
<1>6. CASE AuditConnected(c)
    BY <1>2, <1>6 DEF WebSSHTypeOK, AuditConnected
<1> QED
    BY <1>3, <1>4, <1>5, <1>6 DEF Serve

(* The steps of the Connector's handler keep the types. *)
LEMMA UpType ==
    ASSUME WebSSHTypeOK, NEW c \in Conns, UpServe(c) \/ EndPTY(c)
    PROVE  WebSSHTypeOK'
<1> USE DEF issueVars, tableVars, connVars, envVars, GotoUp
<1>1. clock \in Nat /\ clock + UpTTL \in Nat
    BY WebSSHConstants DEF WebSSHTypeOK
<1>2. CASE UpConsumeTicket(c)
    <2>2. Prune(upTickets) \in [Tickets -> Nat] /\ Prune(upConsumed) \in [Tickets -> Nat]
        BY TablesType
    <2>3. \A d \in Tickets : /\ With(upTickets, d, 0) \in [Tickets -> Nat]
                             /\ With(upConsumed, d, clock + UpTTL) \in [Tickets -> Nat]
        BY <1>1, WithEffect DEF WebSSHTypeOK
    <2>4. upTickets' \in [Tickets -> Nat] /\ upConsumed' \in [Tickets -> Nat]
        BY <1>2, <2>2, <2>3 DEF WebSSHTypeOK, UpConsumeTicket
    <2>5. up' = [up EXCEPT ![c] = "ticketed"] \/ up' = [up EXCEPT ![c] = "closed"]
        BY <1>2 DEF UpConsumeTicket
    <2> QED
        BY <1>2, <2>4, <2>5 DEF WebSSHTypeOK, UpConsumeTicket
<1>3. CASE BeginSession(c) \/ UpNoHello(c) \/ AcquireSession(c) \/ OpenPTY(c) \/ EndPTY(c)
    BY <1>3 DEF WebSSHTypeOK, BeginSession, UpNoHello, AcquireSession, OpenPTY, EndPTY
<1> QED
    BY <1>2, <1>3 DEF UpServe

(* Prune loops, shutdown and what the rest of the system does keep the     *)
(* types.                                                                  *)
LEMMA EnvironmentType ==
    ASSUME WebSSHTypeOK,
           PruneGateway \/ PruneConnector \/ CloseGateway \/ CloseConnector \/ ChangeHostKey
           \/ Tick
    PROVE  WebSSHTypeOK'
<1> USE DEF issueVars, tableVars, connVars, upVars, envVars
<1>1. CASE PruneGateway \/ PruneConnector
    BY <1>1, TablesType DEF WebSSHTypeOK, PruneGateway, PruneConnector
<1>2. CASE CloseGateway \/ CloseConnector
    BY <1>2 DEF WebSSHTypeOK, CloseGateway, CloseConnector
<1>3. CASE ChangeHostKey
    BY <1>3 DEF WebSSHTypeOK, ChangeHostKey
<1>4. CASE Tick
    BY <1>4 DEF WebSSHTypeOK, Tick
<1> QED
    BY <1>1, <1>2, <1>3, <1>4

(* No step leaves the types. *)
LEMMA WebSSHNextType == WebSSHTypeOK /\ [Next]_vars => WebSSHTypeOK'
<1> SUFFICES ASSUME WebSSHTypeOK, [Next]_vars PROVE WebSSHTypeOK'
    OBVIOUS
<1>1. CASE UNCHANGED vars
    BY <1>1 DEF vars, WebSSHTypeOK, issueVars, tableVars, connVars, upVars, envVars
<1>2. ASSUME NEW t \in Tickets, RequestTerminal(t) \/ Issue(t) \/ Revoke(t)
      PROVE  WebSSHTypeOK'
    BY <1>2, IssueType
<1>3. ASSUME NEW c \in Conns, NEW t \in Tickets, NEW matches \in BOOLEAN,
             ConsumeTicket(c, t, matches)
      PROVE  WebSSHTypeOK'
    BY <1>3, ConsumeType
<1>4. ASSUME NEW c \in Conns,
             BeginHandler(c) \/ Serve(c) \/ ProxyResult(c) \/ Reauthorize(c) \/ ContextDone(c)
      PROVE  WebSSHTypeOK'
    BY <1>4, ServeType
<1>5. ASSUME NEW c \in Conns, UpServe(c) \/ EndPTY(c)
      PROVE  WebSSHTypeOK'
    BY <1>5, UpType
<1> QED
    BY <1>1, <1>2, <1>3, <1>4, <1>5, EnvironmentType DEF Next

(* WebSSHTypeOK holds in every reachable state. *)
THEOREM WebSSHTypeCorrect == Spec => []WebSSHTypeOK
<1> QED
    BY WebSSHInitType, WebSSHNextType, PTL DEF Spec

-----------------------------------------------------------------------------
(* A ticket is used once (TicketUsedOnce).  The reason is that a ticket    *)
(* that is in the gateway's table was not accepted before, and one that    *)
(* was never stored was never accepted.                                    *)

Unused(t) == \A c \in Conns : t \notin uses[c]

FreshInv ==
    \A t \in Tickets :
       /\ issue[t] \notin {"stored", "issued"} => tickets[t] = 0 /\ Unused(t)
       /\ tickets[t] # 0 => Unused(t)

UseInv == WebSSHTypeOK /\ FreshInv /\ TicketUsedOnce

(* A step that accepts no ticket and adds no entry, and in which no ticket *)
(* loses its place among the stored ones, preserves UseInv.                *)
LEMMA NothingUsed ==
    ASSUME FreshInv, TicketUsedOnce, UNCHANGED uses,
           \A t \in Tickets : /\ tickets'[t] # 0 => tickets[t] # 0
                              /\ issue[t] \in {"stored", "issued"}
                                    => issue'[t] \in {"stored", "issued"}
    PROVE  FreshInv' /\ TicketUsedOnce'
BY DEF FreshInv, TicketUsedOnce, Unused

(* The tables only lose entries when they are pruned. *)
LEMMA PruneShrinks ==
    ASSUME WebSSHTypeOK, NEW t \in Tickets, Prune(tickets)[t] # 0
    PROVE  tickets[t] # 0
BY DEF Prune, WebSSHTypeOK

(* Broker.Issue stores a ticket under a value nobody has used. *)
LEMMA IssueUses ==
    ASSUME UseInv, NEW t \in Tickets, RequestTerminal(t) \/ Issue(t) \/ Revoke(t)
    PROVE  FreshInv' /\ TicketUsedOnce'
<1> USE DEF UseInv, issueVars, tableVars, connVars, upVars, envVars
<1>0. issue \in [Tickets -> {"idle", "hostRead", "authorized", "reserved", "accepted",
                             "stored", "refused", "issued", "failed"}]
    BY DEF WebSSHTypeOK
<1>1. CASE RequestTerminal(t) \/ IssueAuthorize(t) \/ Revoke(t) \/ ReleaseReservation(t)
    BY <1>0, <1>1, NothingUsed
       DEF RequestTerminal, IssueAuthorize, Revoke, ReleaseReservation
<1>2. CASE ReserveTicket(t)
    BY <1>0, <1>2, NothingUsed, PruneShrinks DEF ReserveTicket
<1>3. CASE ConnectorTicket(t)
    <2>1. \A d \in Tickets : issue'[d] = issue[d] \/ issue[d] = "reserved"
        BY <1>0, <1>3 DEF ConnectorTicket
    <2>2. UNCHANGED <<tickets, uses>>
        BY <1>3 DEF ConnectorTicket
    <2> QED
        BY <2>1, <2>2, NothingUsed
<1>4. CASE StoreTicket(t)
    <2>1. CASE tickets' = With(tickets, t, Min2(clock + TTL, upExpiry[t]))
               /\ issue' = [issue EXCEPT ![t] = "stored"]
        <3>1. /\ \A d \in Tickets \ {t} : (tickets'[d] # 0 => tickets[d] # 0)
                                          /\ issue'[d] = issue[d]
              /\ issue'[t] = "stored" /\ Unused(t) /\ UNCHANGED uses
            BY <1>0, <1>4, <2>1, PruneShrinks
               DEF StoreTicket, With, Prune, FreshInv, WebSSHTypeOK
        <3>2. \A d \in Tickets : Unused(d)' <=> Unused(d)
            BY <3>1 DEF Unused
        <3> QED
            BY <3>1, <3>2 DEF FreshInv, TicketUsedOnce
    <2>2. CASE (UNCHANGED tickets \/ tickets' = Prune(tickets))
               /\ issue' = [issue EXCEPT ![t] = "refused"]
        BY <1>0, <1>4, <2>2, NothingUsed, PruneShrinks DEF StoreTicket
    <2> QED
        BY <1>4, <2>1, <2>2 DEF StoreTicket
<1> QED
    BY <1>1, <1>2, <1>3, <1>4 DEF Issue

(* consumeTicket takes a ticket out of its table when it accepts it. *)
LEMMA ConsumeUses ==
    ASSUME UseInv, NEW c \in Conns, NEW t \in Tickets, NEW matches \in BOOLEAN,
           ConsumeTicket(c, t, matches)
    PROVE  FreshInv' /\ TicketUsedOnce'
<1> USE DEF UseInv, issueVars
<1>1. CASE t \in Entries(Prune(tickets))
    <2>1. /\ uses' = [uses EXCEPT ![c] = {t}]
          /\ tickets'[t] = 0 /\ UNCHANGED issue /\ issue[t] = "issued"
          /\ \A d \in Tickets : tickets'[d] # 0 => tickets[d] # 0
        BY <1>1, PruneShrinks DEF ConsumeTicket, With, Prune, WebSSHTypeOK
    <2>2. Unused(t)
        BY <1>1, PruneShrinks DEF Entries, FreshInv
    <2>3. uses \in [Conns -> SUBSET Tickets]
        BY DEF WebSSHTypeOK
    <2>4. \A d \in Tickets \ {t} : Unused(d) => Unused(d)'
        BY <2>1, <2>3 DEF Unused
    <2>5. FreshInv'
        BY <2>1, <2>4 DEF FreshInv
    <2>6. TicketUsedOnce'
        BY <2>1, <2>2, <2>3 DEF TicketUsedOnce, Unused
    <2> QED
        BY <2>5, <2>6
<1>2. CASE t \notin Entries(Prune(tickets))
    BY <1>2, NothingUsed, PruneShrinks DEF ConsumeTicket
<1> QED
    BY <1>1, <1>2

(* UseInv is inductive. *)
LEMMA UseInductive == UseInv /\ [Next]_vars => UseInv'
<1> SUFFICES ASSUME UseInv, [Next]_vars PROVE FreshInv' /\ TicketUsedOnce'
    BY WebSSHNextType DEF UseInv
<1> USE DEF UseInv, issueVars, tableVars, connVars, upVars, envVars
<1>1. CASE UNCHANGED vars
    BY <1>1, NothingUsed DEF vars
<1>2. ASSUME NEW t \in Tickets, RequestTerminal(t) \/ Issue(t) \/ Revoke(t)
      PROVE  FreshInv' /\ TicketUsedOnce'
    BY <1>2, IssueUses
<1>3. ASSUME NEW c \in Conns, NEW t \in Tickets, NEW matches \in BOOLEAN,
             ConsumeTicket(c, t, matches)
      PROVE  FreshInv' /\ TicketUsedOnce'
    BY <1>3, ConsumeUses
<1>4. ASSUME NEW c \in Conns,
             BeginHandler(c) \/ Serve(c) \/ ProxyResult(c) \/ Reauthorize(c) \/ ContextDone(c)
             \/ UpServe(c) \/ EndPTY(c)
      PROVE  UNCHANGED <<issue, tickets, consumed, uses>>
    BY <1>4 DEF BeginHandler, Serve, RegisterSession, NoHello, AuthorizeSession, DialConnector,
                SendHello, AuditConnected, AuditDisconnected, Leave, ProxyResult, Reauthorize,
                ContextDone, UpServe, BeginSession, UpConsumeTicket, UpNoHello, AcquireSession,
                OpenPTY, EndPTY
<1>5. CASE PruneConnector \/ CloseConnector \/ ChangeHostKey \/ Tick
    BY <1>5, NothingUsed DEF PruneConnector, CloseConnector, ChangeHostKey, Tick
<1>6. CASE PruneGateway
    BY <1>6, NothingUsed, PruneShrinks DEF PruneGateway
<1>7. CASE CloseGateway
    BY <1>7, NothingUsed DEF CloseGateway
<1> QED
    BY <1>1, <1>2, <1>3, <1>4, <1>5, <1>6, <1>7, NothingUsed DEF Next

(* TicketUsedOnce: whatever connections race, expire or are pruned, at     *)
(* most one hello is accepted with a ticket (Broker.consumeTicket).        *)
THEOREM TicketSingleUse == Spec => []TicketUsedOnce
<1>1. Init => UseInv
    BY WebSSHInitType DEF Init, GatewayInit, ConnectorInit, UseInv, FreshInv, TicketUsedOnce, Unused
<1> QED
    BY <1>1, UseInductive, PTL DEF Spec, UseInv

-----------------------------------------------------------------------------
(* The limits of the gateway (TicketsBounded), by counting.                *)

Pending == {t \in Tickets : issue[t] \in {"reserved", "accepted"}}

(* A subset of tickets has no more members than the set. *)
LEMMA TicketsSubset ==
    ASSUME NEW S \in SUBSET Tickets, NEW R \in SUBSET S
    PROVE  Cardinality(R) <= Cardinality(S)
BY WebSSHConstants, FS_Subset

(* A ticket adds one to a set of tickets, or nothing. *)
LEMMA OneMoreTicket ==
    ASSUME NEW S \in SUBSET Tickets, NEW t \in Tickets
    PROVE  Cardinality(S \cup {t}) <= Cardinality(S) + 1
<1>0. IsFiniteSet(S) /\ Cardinality(S) \in Nat
    BY TicketSetsFinite
<1>1. CASE t \in S
    <2>1. Cardinality(S \cup {t}) = Cardinality(S)
        <3>1. S \cup {t} = S
            BY <1>1
        <3> QED
            BY <3>1, Zenon
    <2>2. Cardinality(S) <= Cardinality(S) + 1
        BY <1>0
    <2> QED
        BY <2>1, <2>2
<1>2. CASE t \notin S
    <2>1. Cardinality(S \cup {t}) = Cardinality(S) + 1
        BY <1>0, <1>2, FS_AddElement
    <2> QED
        BY <1>0, <2>1
<1> QED
    BY <1>1, <1>2

(* TicketsBounded with its counts named. *)
LEMMA BoundedCounts ==
    TicketsBounded <=> /\ Cardinality(Entries(tickets)) + Cardinality(Pending) <= Max
                       /\ Cardinality(Entries(tickets)) + Cardinality(Entries(consumed))
                            < Max + MaxConsumed
BY DEF TicketsBounded, Pending

(* A step that adds neither an entry nor a reservation stays within the    *)
(* limits.                                                                 *)
LEMMA BoundedShrinks ==
    ASSUME TicketsBounded,
           Entries(tickets') \subseteq Entries(tickets),
           Entries(consumed') \subseteq Entries(consumed),
           Pending' \subseteq Pending
    PROVE  TicketsBounded'
<1>1. /\ Entries(tickets) \in SUBSET Tickets /\ Entries(consumed) \in SUBSET Tickets
      /\ Pending \in SUBSET Tickets
      /\ Entries(tickets') \in SUBSET Tickets /\ Entries(consumed') \in SUBSET Tickets
      /\ Pending' \in SUBSET Tickets
    BY DEF Entries, Pending
<1>2. /\ Cardinality(Entries(tickets')) <= Cardinality(Entries(tickets))
      /\ Cardinality(Entries(consumed')) <= Cardinality(Entries(consumed))
      /\ Cardinality(Pending') <= Cardinality(Pending)
    BY <1>1, TicketsSubset
<1>3. /\ Cardinality(Entries(tickets)) \in Nat /\ Cardinality(Entries(consumed)) \in Nat
      /\ Cardinality(Pending) \in Nat /\ Cardinality(Entries(tickets')) \in Nat
      /\ Cardinality(Entries(consumed')) \in Nat /\ Cardinality(Pending') \in Nat
    BY <1>1, TicketSetsFinite
<1>4. Entries(tickets)' = Entries(tickets') /\ Entries(consumed)' = Entries(consumed')
    BY DEF Entries
<1> QED
    BY <1>2, <1>3, <1>4, BoundedCounts, WebSSHConstants DEF TicketsBounded, Pending

(* reserveTicket counts the calls in progress, so that each of them still  *)
(* finds its place.                                                        *)
LEMMA ReserveBounded ==
    ASSUME WebSSHTypeOK, TicketsBounded, NEW t \in Tickets, ReserveTicket(t)
    PROVE  TicketsBounded'
<1>1. /\ Entries(tickets') \subseteq Entries(tickets)
      /\ Entries(consumed') \subseteq Entries(consumed)
    BY PruneEffect DEF ReserveTicket, WebSSHTypeOK
<1>2. CASE issue' = [issue EXCEPT ![t] = "failed"]
    <2>1. Pending' \subseteq Pending
        BY <1>2 DEF Pending, WebSSHTypeOK
    <2> QED
        BY <1>1, <2>1, BoundedShrinks
<1>3. CASE /\ issue' = [issue EXCEPT ![t] = "reserved"]
           /\ Cardinality(Entries(Prune(tickets))) + Cardinality(Issuing) < Max
    <2>1. Pending' = Pending \cup {t} /\ t \notin Pending /\ Pending \subseteq Issuing
        BY <1>3 DEF ReserveTicket, Pending, Issuing, WebSSHTypeOK
    <2>2. Pending \in SUBSET Tickets /\ Issuing \in SUBSET Tickets
        BY DEF Pending, Issuing
    <2>3. Cardinality(Pending') = Cardinality(Pending) + 1
        BY <2>1, <2>2, TicketSetsFinite, FS_AddElement
    <2>4. Cardinality(Pending) <= Cardinality(Issuing)
        BY <2>1, <2>2, TicketsSubset
    <2>5. /\ Entries(tickets) \in SUBSET Tickets /\ Entries(tickets') \in SUBSET Tickets
          /\ Entries(consumed) \in SUBSET Tickets /\ Entries(consumed') \in SUBSET Tickets
        BY DEF Entries
    <2>6. /\ Cardinality(Entries(tickets')) <= Cardinality(Entries(tickets))
          /\ Cardinality(Entries(consumed')) <= Cardinality(Entries(consumed))
        BY <1>1, <2>5, TicketsSubset
    <2>7. /\ Cardinality(Entries(tickets')) \in Nat /\ Cardinality(Entries(tickets)) \in Nat
          /\ Cardinality(Entries(consumed')) \in Nat /\ Cardinality(Entries(consumed)) \in Nat
          /\ Cardinality(Pending) \in Nat /\ Cardinality(Issuing) \in Nat
        BY <2>2, <2>5, TicketSetsFinite
    <2>8. Cardinality(Entries(tickets')) + Cardinality(Pending') <= Max
        BY <1>3, <2>3, <2>4, <2>7, WebSSHConstants DEF ReserveTicket
    <2>9. Cardinality(Entries(tickets')) + Cardinality(Entries(consumed')) < Max + MaxConsumed
        BY <2>6, <2>7, BoundedCounts, WebSSHConstants
    <2> QED
        BY <2>8, <2>9 DEF TicketsBounded, Pending, Entries
<1> QED
    BY <1>2, <1>3 DEF ReserveTicket

(* storeTicket turns a reservation into an entry. *)
LEMMA StoreBounded ==
    ASSUME WebSSHTypeOK, TicketsBounded, NEW t \in Tickets, StoreTicket(t)
    PROVE  TicketsBounded'
<1>1. t \in Pending /\ Pending' = Pending \ {t}
    BY DEF StoreTicket, Pending, WebSSHTypeOK
<1>2. CASE UNCHANGED tableVars
    BY <1>1, <1>2, BoundedShrinks DEF tableVars
<1>3. CASE tickets' = Prune(tickets) /\ consumed' = Prune(consumed)
    BY <1>1, <1>3, PruneEffect, BoundedShrinks DEF WebSSHTypeOK
<1>4. CASE /\ HasRoom
           /\ tickets' = With(tickets, t, Min2(clock + TTL, upExpiry[t]))
           /\ consumed' = Prune(consumed)
    <2>0. Min2(clock + TTL, upExpiry[t]) \in Nat
        BY WebSSHConstants DEF Min2, WebSSHTypeOK
    <2>1. Entries(tickets') \subseteq Entries(Prune(tickets)) \cup {t}
        <3> DEFINE e == Min2(clock + TTL, upExpiry[t])
        <3>1. clock \in Nat /\ tickets \in [Tickets -> Nat]
            BY DEF WebSSHTypeOK
        <3> HIDE DEF e
        <3>2. Entries(With(tickets, t, e))
                = IF e = 0 THEN Entries(Prune(tickets)) \ {t} ELSE Entries(Prune(tickets)) \cup {t}
            BY <2>0, <3>1, WithEffect DEF e
        <3>3. Entries(With(tickets, t, e)) \subseteq Entries(Prune(tickets)) \cup {t}
            BY <3>2
        <3> QED
            BY <1>4, <3>3 DEF e
    <2>2. Entries(Prune(tickets)) \subseteq Entries(tickets)
        BY PruneEffect DEF WebSSHTypeOK
    <2>3. /\ Entries(tickets) \in SUBSET Tickets /\ Entries(tickets') \in SUBSET Tickets
          /\ Entries(Prune(tickets)) \in SUBSET Tickets
          /\ Entries(Prune(tickets)) \cup {t} \in SUBSET Tickets
          /\ Entries(consumed') \in SUBSET Tickets /\ Pending \in SUBSET Tickets
        BY DEF Entries, Pending
    <2>4. /\ Cardinality(Entries(tickets)) \in Nat /\ Cardinality(Entries(tickets')) \in Nat
          /\ Cardinality(Entries(Prune(tickets))) \in Nat
          /\ Cardinality(Entries(consumed')) \in Nat /\ Cardinality(Pending) \in Nat
          /\ IsFiniteSet(Pending) /\ IsFiniteSet(Entries(Prune(tickets)))
        BY <2>3, TicketSetsFinite
    <2>5. Cardinality(Entries(Prune(tickets)) \cup {t}) <= Cardinality(Entries(Prune(tickets))) + 1
        BY <2>3, OneMoreTicket
    <2>6. /\ Cardinality(Entries(tickets')) <= Cardinality(Entries(Prune(tickets)) \cup {t})
          /\ Cardinality(Entries(Prune(tickets))) <= Cardinality(Entries(tickets))
        BY <2>1, <2>2, <2>3, TicketsSubset
    <2>7. Cardinality(Pending') = Cardinality(Pending) - 1
        BY <1>1, <2>4, FS_RemoveElement
    <2>8. Cardinality(Entries(Prune(tickets)) \cup {t}) \in Nat
        BY <2>3, TicketSetsFinite
    <2>9. Cardinality(Entries(tickets')) + Cardinality(Pending') <= Max
        BY <2>4, <2>5, <2>6, <2>7, <2>8, BoundedCounts, WebSSHConstants
    <2>10. Cardinality(Entries(tickets')) + Cardinality(Entries(consumed')) < Max + MaxConsumed
        BY <1>4, <2>4, <2>5, <2>6, <2>8, WebSSHConstants DEF HasRoom
    <2> QED
        BY <2>9, <2>10 DEF TicketsBounded, Pending, Entries
<1> QED
    BY <1>2, <1>3, <1>4 DEF StoreTicket

(* consumeTicket moves an entry from one table to the other. *)
LEMMA ConsumeBounded ==
    ASSUME WebSSHTypeOK, TicketsBounded, NEW c \in Conns, NEW t \in Tickets,
           NEW matches \in BOOLEAN, ConsumeTicket(c, t, matches)
    PROVE  TicketsBounded'
<1>1. Pending' = Pending
    BY DEF ConsumeTicket, Pending, issueVars
<1>2. CASE tickets' = Prune(tickets) /\ consumed' = Prune(consumed)
    BY <1>1, <1>2, PruneEffect, BoundedShrinks DEF WebSSHTypeOK
<1>3. CASE /\ t \in Entries(Prune(tickets))
           /\ tickets' = With(tickets, t, 0) /\ consumed' = With(consumed, t, RememberUntil)
    <2>0. 0 \in Nat /\ RememberUntil \in Nat
        BY WebSSHConstants DEF RememberUntil, WebSSHTypeOK
    <2>1. /\ Entries(tickets') \subseteq Entries(tickets) \ {t} /\ t \in Entries(tickets)
          /\ Entries(consumed') \subseteq Entries(consumed) \cup {t}
        <3>1. clock \in Nat /\ tickets \in [Tickets -> Nat] /\ consumed \in [Tickets -> Nat]
            BY DEF WebSSHTypeOK
        <3>2. /\ Entries(Prune(tickets)) \subseteq Entries(tickets)
              /\ Entries(Prune(consumed)) \subseteq Entries(consumed)
            BY <3>1, PruneEffect
        <3>3. Entries(With(tickets, t, 0)) = Entries(Prune(tickets)) \ {t}
            BY <2>0, <3>1, WithEffect
        <3>4. Entries(With(consumed, t, RememberUntil)) \subseteq Entries(Prune(consumed)) \cup {t}
            <4>1. Entries(With(consumed, t, RememberUntil))
                    = IF RememberUntil = 0 THEN Entries(Prune(consumed)) \ {t}
                                           ELSE Entries(Prune(consumed)) \cup {t}
                BY <2>0, <3>1, WithEffect
            <4> QED
                BY <4>1
        <3> QED
            BY <1>3, <3>2, <3>3, <3>4
    <2>2. /\ Entries(tickets) \in SUBSET Tickets /\ Entries(tickets') \in SUBSET Tickets
          /\ Entries(tickets) \ {t} \in SUBSET Tickets
          /\ Entries(consumed) \in SUBSET Tickets /\ Entries(consumed') \in SUBSET Tickets
          /\ Entries(consumed) \cup {t} \in SUBSET Tickets /\ Pending \in SUBSET Tickets
        BY DEF Entries, Pending
    <2>3. /\ Cardinality(Entries(tickets)) \in Nat /\ Cardinality(Entries(tickets')) \in Nat
          /\ Cardinality(Entries(tickets) \ {t}) \in Nat
          /\ Cardinality(Entries(consumed)) \in Nat /\ Cardinality(Entries(consumed')) \in Nat
          /\ Cardinality(Entries(consumed) \cup {t}) \in Nat /\ Cardinality(Pending) \in Nat
          /\ IsFiniteSet(Entries(tickets)) /\ IsFiniteSet(Entries(consumed))
        BY <2>2, TicketSetsFinite
    <2>4. Cardinality(Entries(tickets) \ {t}) = Cardinality(Entries(tickets)) - 1
        BY <2>1, <2>3, FS_RemoveElement
    <2>5. Cardinality(Entries(consumed) \cup {t}) <= Cardinality(Entries(consumed)) + 1
        BY <2>2, OneMoreTicket
    <2>6. /\ Cardinality(Entries(tickets')) <= Cardinality(Entries(tickets) \ {t})
          /\ Cardinality(Entries(consumed')) <= Cardinality(Entries(consumed) \cup {t})
        BY <2>1, <2>2, TicketsSubset
    <2>7. /\ Cardinality(Entries(tickets')) + Cardinality(Pending) <= Max
          /\ Cardinality(Entries(tickets')) + Cardinality(Entries(consumed'))
               < Max + MaxConsumed
        BY <2>3, <2>4, <2>5, <2>6, BoundedCounts, WebSSHConstants
    <2> QED
        BY <1>1, <2>7 DEF TicketsBounded, Pending, Entries
<1> QED
    BY <1>2, <1>3 DEF ConsumeTicket

(* TicketsBounded is inductive with the types. *)
LEMMA BoundedInductive ==
    WebSSHTypeOK /\ TicketsBounded /\ [Next]_vars => TicketsBounded'
<1> SUFFICES ASSUME WebSSHTypeOK, TicketsBounded, [Next]_vars PROVE TicketsBounded'
    OBVIOUS
<1> USE DEF issueVars, tableVars, connVars, upVars, envVars
<1>1. ASSUME UNCHANGED tableVars, Pending' \subseteq Pending PROVE TicketsBounded'
    BY <1>1, BoundedShrinks
<1>2. CASE UNCHANGED vars
    BY <1>1, <1>2 DEF vars, Pending
<1>3. ASSUME NEW t \in Tickets,
             RequestTerminal(t) \/ IssueAuthorize(t) \/ ReleaseReservation(t) \/ Revoke(t)
      PROVE  TicketsBounded'
    <2>1. UNCHANGED tableVars /\ Pending' \subseteq Pending
        BY <1>3 DEF RequestTerminal, IssueAuthorize, ReleaseReservation, Revoke, Pending,
                    WebSSHTypeOK
    <2> QED
        BY <1>1, <2>1
<1>4. ASSUME NEW t \in Tickets, ConnectorTicket(t) PROVE TicketsBounded'
    <2>1. UNCHANGED tableVars /\ t \in Pending
        BY <1>4 DEF ConnectorTicket, Pending
    <2>2. \A d \in Tickets : d # t => issue'[d] = issue[d]
        BY <1>4 DEF ConnectorTicket, WebSSHTypeOK
    <2> QED
        BY <1>1, <2>1, <2>2 DEF Pending
<1>5. ASSUME NEW t \in Tickets, ReserveTicket(t) \/ StoreTicket(t) PROVE TicketsBounded'
    BY <1>5, ReserveBounded, StoreBounded
<1>6. ASSUME NEW c \in Conns, NEW t \in Tickets, NEW matches \in BOOLEAN,
             ConsumeTicket(c, t, matches)
      PROVE  TicketsBounded'
    BY <1>6, ConsumeBounded
<1>7. ASSUME NEW c \in Conns,
             BeginHandler(c) \/ Serve(c) \/ ProxyResult(c) \/ Reauthorize(c) \/ ContextDone(c)
             \/ UpServe(c) \/ EndPTY(c)
      PROVE  TicketsBounded'
    <2>1. UNCHANGED <<issueVars, tableVars>>
        BY <1>7 DEF BeginHandler, Serve, RegisterSession, NoHello, AuthorizeSession,
                    DialConnector, SendHello, AuditConnected, AuditDisconnected, Leave,
                    ProxyResult, Reauthorize, ContextDone, UpServe, BeginSession,
                    UpConsumeTicket, UpNoHello, AcquireSession, OpenPTY, EndPTY
    <2> QED
        BY <1>1, <2>1 DEF Pending
<1>8. CASE PruneConnector \/ CloseConnector \/ ChangeHostKey \/ Tick
    BY <1>1, <1>8 DEF PruneConnector, CloseConnector, ChangeHostKey, Tick, Pending
<1>9. CASE PruneGateway
    BY <1>9, PruneEffect, BoundedShrinks DEF PruneGateway, Pending, WebSSHTypeOK
<1>10. CASE CloseGateway
    <2>1. Entries(tickets') = {} /\ UNCHANGED consumed /\ Pending' = Pending
        BY <1>10 DEF CloseGateway, Entries, Pending
    <2> QED
        BY <2>1, BoundedShrinks
<1> QED
    BY <1>2, <1>3, <1>4, <1>5, <1>6, <1>7, <1>8, <1>9, <1>10 DEF Next, Issue

(* TicketsBounded: the gateway's tables stay within their limits whatever  *)
(* Issue calls, connections and prune loops do at the same time            *)
(* (reserveTicket, storeTicket, consumeTicket).                            *)
THEOREM TicketLimits == Spec => []TicketsBounded
<1>1. Init => TicketsBounded
    <2>1. Init => Entries(tickets) = {} /\ Entries(consumed) = {} /\ Pending = {}
        BY DEF Init, GatewayInit, ConnectorInit, Entries, Pending
    <2> QED
        BY <2>1, FS_EmptySet, WebSSHConstants, BoundedCounts
<1> QED
    BY <1>1, WebSSHInitType, WebSSHNextType, BoundedInductive, PTL DEF Spec

-----------------------------------------------------------------------------
(* The audit trail (AuditTrail).  The place of a handler determines the    *)
(* trail of the ticket it accepted, and the Connector's handler only goes  *)
(* on after the gateway's hello.                                           *)

TrailsAt(place) ==
    CASE place \in {"ticketed", "dialing", "dialed", "greeted", "refused", "rejected"}
            -> {<<"issued">>}
      [] place \in {"proxying", "finished"} -> {<<"issued", "connected">>}
      [] place \in {"leaving", "closed"}
            -> {<<"issued", "disconnected">>, <<"issued", "connected", "disconnected">>}
      [] OTHER -> {}

LinkInv ==
    \A c \in Conns :
       /\ \A t1, t2 \in uses[c] : t1 = t2
       /\ up[c] # "none"
             => conn[c] \in {"dialed", "greeted", "proxying", "finished", "leaving", "closed"}
       /\ up[c] \in {"ticketed", "opening", "open"} => conn[c] # "dialed"

TrailInv ==
    /\ \A t \in Tickets :
          /\ issue[t] \notin {"stored", "issued"} => events[t] = <<>>
          /\ issue[t] \in {"stored", "issued"} /\ Unused(t) => events[t] = <<"issued">>
    /\ \A c \in Conns : \A t \in uses[c] : events[t] \in TrailsAt(conn[c])

AuditInv == UseInv /\ LinkInv /\ TrailInv

EventNames == {"issued", "connected", "disconnected"}

(* What makes a sequence the result of Append. *)
LEMMA AppendedIs ==
    ASSUME NEW s \in Seq(EventNames), NEW r \in Seq(EventNames), NEW e \in EventNames,
           Len(r) = Len(s) + 1, r[Len(r)] = e, \A i \in 1..Len(s) : r[i] = s[i]
    PROVE  Append(s, e) = r
BY AppendProperties, SeqEqual

(* A second event. *)
LEMMA AppendToOne ==
    ASSUME NEW a \in EventNames, NEW b \in EventNames
    PROVE  Append(<<a>>, b) = <<a, b>>
<1> DEFINE s == <<a>>
<1> DEFINE r == <<a, b>>
<1>1. s \in Seq(EventNames) /\ r \in Seq(EventNames)
    OBVIOUS
<1>2. Len(s) = 1 /\ Len(r) = 2
    OBVIOUS
<1>3. s[1] = a /\ r[1] = a /\ r[2] = b
    OBVIOUS
<1> HIDE DEF s, r
<1>4. Len(r) = Len(s) + 1 /\ r[Len(r)] = b /\ \A i \in 1..Len(s) : r[i] = s[i]
    BY <1>2, <1>3
<1>5. Append(s, b) = r
    BY <1>1, <1>4, AppendedIs, Zenon
<1> QED
    BY <1>5 DEF s, r

(* A third event. *)
LEMMA AppendToTwo ==
    ASSUME NEW a \in EventNames, NEW b \in EventNames, NEW c \in EventNames
    PROVE  Append(<<a, b>>, c) = <<a, b, c>>
<1> DEFINE s == <<a, b>>
<1> DEFINE r == <<a, b, c>>
<1>1. s \in Seq(EventNames) /\ r \in Seq(EventNames)
    OBVIOUS
<1>2. Len(s) = 2 /\ Len(r) = 3
    OBVIOUS
<1>3. s[1] = a /\ s[2] = b /\ r[1] = a /\ r[2] = b /\ r[3] = c
    OBVIOUS
<1> HIDE DEF s, r
<1>4. Len(r) = Len(s) + 1 /\ r[Len(r)] = c /\ \A i \in 1..Len(s) : r[i] = s[i]
    BY <1>2, <1>3
<1>5. Append(s, c) = r
    BY <1>1, <1>4, AppendedIs, Zenon
<1> QED
    BY <1>5 DEF s, r

(* The trails that the events of a connection make. *)
LEMMA TrailSteps ==
    /\ Append(<<>>, "issued") = <<"issued">>
    /\ Append(<<"issued">>, "connected") = <<"issued", "connected">>
    /\ Append(<<"issued">>, "disconnected") = <<"issued", "disconnected">>
    /\ Append(<<"issued", "connected">>, "disconnected")
          = <<"issued", "connected", "disconnected">>
<1>1. Append(<<>>, "issued") = <<"issued">>
    OBVIOUS
<1>2. /\ Append(<<"issued">>, "connected") = <<"issued", "connected">>
      /\ Append(<<"issued">>, "disconnected") = <<"issued", "disconnected">>
    BY AppendToOne DEF EventNames
<1>3. Append(<<"issued", "connected">>, "disconnected")
        = <<"issued", "connected", "disconnected">>
    BY AppendToTwo DEF EventNames
<1> QED
    BY <1>1, <1>2, <1>3

(* AuditInv implies AuditTrail. *)
LEMMA AuditInvTrail == AuditInv => AuditTrail
<1> SUFFICES ASSUME AuditInv PROVE AuditTrail
    OBVIOUS
<1>1. \A c \in Conns : \A t \in uses[c] : events[t] \in TrailsAt(conn[c])
    BY DEF AuditInv, TrailInv
<1>2. \A t \in Tickets :
          events[t] \in {<<>>, <<"issued">>, <<"issued", "connected">>,
                        <<"issued", "disconnected">>,
                        <<"issued", "connected", "disconnected">>}
    <2> TAKE t \in Tickets
    <2>1. CASE Unused(t)
        BY <2>1 DEF AuditInv, TrailInv
    <2>2. CASE ~Unused(t)
        BY <1>1, <2>2 DEF Unused, TrailsAt
    <2> QED
        BY <2>1, <2>2
<1>3. ASSUME NEW c \in Conns, NEW t \in uses[c], conn[c] \in {"leaving", "closed"}
      PROVE  events[t][Len(events[t])] = "disconnected"
    <2>1. events[t] \in {<<"issued", "disconnected">>,
                         <<"issued", "connected", "disconnected">>}
        BY <1>1, <1>3 DEF TrailsAt
    <2>2. CASE events[t] = <<"issued", "disconnected">>
        BY <2>2
    <2>3. CASE events[t] = <<"issued", "connected", "disconnected">>
        BY <2>3
    <2> QED
        BY <2>1, <2>2, <2>3
<1>4. ASSUME NEW c \in Conns, NEW t \in uses[c], up[c] = "open"
      PROVE  conn[c] = "greeted" \/ Len(events[t]) > 1
    <2>1. conn[c] \in {"greeted", "proxying", "finished", "leaving", "closed"}
        BY <1>4 DEF AuditInv, LinkInv
    <2>2. conn[c] = "greeted"
          \/ events[t] \in {<<"issued", "connected">>, <<"issued", "disconnected">>,
                            <<"issued", "connected", "disconnected">>}
        BY <1>1, <2>1 DEF TrailsAt
    <2> QED
        BY <2>2
<1> QED
    BY <1>2, <1>3, <1>4 DEF AuditTrail

(* A handler that moves on and audits what its new place calls for         *)
(* disturbs no other trail: its ticket is its own.                         *)
LEMMA HandlerTrail ==
    ASSUME AuditInv, NEW c \in Conns, NEW p, UNCHANGED <<issue, uses>>,
           conn' = [conn EXCEPT ![c] = p],
           \/ UNCHANGED events /\ TrailsAt(conn[c]) \subseteq TrailsAt(p)
           \/ \E t \in uses[c], e \in {"connected", "disconnected"} :
                 /\ Audit(t, e)
                 /\ \A trail \in TrailsAt(conn[c]) : Append(trail, e) \in TrailsAt(p)
    PROVE  TrailInv'
<1>0. /\ conn'[c] = p /\ \A d \in Conns \ {c} : conn'[d] = conn[d]
      /\ uses \in [Conns -> SUBSET Tickets] /\ DOMAIN events = Tickets
    BY DEF AuditInv, UseInv, WebSSHTypeOK
<1>1. \A t \in Tickets : Unused(t)' <=> Unused(t)
    BY DEF Unused
<1>2. CASE UNCHANGED events /\ TrailsAt(conn[c]) \subseteq TrailsAt(p)
    <2>1. \A d \in Conns : \A t \in uses[d] : events[t] \in TrailsAt(conn'[d])
        BY <1>0, <1>2 DEF AuditInv, TrailInv
    <2> QED
        BY <1>1, <1>2, <2>1 DEF AuditInv, TrailInv, TrailsAt
<1>3. ASSUME NEW t \in uses[c], NEW e \in {"connected", "disconnected"}, Audit(t, e),
             \A trail \in TrailsAt(conn[c]) : Append(trail, e) \in TrailsAt(p)
      PROVE  TrailInv'
    <2>1. /\ t \in Tickets /\ ~Unused(t) /\ issue[t] \in {"stored", "issued"}
          /\ events'[t] = Append(events[t], e)
          /\ \A d \in Tickets \ {t} : events'[d] = events[d]
        BY <1>0, <1>3 DEF Audit, Unused, AuditInv, UseInv, FreshInv
    <2>2. \A d \in Conns \ {c} : t \notin uses[d]
        BY <1>3 DEF AuditInv, UseInv, TicketUsedOnce
    <2>3. \A d \in Conns : \A u \in uses[d] : events'[u] \in TrailsAt(conn'[d])
        <3>1. ASSUME NEW d \in Conns \ {c}, NEW u \in uses[d]
              PROVE  events'[u] \in TrailsAt(conn'[d])
            <4>1. u \in Tickets \ {t}
                BY <1>0, <2>2
            <4> QED
                BY <1>0, <2>1, <4>1 DEF AuditInv, TrailInv
        <3>2. ASSUME NEW u \in uses[c] PROVE events'[u] \in TrailsAt(conn'[c])
            <4>1. u = t
                BY <1>3 DEF AuditInv, LinkInv
            <4>2. events[t] \in TrailsAt(conn[c])
                BY <1>3 DEF AuditInv, TrailInv
            <4> QED
                BY <1>0, <1>3, <2>1, <4>1, <4>2
        <3> QED
            BY <3>1, <3>2
    <2>4. \A d \in Tickets :
             /\ issue[d] \notin {"stored", "issued"} => events'[d] = <<>>
             /\ issue[d] \in {"stored", "issued"} /\ Unused(d) => events'[d] = <<"issued">>
        BY <2>1 DEF AuditInv, TrailInv
    <2> QED
        BY <1>1, <2>3, <2>4 DEF TrailInv, TrailsAt
<1> QED
    BY <1>2, <1>3

(* The two parts of TrailInv in the next state. *)
LEMMA TrailNext ==
    ASSUME \A t \in Tickets :
              /\ issue'[t] \notin {"stored", "issued"} => events'[t] = <<>>
              /\ issue'[t] \in {"stored", "issued"} /\ Unused(t)' => events'[t] = <<"issued">>,
           \A c \in Conns : \A t \in uses'[c] : events'[t] \in TrailsAt(conn'[c])
    PROVE  TrailInv'
BY DEF TrailInv, TrailsAt

Stored == {t \in Tickets : issue[t] \in {"stored", "issued"}}

(* A step that audits nothing and stores nothing. *)
LEMMA TrailUntouched ==
    ASSUME AuditInv, UNCHANGED <<conn, uses, events>>, Stored' = Stored
    PROVE  TrailInv'
<1>1. \A t \in Tickets : /\ issue'[t] \in {"stored", "issued"} => issue[t] \in {"stored", "issued"}
                         /\ issue[t] \in {"stored", "issued"} => issue'[t] \in {"stored", "issued"}
    BY DEF Stored
<1>2. \A t \in Tickets : Unused(t)' => Unused(t)
    BY DEF Unused
<1>3. \A t \in Tickets :
         /\ issue'[t] \notin {"stored", "issued"} => events'[t] = <<>>
         /\ issue'[t] \in {"stored", "issued"} /\ Unused(t)' => events'[t] = <<"issued">>
    BY <1>1, <1>2 DEF AuditInv, TrailInv
<1>4. \A c \in Conns : \A t \in uses'[c] : events'[t] \in TrailsAt(conn'[c])
    BY DEF AuditInv, TrailInv
<1> QED
    BY <1>3, <1>4, TrailNext

(* Issue starts the trail of a connection ID nobody has used. *)
LEMMA IssueTrail ==
    ASSUME AuditInv, NEW t \in Tickets, RequestTerminal(t) \/ Issue(t) \/ Revoke(t)
    PROVE  TrailInv' /\ LinkInv'
<1> USE DEF issueVars, connVars, upVars
<1>0. /\ issue \in [Tickets -> {"idle", "hostRead", "authorized", "reserved", "accepted",
                                "stored", "refused", "issued", "failed"}]
      /\ DOMAIN events = Tickets /\ uses \in [Conns -> SUBSET Tickets]
    BY DEF AuditInv, UseInv, WebSSHTypeOK
<1>1. UNCHANGED <<conn, uses, up>>
    BY DEF RequestTerminal, Issue, Revoke, IssueAuthorize, ReserveTicket, ConnectorTicket,
           StoreTicket, ReleaseReservation
<1>2. LinkInv'
    BY <1>1 DEF AuditInv, LinkInv
<1>3. \A d \in Tickets : Unused(d)' <=> Unused(d)
    BY <1>1 DEF Unused
<1>5. CASE RequestTerminal(t) \/ IssueAuthorize(t) \/ ReserveTicket(t) \/ Revoke(t)
           \/ ReleaseReservation(t)
    <2>1. /\ UNCHANGED events
          /\ Stored' = Stored
        BY <1>0, <1>5
           DEF Stored, RequestTerminal, IssueAuthorize, ReserveTicket, Revoke, ReleaseReservation
    <2> QED
        BY <1>1, <1>2, <2>1, TrailUntouched
<1>6. CASE ConnectorTicket(t)
    <2>1. issue' = [issue EXCEPT ![t] = "accepted"] \/ issue' = [issue EXCEPT ![t] = "refused"]
        BY <1>6 DEF ConnectorTicket
    <2>2. issue[t] = "reserved" /\ UNCHANGED events
        BY <1>6 DEF ConnectorTicket
    <2>3. Stored' = Stored
        BY <1>0, <2>1, <2>2 DEF Stored
    <2> QED
        BY <1>1, <1>2, <2>2, <2>3, TrailUntouched
<1>7. CASE StoreTicket(t)
    <2>1. CASE issue' = [issue EXCEPT ![t] = "refused"] /\ UNCHANGED events
        <3>1. issue[t] = "accepted"
            BY <1>7 DEF StoreTicket
        <3>2. Stored' = Stored
            BY <1>0, <2>1, <3>1 DEF Stored
        <3> QED
            BY <1>1, <1>2, <2>1, <3>2, TrailUntouched
    <2>2. CASE issue' = [issue EXCEPT ![t] = "stored"] /\ Audit(t, "issued")
        <3>1. /\ issue[t] = "accepted" /\ issue'[t] = "stored"
              /\ \A d \in Tickets \ {t} : issue'[d] = issue[d]
            BY <1>0, <1>7, <2>2 DEF StoreTicket
        <3>2. events[t] = <<>> /\ Unused(t)
            BY <3>1 DEF AuditInv, UseInv, FreshInv, TrailInv
        <3>3. /\ events'[t] = <<"issued">>
              /\ \A d \in Tickets \ {t} : events'[d] = events[d]
            BY <1>0, <2>2, <3>2, TrailSteps DEF Audit
        <3>4. \A c \in Conns : \A d \in uses[c] : events'[d] \in TrailsAt(conn[c])
            <4> TAKE c \in Conns
            <4> TAKE d \in uses[c]
            <4>1. d \in Tickets \ {t}
                BY <1>0, <3>2 DEF Unused
            <4> QED
                BY <3>3, <4>1 DEF AuditInv, TrailInv
        <3>5. \A d \in Tickets :
                 /\ issue'[d] \notin {"stored", "issued"} => events'[d] = <<>>
                 /\ issue'[d] \in {"stored", "issued"} /\ Unused(d) => events'[d] = <<"issued">>
            BY <3>1, <3>3 DEF AuditInv, TrailInv
        <3> QED
            <4>1. \A c \in Conns : \A d \in uses'[c] : events'[d] \in TrailsAt(conn'[c])
                BY <1>1, <3>4
            <4>2. \A d \in Tickets :
                     /\ issue'[d] \notin {"stored", "issued"} => events'[d] = <<>>
                     /\ issue'[d] \in {"stored", "issued"} /\ Unused(d)'
                           => events'[d] = <<"issued">>
                BY <1>3, <3>5
            <4> QED
                BY <1>2, <4>1, <4>2, TrailNext
    <2> QED
        BY <1>7, <2>1, <2>2 DEF StoreTicket
<1> QED
    BY <1>2, <1>5, <1>6, <1>7 DEF Issue

(* consumeTicket gives a connection a ticket with the trail "issued". *)
LEMMA ConsumeTrail ==
    ASSUME AuditInv, NEW c \in Conns, NEW t \in Tickets, NEW matches \in BOOLEAN,
           ConsumeTicket(c, t, matches)
    PROVE  TrailInv' /\ LinkInv'
<1> USE DEF issueVars, upVars
<1>0. uses \in [Conns -> SUBSET Tickets] /\ DOMAIN conn = Conns
    BY DEF AuditInv, UseInv, WebSSHTypeOK
<1>1. /\ conn[c] = "registered" /\ conn'[c] \in {"ticketed", "refused"}
      /\ \A d \in Conns \ {c} : conn'[d] = conn[d]
      /\ UNCHANGED <<issue, events, up>>
    BY <1>0 DEF ConsumeTicket
<1>2. uses[c] = {} /\ up[c] = "none"
    BY <1>1 DEF AuditInv, TrailInv, TrailsAt, LinkInv
<1>3. CASE t \in Entries(Prune(tickets))
    <2>1. /\ uses'[c] = {t} /\ issue[t] = "issued"
          /\ \A d \in Conns \ {c} : uses'[d] = uses[d]
        BY <1>0, <1>3 DEF ConsumeTicket
    <2>2. events[t] = <<"issued">>
        <3>1. tickets[t] # 0
            BY <1>3, PruneShrinks DEF Entries, AuditInv, UseInv
        <3>2. Unused(t)
            BY <3>1 DEF AuditInv, UseInv, FreshInv
        <3> QED
            BY <2>1, <3>2 DEF AuditInv, TrailInv
    <2>3. \A d \in Tickets : Unused(d)' => Unused(d)
        BY <1>2, <2>1 DEF Unused
    <2>4. \A d \in Conns : \A u \in uses'[d] : events[u] \in TrailsAt(conn'[d])
        <3>1. ASSUME NEW d \in Conns \ {c}, NEW u \in uses'[d]
              PROVE  events[u] \in TrailsAt(conn'[d])
            BY <1>1, <2>1 DEF AuditInv, TrailInv
        <3>2. events[t] \in TrailsAt(conn'[c])
            BY <1>1, <2>2 DEF TrailsAt
        <3> QED
            BY <2>1, <3>1, <3>2
    <2>5. TrailInv'
        BY <1>1, <2>3, <2>4 DEF AuditInv, TrailInv, TrailsAt
    <2>6. LinkInv'
        BY <1>1, <1>2, <2>1 DEF AuditInv, LinkInv
    <2> QED
        BY <2>5, <2>6
<1>4. CASE t \notin Entries(Prune(tickets))
    <2>1. UNCHANGED uses
        BY <1>4 DEF ConsumeTicket
    <2>2. \A d \in Tickets : Unused(d)' <=> Unused(d)
        BY <2>1 DEF Unused
    <2>3. \A d \in Conns : \A u \in uses[d] : events[u] \in TrailsAt(conn'[d])
        BY <1>1, <1>2 DEF AuditInv, TrailInv
    <2>4. TrailInv'
        BY <1>1, <2>1, <2>2, <2>3 DEF AuditInv, TrailInv, TrailsAt
    <2>5. LinkInv'
        BY <1>1, <1>2, <2>1 DEF AuditInv, LinkInv
    <2> QED
        BY <2>4, <2>5
<1> QED
    BY <1>3, <1>4

(* The trails of two places of a handler, before and after a step. *)
LEMMA PlaceTrails ==
    /\ \A p \in {"idle", "accepted", "registered"} : TrailsAt(p) = {}
    /\ \A p \in {"ticketed", "dialing", "dialed", "greeted", "refused", "rejected"} :
          /\ TrailsAt(p) = {<<"issued">>}
          /\ \A trail \in TrailsAt(p) : /\ Append(trail, "connected") \in TrailsAt("proxying")
                                        /\ Append(trail, "disconnected") \in TrailsAt("leaving")
    /\ TrailsAt("proxying") = TrailsAt("finished") /\ TrailsAt("leaving") = TrailsAt("closed")
    /\ \A trail \in TrailsAt("finished") : Append(trail, "disconnected") \in TrailsAt("leaving")
BY TrailSteps DEF TrailsAt

(* A handler audits "connected" and "disconnected" where its place calls   *)
(* for them, on every path out of serveSession.                            *)
LEMMA ServeTrail ==
    ASSUME AuditInv, NEW c \in Conns,
           BeginHandler(c) \/ Serve(c) \/ ProxyResult(c) \/ Reauthorize(c) \/ ContextDone(c)
    PROVE  TrailInv'
<1> USE DEF issueVars, Goto
<1>0. UNCHANGED <<issue, uses>>
    BY DEF BeginHandler, Serve, RegisterSession, NoHello, AuthorizeSession, DialConnector,
           SendHello, AuditConnected, AuditDisconnected, Leave, ProxyResult, Reauthorize,
           ContextDone, connVars
<1>1. ASSUME NEW p, conn' = [conn EXCEPT ![c] = p], UNCHANGED events,
             TrailsAt(conn[c]) \subseteq TrailsAt(p)
      PROVE  TrailInv'
    BY <1>0, <1>1, HandlerTrail
<1>2. ASSUME conn' = [conn EXCEPT ![c] = "leaving"], Disconnected(c),
             \A trail \in TrailsAt(conn[c]) : Append(trail, "disconnected") \in TrailsAt("leaving")
      PROVE  TrailInv'
    <2>1. \E t \in uses[c], e \in {"connected", "disconnected"} :
             /\ Audit(t, e)
             /\ \A trail \in TrailsAt(conn[c]) : Append(trail, e) \in TrailsAt("leaving")
        BY <1>2 DEF Disconnected
    <2> QED
        BY <1>0, <1>2, <2>1, HandlerTrail
<1>3. CASE BeginHandler(c) \/ RegisterSession(c) \/ NoHello(c)
    <2>1. TrailsAt(conn[c]) = {} /\ UNCHANGED events
          /\ \E p \in {"accepted", "registered", "rejected", "refused"} :
                conn' = [conn EXCEPT ![c] = p]
        BY <1>3, PlaceTrails DEF BeginHandler, RegisterSession, NoHello
    <2> QED
        BY <1>1, <2>1
<1>4. CASE ProxyResult(c) \/ Reauthorize(c) \/ ContextDone(c)
    <2>1. /\ conn[c] = "proxying" /\ conn' = [conn EXCEPT ![c] = "finished"]
          /\ UNCHANGED events
        BY <1>4 DEF ProxyResult, Reauthorize, ContextDone
    <2> QED
        BY <1>1, <2>1, PlaceTrails
<1>5. CASE Leave(c)
    <2>1. UNCHANGED events
        BY <1>5 DEF Leave
    <2>2. CASE Goto(c, "leaving", "closed")
        BY <1>1, <2>1, <2>2, PlaceTrails
    <2>3. CASE Goto(c, "refused", "rejected")
        <3>1. TrailsAt("refused") \subseteq TrailsAt("rejected")
            BY PlaceTrails
        <3> QED
            BY <1>1, <2>1, <2>3, <3>1
    <2> QED
        BY <1>5, <2>2, <2>3 DEF Leave
<1>6. CASE AuditConnected(c)
    <2>1. /\ conn' = [conn EXCEPT ![c] = "proxying"] /\ conn[c] = "greeted"
          /\ \E t \in uses[c] : Audit(t, "connected")
        BY <1>6 DEF AuditConnected
    <2>2. \A trail \in TrailsAt(conn[c]) : Append(trail, "connected") \in TrailsAt("proxying")
        BY <2>1, PlaceTrails
    <2>3. \E t \in uses[c], e \in {"connected", "disconnected"} :
             /\ Audit(t, e)
             /\ \A trail \in TrailsAt(conn[c]) : Append(trail, e) \in TrailsAt("proxying")
        BY <2>1, <2>2
    <2> QED
        BY <1>0, <2>1, <2>3, HandlerTrail
<1>7. CASE AuthorizeSession(c) \/ DialConnector(c) \/ SendHello(c) \/ AuditDisconnected(c)
    <2>1. CASE conn' = [conn EXCEPT ![c] = "leaving"] /\ Disconnected(c)
        <3>1. conn[c] \in {"ticketed", "dialing", "dialed", "finished"}
            BY <1>7 DEF AuthorizeSession, DialConnector, SendHello, AuditDisconnected
        <3>2. \A trail \in TrailsAt(conn[c]) :
                 Append(trail, "disconnected") \in TrailsAt("leaving")
            BY <3>1, PlaceTrails
        <3> QED
            BY <1>2, <2>1, <3>2
    <2>2. CASE /\ UNCHANGED events /\ conn[c] \in {"ticketed", "dialing", "dialed"}
               /\ \E p \in {"dialing", "dialed", "greeted"} : conn' = [conn EXCEPT ![c] = p]
        <3>1. \A p \in {"dialing", "dialed", "greeted"} : TrailsAt(conn[c]) \subseteq TrailsAt(p)
            BY <2>2, PlaceTrails
        <3> QED
            BY <1>1, <2>2, <3>1
    <2> QED
        BY <1>7, <2>1, <2>2 DEF AuthorizeSession, DialConnector, SendHello, AuditDisconnected
<1> QED
    BY <1>3, <1>4, <1>5, <1>6, <1>7 DEF Serve

(* Handlers of the two sides stay in step. *)
LEMMA ServeLink ==
    ASSUME AuditInv, NEW c \in Conns,
           BeginHandler(c) \/ Serve(c) \/ ProxyResult(c) \/ Reauthorize(c) \/ ContextDone(c)
           \/ UpServe(c) \/ EndPTY(c)
    PROVE  LinkInv'
<1> USE DEF connVars, upVars, Goto, GotoUp
<1>0. UNCHANGED uses /\ DOMAIN conn = Conns /\ DOMAIN up = Conns
    BY DEF AuditInv, UseInv, WebSSHTypeOK, BeginHandler, Serve, RegisterSession, NoHello,
           AuthorizeSession, DialConnector, SendHello, AuditConnected, AuditDisconnected, Leave,
           ProxyResult, Reauthorize, ContextDone, UpServe, BeginSession, UpConsumeTicket,
           UpNoHello, AcquireSession, OpenPTY, EndPTY
<1>1. CASE BeginHandler(c) \/ RegisterSession(c) \/ NoHello(c) \/ AuthorizeSession(c)
    BY <1>0, <1>1
       DEF AuditInv, LinkInv, BeginHandler, RegisterSession, NoHello, AuthorizeSession
<1>2. CASE DialConnector(c)
    BY <1>0, <1>2 DEF AuditInv, LinkInv, DialConnector
<1>3. CASE SendHello(c) \/ AuditConnected(c) \/ AuditDisconnected(c) \/ Leave(c)
    BY <1>0, <1>3 DEF AuditInv, LinkInv, SendHello, AuditConnected, AuditDisconnected, Leave
<1>4. CASE ProxyResult(c) \/ Reauthorize(c) \/ ContextDone(c)
    BY <1>0, <1>4 DEF AuditInv, LinkInv, ProxyResult, Reauthorize, ContextDone
<1>5. CASE UpServe(c) \/ EndPTY(c)
    <2>1. /\ UNCHANGED conn /\ up[c] # "none"
          /\ \A d \in Conns \ {c} : up'[d] = up[d]
          /\ up'[c] \in {"ticketed", "opening", "open"}
                => up[c] \in {"ticketed", "opening"} \/ conn[c] # "dialed"
        BY <1>0, <1>5 DEF UpServe, BeginSession, UpConsumeTicket, UpNoHello, AcquireSession,
                          OpenPTY, EndPTY
    <2> QED
        BY <1>0, <2>1 DEF AuditInv, LinkInv
<1> QED
    BY <1>1, <1>2, <1>3, <1>4, <1>5 DEF Serve

(* AuditInv is inductive. *)
LEMMA AuditInductive == AuditInv /\ [Next]_vars => AuditInv'
<1> SUFFICES ASSUME AuditInv, [Next]_vars PROVE TrailInv' /\ LinkInv'
    BY UseInductive DEF AuditInv
<1> USE DEF issueVars, tableVars, connVars, upVars, envVars
<1>1. ASSUME UNCHANGED <<conn, uses, up>> PROVE LinkInv'
    BY <1>1 DEF AuditInv, LinkInv
<1>2. ASSUME UNCHANGED <<issue, conn, uses, events>> PROVE TrailInv'
    BY <1>2, TrailUntouched DEF Stored
<1>3. CASE UNCHANGED vars
    BY <1>1, <1>2, <1>3 DEF vars
<1>4. ASSUME NEW t \in Tickets, RequestTerminal(t) \/ Issue(t) \/ Revoke(t)
      PROVE  TrailInv' /\ LinkInv'
    BY <1>4, IssueTrail
<1>5. ASSUME NEW c \in Conns, NEW t \in Tickets, NEW matches \in BOOLEAN,
             ConsumeTicket(c, t, matches)
      PROVE  TrailInv' /\ LinkInv'
    BY <1>5, ConsumeTrail
<1>6. ASSUME NEW c \in Conns,
             BeginHandler(c) \/ Serve(c) \/ ProxyResult(c) \/ Reauthorize(c) \/ ContextDone(c)
      PROVE  TrailInv' /\ LinkInv'
    BY <1>6, ServeTrail, ServeLink
<1>7. ASSUME NEW c \in Conns, UpServe(c) \/ EndPTY(c)
      PROVE  TrailInv' /\ LinkInv'
    <2>1. UNCHANGED <<issue, conn, uses, events>>
        BY <1>7 DEF UpServe, BeginSession, UpConsumeTicket, UpNoHello, AcquireSession, OpenPTY,
                    EndPTY
    <2> QED
        BY <1>2, <1>7, <2>1, ServeLink
<1>8. CASE PruneGateway \/ PruneConnector \/ CloseGateway \/ CloseConnector \/ ChangeHostKey
           \/ Tick
    BY <1>1, <1>2, <1>8
       DEF PruneGateway, PruneConnector, CloseGateway, CloseConnector, ChangeHostKey, Tick
<1> QED
    BY <1>3, <1>4, <1>5, <1>6, <1>7, <1>8 DEF Next

(* AuditTrail: on every path of serveSession the audit trail of a          *)
(* connection is complete and in order, whatever fails, expires or shuts   *)
(* down in between.                                                        *)
THEOREM AuditTrailComplete == Spec => []AuditTrail
<1>1. Init => AuditInv
    <2>1. Init => UseInv
        BY WebSSHInitType DEF Init, GatewayInit, ConnectorInit, UseInv, FreshInv, TicketUsedOnce, Unused
    <2>2. Init => LinkInv /\ TrailInv
        BY DEF Init, GatewayInit, ConnectorInit, LinkInv, TrailInv
    <2> QED
        BY <2>1, <2>2 DEF AuditInv
<1> QED
    BY <1>1, AuditInductive, AuditInvTrail, PTL DEF Spec
=============================================================================
