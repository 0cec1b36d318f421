------------------------ MODULE HostRegistry_proofs ------------------------
(***************************************************************************)
(* Proofs about HostRegistry, for any clients, addresses and bounds.       *)
(*                                                                         *)
(* Neither property is inductive.  What makes the compare-and-swap on the  *)
(* client's version enough is that versions name records: VersionInv says  *)
(* that whoever holds a record with the host's version holds the host's    *)
(* record, and that a handler's copy is no older than the version it was   *)
(* sent.  ProbeInv says the same of a probe and the host's address.        *)
(***************************************************************************)
EXTENDS HostRegistry, TLAPS

Places == {"idle", "updating", "probing", "pinning", "sealing", "deleting", "unbound"}

Works == [at : Places, version : Nat, copy : Records]

Probes == [version : Nat, key : Keys]

(* The places whose handler works on a copy of the record. *)
Copying == {"updating", "probing", "pinning"}

(* r is the host's record, or an older one. *)
NotNewer(r, h) == r.version <= h.version /\ (r.version = h.version => r = h)

(* The handler's copy is at least as new as the version it was sent. *)
CopyOK(w, h) ==
    w.at \in Copying =>
        /\ 1 <= w.version /\ w.version <= w.copy.version
        /\ h.version # 0 => NotNewer(w.copy, h)

(* The key of a probe was presented, for the address of its version. *)
ProbeOK(p, h, sk) ==
    /\ 1 <= p.version
    /\ p.key.generation <= sk[p.key.server]
    /\ h.version # 0 => /\ p.version <= h.version
                        /\ p.version = h.version => p.key.server = h.address

(* Nobody has anything before the host is created. *)
FreshInv ==
    ~used => /\ host.version = 0
             /\ \A c \in Clients : /\ seen[c].version = 0 /\ work[c].at = "idle"
                                   /\ probe[c] = {}

VersionInv ==
    \A c \in Clients : /\ Exists => NotNewer(seen[c], host)
                       /\ CopyOK(work[c], host)

ProbeInv ==
    \A c \in Clients :
        /\ \A p \in probe[c] : ProbeOK(p, host, serverKey)
        /\ \A p, q \in probe[c] : p = q
        /\ work[c].at = "pinning" => \A p \in probe[c] : p.version = work[c].version

Inv == HostTypeOK /\ FreshInv /\ VersionInv /\ ProbeInv /\ KeyConfirmedForAddress

-----------------------------------------------------------------------------
(* Types.                                                                  *)

(* What the type invariant says of each variable. *)
LEMMA Types ==
    ASSUME HostTypeOK
    PROVE  /\ host \in Records /\ MaxKeys \in Nat \ {0}
           /\ \A c \in Clients : seen[c] \in Records /\ work[c] \in Works
                                 /\ probe[c] \in SUBSET Probes
           /\ \A a \in Addresses : serverKey[a] \in 1..MaxKeys
BY HostConstants DEF HostTypeOK, Works, Places, Probes

(* The fields of records, work and probes. *)
LEMMA Fields ==
    /\ \A r \in Records : /\ r.version \in Nat /\ r.address \in Addresses
                          /\ r.key = {} \/ \E k \in Keys : r.key = {k}
    /\ \A w \in Works : w.at \in Places /\ w.version \in Nat /\ w.copy \in Records
    /\ \A p \in Probes : p.version \in Nat /\ p.key \in Keys
    /\ \A k \in Keys : k.server \in Addresses /\ k.generation \in 1..MaxKeys
<1>1. \A r \in Records : /\ r.version \in Nat /\ r.address \in Addresses
                         /\ r.key = {} \/ \E k \in Keys : r.key = {k}
    BY DEF Records
<1>2. \A w \in Works : w.at \in Places /\ w.version \in Nat /\ w.copy \in Records
    BY DEF Works
<1>3. \A p \in Probes : p.version \in Nat /\ p.key \in Keys
    BY DEF Probes
<1>4. \A k \in Keys : k.server \in Addresses /\ k.generation \in 1..MaxKeys
    BY DEF Keys
<1>. QED  BY <1>1, <1>2, <1>3, <1>4

(* A record made from a version, an address and a key. *)
LEMMA MakeRecord ==
    ASSUME NEW v \in Nat, NEW a \in Addresses, NEW k,
           k = {} \/ \E x \in Keys : k = {x}
    PROVE  [version |-> v, address |-> a, key |-> k] \in Records
BY DEF Records

(* The record of no host, and the work of no request. *)
LEMMA NoneTyped ==
    /\ NoHost \in Records /\ NoHost.version = 0 /\ NoHost.key = {}
    /\ IdleWork \in Works /\ IdleWork.at = "idle"
<1>1. AnAddress \in Addresses
    BY HostConstants DEF AnAddress
<1>2. NoHost \in Records /\ NoHost.version = 0 /\ NoHost.key = {}
    BY <1>1, MakeRecord DEF NoHost
<1>3. IdleWork \in Works /\ IdleWork.at = "idle"
    BY <1>2 DEF IdleWork, Works, Places
<1>. QED  BY <1>2, <1>3

(* The type invariant, from its parts. *)
LEMMA TypeIntro ==
    ASSUME storage \in {"memory", "postgres"}, used \in BOOLEAN, credential \in BOOLEAN,
           host \in Records, serverKey \in [Addresses -> 1..MaxKeys],
           seen \in [Clients -> Records], probe \in [Clients -> SUBSET Probes],
           work \in [Clients -> Works]
    PROVE  HostTypeOK
BY DEF HostTypeOK, Works, Places, Probes

-----------------------------------------------------------------------------
(* Initial states.                                                         *)
LEMMA InitInv == Init => Inv
<1> SUFFICES ASSUME Init PROVE Inv
    OBVIOUS
<1>1. HostTypeOK
  <2>1. serverKey \in [Addresses -> 1..MaxKeys]
      BY HostConstants DEF Init
  <2>2. seen \in [Clients -> Records] /\ work \in [Clients -> Works]
      BY NoneTyped DEF Init
  <2>3. probe \in [Clients -> SUBSET Probes]
      BY DEF Init
  <2>. QED  BY <2>1, <2>2, <2>3, NoneTyped, TypeIntro DEF Init
<1>2. FreshInv
    BY NoneTyped DEF Init, FreshInv
<1>3. VersionInv
    BY NoneTyped DEF Init, VersionInv, Exists, CopyOK, Copying
<1>4. ProbeInv
    BY NoneTyped DEF Init, ProbeInv
<1>5. KeyConfirmedForAddress
    BY NoneTyped DEF Init, KeyConfirmedForAddress
<1>. QED  BY <1>1, <1>2, <1>3, <1>4, <1>5 DEF Inv

-----------------------------------------------------------------------------
(* Steps of a handler that leave the record alone, or delete the host.     *)

(* The parts of the invariant, for one client. *)
LEMMA Parts ==
    ASSUME Inv
    PROVE  /\ HostTypeOK /\ FreshInv /\ KeyConfirmedForAddress
           /\ \A c \in Clients :
                 /\ host.version # 0 => NotNewer(seen[c], host)
                 /\ CopyOK(work[c], host)
                 /\ \A p \in probe[c] : ProbeOK(p, host, serverKey)
                 /\ \A p, q \in probe[c] : p = q
                 /\ work[c].at = "pinning" => \A p \in probe[c] : p.version = work[c].version
BY DEF Inv, VersionInv, ProbeInv, Exists

(* A handler goes on to w. *)
LEMMA WorkStep ==
    ASSUME Inv, used, NEW c \in Clients, NEW w \in Works,
           work' = [work EXCEPT ![c] = w], CopyOK(w, host),
           w.at = "pinning" => \A p \in probe[c] : p.version = w.version,
           host' = host \/ host' = NoHost, credential' \in BOOLEAN,
           UNCHANGED <<storage, used, serverKey, clientVars>>
    PROVE  Inv'
<1>1. HostTypeOK /\ KeyConfirmedForAddress
    BY Parts
<1>2. UNCHANGED <<storage, used, serverKey, seen, probe>>
    BY DEF clientVars
<1>3. /\ work' \in [Clients -> Works] /\ work'[c] = w
      /\ \A d \in Clients \ {c} : work'[d] = work[d]
    BY <1>1 DEF HostTypeOK, Works, Places
<1>4. HostTypeOK'
  <2>1. host' \in Records
      BY <1>1, NoneTyped DEF HostTypeOK
  <2>. QED  BY <1>1, <1>2, <1>3, <2>1 DEF HostTypeOK, Works, Places
<1>5. FreshInv'
    BY <1>2 DEF FreshInv
<1>6. VersionInv'
  <2>1. \A d \in Clients : CopyOK(work'[d], host)
      BY <1>3, Parts
  <2>2. \A d \in Clients : CopyOK(work'[d], host')
      BY <2>1, NoneTyped DEF CopyOK
  <2>3. \A d \in Clients : host'.version # 0 => NotNewer(seen[d], host')
      BY Parts, NoneTyped
  <2>. QED  BY <1>2, <2>2, <2>3 DEF VersionInv, Exists
<1>7. ProbeInv'
  <2>1. \A d \in Clients : \A p \in probe[d] : ProbeOK(p, host', serverKey)
      BY Parts, NoneTyped DEF ProbeOK
  <2>2. \A d \in Clients :
           work'[d].at = "pinning" => \A p \in probe[d] : p.version = work'[d].version
      BY <1>3, Parts
  <2>. QED  BY <1>2, <2>1, <2>2, Parts DEF ProbeInv
<1>8. KeyConfirmedForAddress'
    BY <1>1, <1>2, NoneTyped DEF KeyConfirmedForAddress
<1>. QED  BY <1>4, <1>5, <1>6, <1>7, <1>8 DEF Inv

(* Somebody has used the host. *)
LEMMA InUse ==
    ASSUME Inv, NEW c \in Clients, Exists \/ work[c].at # "idle"
    PROVE  used
BY Parts DEF FreshInv, Exists

(* A handler that ends. *)
LEMMA EndStep ==
    ASSUME Inv, NEW c \in Clients, work[c].at # "idle", End(c),
           host' = host \/ host' = NoHost, credential' \in BOOLEAN,
           UNCHANGED <<storage, used, serverKey, clientVars>>
    PROVE  Inv'
<1>1. used
    BY InUse
<1>2. work' = [work EXCEPT ![c] = IdleWork]
    BY DEF End
<1>3. CopyOK(IdleWork, host) /\ IdleWork.at # "pinning"
    BY NoneTyped DEF CopyOK, Copying
<1>. QED  BY <1>1, <1>2, <1>3, NoneTyped, WorkStep

(* A handler that begins, with the record or without. *)
LEMMA BeginStep ==
    ASSUME Inv, NEW c \in Clients, NEW place \in Places, NEW v \in Nat, NEW r \in Records,
           Begin(c, place, v, r), UNCHANGED clientVars,
           place \in Copying => r = host /\ 1 <= v /\ v <= host.version,
           place = "pinning" => \A p \in probe[c] : p.version = v
    PROVE  Inv'
<1> DEFINE w == [at |-> place, version |-> v, copy |-> r]
<1>1. /\ Exists /\ work' = [work EXCEPT ![c] = w]
      /\ UNCHANGED <<storage, used, host, credential, serverKey>>
    BY DEF Begin
<1>2. w \in Works /\ w.at = place /\ w.version = v /\ w.copy = r
    BY DEF Works
<1> HIDE DEF w
<1>3. CopyOK(w, host)
    BY <1>2, Fields DEF CopyOK, NotNewer
<1>4. used /\ credential' \in BOOLEAN
    BY <1>1, InUse, Parts DEF HostTypeOK
<1>. QED  BY <1>1, <1>2, <1>3, <1>4, WorkStep
-----------------------------------------------------------------------------
(* Steps that change the record.                                           *)

(* A handler's version is the host's: the record it read is the host's. *)
LEMMA CopyIsHost ==
    ASSUME Inv, NEW c \in Clients, work[c].at \in Copying, Exists, work[c].version = host.version
    PROVE  work[c].copy = host
<1>1. /\ host \in Records /\ work[c] \in Works /\ CopyOK(work[c], host)
    BY Parts, Types
<1>. QED  BY <1>1, Fields DEF CopyOK, NotNewer, Exists

(* The first version of the record. *)
LEMMA CreateStep ==
    ASSUME Inv, NEW c \in Clients, NEW a \in Addresses, CreateHost(c, a)
    PROVE  Inv'
<1>1. HostTypeOK /\ FreshInv
    BY Parts
<1>2. /\ ~used /\ used' = TRUE
      /\ host' = [version |-> 1, address |-> a, key |-> {}]
      /\ seen' = [seen EXCEPT ![c] = host']
      /\ UNCHANGED <<storage, credential, serverKey, probe, work>>
    BY DEF CreateHost
<1>3. host' \in Records /\ host'.version = 1 /\ host'.key = {}
    BY <1>2, MakeRecord
<1>4. /\ seen' \in [Clients -> Records] /\ seen'[c] = host'
      /\ \A d \in Clients \ {c} : seen'[d] = seen[d]
    BY <1>1, <1>2, <1>3 DEF HostTypeOK
<1>5. \A d \in Clients : seen[d].version = 0 /\ work[d].at = "idle" /\ probe[d] = {}
    BY <1>1, <1>2 DEF FreshInv
<1>6. HostTypeOK'
    BY <1>1, <1>2, <1>3, <1>4 DEF HostTypeOK, Works, Places
<1>7. FreshInv'
    BY <1>2 DEF FreshInv
<1>8. VersionInv'
  <2>1. \A d \in Clients : NotNewer(seen'[d], host')
      BY <1>3, <1>4, <1>5 DEF NotNewer
  <2>2. \A d \in Clients : CopyOK(work'[d], host')
      BY <1>2, <1>5 DEF CopyOK, Copying
  <2>. QED  BY <2>1, <2>2 DEF VersionInv
<1>9. ProbeInv'
    BY <1>2, <1>5 DEF ProbeInv
<1>10. KeyConfirmedForAddress'
    BY <1>3 DEF KeyConfirmedForAddress
<1>. QED  BY <1>6, <1>7, <1>8, <1>9, <1>10 DEF Inv

(* A record with the next version, whose keys were presented at its address. *)
NextRecord(new) ==
    /\ new \in Records /\ new.version = host.version + 1
    /\ \A k \in new.key : k.server = new.address /\ k.generation <= serverKey[k.server]

(* A handler's write. *)
LEMMA StoreStep ==
    ASSUME Inv, NEW c \in Clients, work[c].at # "idle", 1 <= work[c].version,
           NEW new, NEW kept, kept = probe[c] \/ kept = {}, Store(c, new, kept),
           Exists /\ host.version = work[c].version => NextRecord(new)
    PROVE  Inv'
<1>1. HostTypeOK /\ FreshInv /\ host \in Records /\ used
    BY Parts, Types, InUse
<1>2. End(c) /\ UNCHANGED <<storage, used, credential, serverKey>>
    BY DEF Store
<1>3. CASE UNCHANGED <<host, clientVars>>
  <2>1. credential' \in BOOLEAN /\ host' = host
      BY <1>1, <1>2, <1>3 DEF HostTypeOK
  <2>. QED  BY <1>2, <1>3, <2>1, EndStep
<1>4. CASE /\ Exists /\ host.version = work[c].version /\ host' = new
           /\ \/ seen' = [seen EXCEPT ![c] = new] /\ probe' = [probe EXCEPT ![c] = kept]
              \/ UNCHANGED clientVars
  <2>1. NextRecord(new) /\ host.version \in Nat
      BY <1>1, <1>4, Fields
  <2>2. /\ work' \in [Clients -> Works] /\ work'[c] = IdleWork
        /\ \A d \in Clients \ {c} : work'[d] = work[d]
      BY <1>1, <1>2, NoneTyped DEF End, HostTypeOK, Works, Places
  <2>3. /\ seen' \in [Clients -> Records]
        /\ \A d \in Clients : seen'[d] = seen[d] \/ seen'[d] = new
      BY <1>1, <1>4, <2>1 DEF HostTypeOK, NextRecord, clientVars
  <2>4. /\ probe' \in [Clients -> SUBSET Probes]
        /\ \A d \in Clients : probe'[d] = probe[d] \/ probe'[d] = {}
      BY <1>1, <1>4 DEF HostTypeOK, Probes, clientVars
  <2>5. HostTypeOK'
      BY <1>1, <1>2, <1>4, <2>1, <2>2, <2>3, <2>4 DEF HostTypeOK, NextRecord, Works, Places, Probes
  <2>6. FreshInv'
      BY <1>1, <1>2 DEF FreshInv
  <2>7. VersionInv'
    <3>1. \A d \in Clients : NotNewer(seen'[d], host')
      <4>1. \A d \in Clients : NotNewer(seen[d], host) /\ seen[d].version \in Nat
          BY <1>1, <1>4, Parts, Types, Fields DEF Exists
      <4>2. NotNewer(new, new)
          BY <2>1, Fields DEF NextRecord, NotNewer
      <4>3. \A d \in Clients : NotNewer(seen[d], new)
          BY <2>1, <4>1 DEF NextRecord, NotNewer
      <4>. QED  BY <1>4, <2>3, <4>2, <4>3
    <3>2. \A d \in Clients \ {c} : CopyOK(work[d], host')
      <4> TAKE d \in Clients \ {c}
      <4>1. CopyOK(work[d], host) /\ work[d] \in Works
          BY <1>1, Parts, Types
      <4>2. work[d].copy.version \in Nat /\ host'.version = host.version + 1
          BY <1>4, <2>1, <4>1, Fields DEF NextRecord
      <4>. QED  BY <1>4, <2>1, <4>1, <4>2 DEF CopyOK, NotNewer, Exists
    <3>3. CopyOK(IdleWork, host')
        BY NoneTyped DEF CopyOK, Copying
    <3>4. \A d \in Clients : CopyOK(work'[d], host')
        BY <2>2, <3>2, <3>3
    <3>. QED  BY <3>1, <3>4 DEF VersionInv
  <2>8. ProbeInv'
    <3>1. \A d \in Clients : \A p \in probe[d] : ProbeOK(p, host', serverKey)
      <4> TAKE d \in Clients
      <4> TAKE p \in probe[d]
      <4>1. ProbeOK(p, host, serverKey) /\ p.version \in Nat
          BY <1>1, Parts, Types, Fields
      <4>. QED  BY <1>4, <2>1, <4>1 DEF ProbeOK, NextRecord, Exists
    <3>2. \A d \in Clients : \A p \in probe'[d] : ProbeOK(p, host', serverKey')
        BY <1>2, <2>4, <3>1
    <3>3. \A d \in Clients : \A p, q \in probe'[d] : p = q
        BY <2>4, Parts
    <3>4. \A d \in Clients :
             work'[d].at = "pinning" => \A p \in probe'[d] : p.version = work'[d].version
        BY <2>2, <2>4, Parts, NoneTyped
    <3>. QED  BY <3>2, <3>3, <3>4 DEF ProbeInv
  <2>9. KeyConfirmedForAddress'
      BY <1>2, <1>4, <2>1 DEF KeyConfirmedForAddress, NextRecord
  <2>. QED  BY <2>5, <2>6, <2>7, <2>8, <2>9 DEF Inv
<1>5. UNCHANGED <<host, clientVars>>
      \/ (/\ Exists /\ host.version = work[c].version /\ host' = new
          /\ \/ seen' = [seen EXCEPT ![c] = new] /\ probe' = [probe EXCEPT ![c] = kept]
             \/ UNCHANGED clientVars)
    BY Fields, <1>1, Types DEF Store, MemoryUpdate, PostgresUpdate, Exists
<1>. QED  BY <1>3, <1>4, <1>5
-----------------------------------------------------------------------------
(* The actions.                                                            *)

(* A client is shown the record. *)
LEMMA GetStep ==
    ASSUME Inv, NEW c \in Clients, GetHost(c)
    PROVE  Inv'
<1>1. HostTypeOK /\ FreshInv /\ host \in Records /\ used
    BY Parts, Types, InUse DEF GetHost
<1>2. /\ Exists /\ seen' = [seen EXCEPT ![c] = host]
      /\ UNCHANGED <<storage, used, host, credential, serverKey, probe, work>>
    BY DEF GetHost
<1>3. /\ seen' \in [Clients -> Records]
      /\ \A d \in Clients : seen'[d] = seen[d] \/ seen'[d] = host
    BY <1>1, <1>2 DEF HostTypeOK
<1>4. HostTypeOK'
    BY <1>1, <1>2, <1>3 DEF HostTypeOK
<1>5. FreshInv'
    BY <1>1, <1>2 DEF FreshInv
<1>6. VersionInv'
  <2>1. NotNewer(host, host)
      BY <1>1, Fields DEF NotNewer
  <2>2. \A d \in Clients : NotNewer(seen'[d], host)
      BY <1>2, <1>3, <2>1, Parts DEF Exists
  <2>3. \A d \in Clients : CopyOK(work[d], host)
      BY Parts
  <2>. QED  BY <1>2, <2>2, <2>3 DEF VersionInv
<1>7. ProbeInv'
    BY <1>2, Parts DEF ProbeInv
<1>8. KeyConfirmedForAddress'
    BY <1>2, Parts DEF KeyConfirmedForAddress
<1>. QED  BY <1>4, <1>5, <1>6, <1>7, <1>8 DEF Inv

(* A request that changes the record is read. *)
LEMMA BeginSteps ==
    ASSUME Inv, NEW c \in Clients,
           \/ BeginUpdate(c) \/ BeginProbe(c) \/ BeginPin(c)
           \/ BeginPutCredential(c) \/ BeginDelete(c)
    PROVE  Inv'
<1>1. /\ host \in Records /\ host.version \in Nat
      /\ seen[c] \in Records /\ seen[c].version \in Nat
      /\ Exists => NotNewer(seen[c], host)
    BY Parts, Types, Fields DEF Exists
<1>2. CASE BeginUpdate(c)
  <2>1. /\ 1 <= seen[c].version /\ Begin(c, "updating", seen[c].version, host)
        /\ UNCHANGED clientVars
      BY <1>2 DEF BeginUpdate
  <2>2. Exists
      BY <2>1 DEF Begin
  <2>3. seen[c].version <= host.version
      BY <1>1, <2>2 DEF NotNewer
  <2>4. "updating" \in Places /\ "updating" # "pinning"
      BY DEF Places
  <2>. QED  BY <1>1, <2>1, <2>3, <2>4, BeginStep
<1>3. CASE BeginProbe(c)
  <2>1. /\ seen[c].version # 0 /\ Begin(c, "probing", seen[c].version, host)
        /\ UNCHANGED clientVars
      BY <1>3 DEF BeginProbe
  <2>2. Exists
      BY <2>1 DEF Begin
  <2>3. 1 <= seen[c].version /\ seen[c].version <= host.version
      BY <1>1, <2>1, <2>2 DEF NotNewer
  <2>4. "probing" \in Places /\ "probing" # "pinning"
      BY DEF Places
  <2>. QED  BY <1>1, <2>1, <2>3, <2>4, BeginStep
<1>4. CASE BeginPin(c)
  <2>1. UNCHANGED clientVars
      BY <1>4 DEF BeginPin
  <2>2. PICK p \in probe[c] : Begin(c, "pinning", p.version, host)
      BY <1>4 DEF BeginPin
  <2>3. Exists
      BY <2>2 DEF Begin
  <2>4. ProbeOK(p, host, serverKey) /\ \A q \in probe[c] : q.version = p.version
      BY Parts
  <2>5. p.version \in Nat
      BY Parts, Types, Fields
  <2>6. 1 <= p.version /\ p.version <= host.version
      BY <2>3, <2>4 DEF ProbeOK, Exists
  <2>7. "pinning" \in Places
      BY DEF Places
  <2>. QED  BY <1>1, <2>1, <2>2, <2>4, <2>5, <2>6, <2>7, BeginStep
<1>5. CASE BeginPutCredential(c)
  <2>1. Begin(c, "sealing", 0, NoHost) /\ UNCHANGED clientVars
      BY <1>5 DEF BeginPutCredential
  <2>2. "sealing" \in Places /\ "sealing" \notin Copying /\ "sealing" # "pinning"
      BY DEF Places, Copying
  <2>. QED  BY <2>1, <2>2, NoneTyped, BeginStep
<1>6. CASE BeginDelete(c)
  <2>1. Begin(c, "deleting", host.version, NoHost) /\ UNCHANGED clientVars
      BY <1>6 DEF BeginDelete
  <2>2. "deleting" \in Places /\ "deleting" \notin Copying /\ "deleting" # "pinning"
      BY DEF Places, Copying
  <2>. QED  BY <1>1, <2>1, <2>2, NoneTyped, BeginStep
<1>. QED  BY <1>2, <1>3, <1>4, <1>5, <1>6

(* A client gets the answer to its probe. *)
LEMMA ProbeStep ==
    ASSUME Inv, NEW c \in Clients, ProbeHostKey(c)
    PROVE  Inv'
<1> DEFINE p == [version |-> work[c].version, key |-> Presented(work[c].copy.address)]
<1>1. HostTypeOK /\ FreshInv /\ host \in Records /\ work[c] \in Works
    BY Parts, Types
<1>2. /\ work[c].at = "probing" /\ End(c)
      /\ probe' = [probe EXCEPT ![c] = {p}]
      /\ UNCHANGED <<storage, used, host, credential, serverKey, seen>>
    BY DEF ProbeHostKey
<1>3. /\ work[c].version \in Nat /\ work[c].copy \in Records
      /\ work[c].copy.version \in Nat /\ work[c].copy.address \in Addresses
      /\ host.version \in Nat
    BY <1>1, Fields
<1>4. serverKey[work[c].copy.address] \in 1..MaxKeys
    BY <1>1, <1>3, Types
<1>5. /\ p \in Probes /\ p.version = work[c].version
      /\ p.key.server = work[c].copy.address
      /\ p.key.generation = serverKey[work[c].copy.address]
    BY <1>3, <1>4 DEF Probes, Presented, Keys
<1> HIDE DEF p
<1>6. ProbeOK(p, host, serverKey)
  <2>1. /\ 1 <= work[c].version /\ work[c].version <= work[c].copy.version
        /\ host.version # 0 => NotNewer(work[c].copy, host)
      BY <1>2, Parts DEF CopyOK, Copying
  <2>2. p.key.generation <= serverKey[p.key.server]
      BY <1>4, <1>5
  <2>. QED  BY <1>3, <1>5, <2>1, <2>2 DEF ProbeOK, NotNewer
<1>7. /\ work' \in [Clients -> Works] /\ work'[c] = IdleWork
      /\ \A d \in Clients \ {c} : work'[d] = work[d]
    BY <1>1, <1>2, NoneTyped DEF End, HostTypeOK, Works, Places
<1>8. /\ probe' \in [Clients -> SUBSET Probes] /\ probe'[c] = {p}
      /\ \A d \in Clients \ {c} : probe'[d] = probe[d]
    BY <1>1, <1>2, <1>5 DEF HostTypeOK, Probes
<1>9. HostTypeOK'
    BY <1>1, <1>2, <1>7, <1>8 DEF HostTypeOK, Works, Places, Probes
<1>10. FreshInv'
    BY <1>1, <1>2, InUse DEF FreshInv
<1>11. VersionInv'
  <2>1. CopyOK(IdleWork, host)
      BY NoneTyped DEF CopyOK, Copying
  <2>2. \A d \in Clients : CopyOK(work'[d], host)
      BY <1>7, <2>1, Parts
  <2>3. \A d \in Clients : host.version # 0 => NotNewer(seen[d], host)
      BY Parts
  <2>. QED  BY <1>2, <2>2, <2>3 DEF VersionInv, Exists
<1>12. ProbeInv'
  <2>1. \A d \in Clients : \A q \in probe'[d] : ProbeOK(q, host, serverKey)
      BY <1>6, <1>8, Parts
  <2>2. \A d \in Clients : \A q, r \in probe'[d] : q = r
      BY <1>8, Parts
  <2>3. \A d \in Clients :
           work'[d].at = "pinning" => \A q \in probe'[d] : q.version = work'[d].version
      BY <1>7, <1>8, NoneTyped, Parts
  <2>. QED  BY <1>2, <2>1, <2>2, <2>3 DEF ProbeInv
<1>13. KeyConfirmedForAddress'
    BY <1>2, Parts DEF KeyConfirmedForAddress
<1>. QED  BY <1>9, <1>10, <1>11, <1>12, <1>13 DEF Inv
(* updateHost writes. *)
LEMMA UpdateStep ==
    ASSUME Inv, NEW c \in Clients, NEW a \in Addresses, UpdateHost(c, a)
    PROVE  Inv'
<1> DEFINE copy == work[c].copy
<1> DEFINE new == Updated(copy, work[c].version, a)
<1>1. work[c].at = "updating" /\ Store(c, new, probe[c])
    BY DEF UpdateHost
<1>2. /\ host \in Records /\ work[c].version \in Nat /\ 1 <= work[c].version
    BY <1>1, Parts, Types, Fields DEF CopyOK, Copying
<1>3. ASSUME Exists, host.version = work[c].version
      PROVE  NextRecord(new)
  <2>1. copy = host
      BY <1>1, <1>3, CopyIsHost DEF Copying
  <2>2. new = [version |-> host.version + 1, address |-> a,
               key |-> IF a # host.address THEN {} ELSE host.key]
      BY <1>3, <2>1 DEF Updated
  <2> HIDE DEF new
  <2>3. new \in Records
    <3> DEFINE key == IF a # host.address THEN {} ELSE host.key
    <3>1. key = {} \/ \E k \in Keys : key = {k}
        BY <1>2, Fields
    <3>2. host.version + 1 \in Nat
        BY <1>2, <1>3
    <3>3. new = [version |-> host.version + 1, address |-> a, key |-> key]
        BY <2>2
    <3> HIDE DEF key
    <3>. QED  BY <3>1, <3>2, <3>3, MakeRecord
  <2>4. \A k \in host.key : k.server = host.address /\ k.generation <= serverKey[k.server]
      BY Parts DEF KeyConfirmedForAddress
  <2>. QED  BY <2>2, <2>3, <2>4 DEF NextRecord
<1> HIDE DEF new
<1>. QED  BY <1>1, <1>2, <1>3, StoreStep

(* pinHostKey refuses, or writes. *)
LEMMA PinStep ==
    ASSUME Inv, NEW c \in Clients, NEW replace \in BOOLEAN, PinHostKey(c, replace)
    PROVE  Inv'
<1> DEFINE copy == work[c].copy
<1>1. work[c].at = "pinning"
    BY DEF PinHostKey
<1>2. /\ host \in Records /\ work[c].version \in Nat /\ 1 <= work[c].version
      /\ credential \in BOOLEAN
    BY <1>1, Parts, Types, Fields DEF CopyOK, Copying, HostTypeOK
<1>3. PICK p \in probe[c] :
          \/ /\ End(c)
             /\ UNCHANGED <<storage, used, host, credential, serverKey, clientVars>>
          \/ Store(c, Pinned(copy, work[c].version, p.key), {})
    BY DEF PinHostKey
<1>4. CASE /\ End(c)
           /\ UNCHANGED <<storage, used, host, credential, serverKey, clientVars>>
    BY <1>1, <1>2, <1>4, EndStep
<1>5. CASE Store(c, Pinned(copy, work[c].version, p.key), {})
  <2> DEFINE new == Pinned(copy, work[c].version, p.key)
  <2>1. ProbeOK(p, host, serverKey) /\ p.version = work[c].version /\ p.key \in Keys
      BY <1>1, Parts, Types, Fields
  <2>2. ASSUME Exists, host.version = work[c].version
        PROVE  NextRecord(new)
    <3>1. copy = host
        BY <1>1, <2>2, CopyIsHost DEF Copying
    <3>2. /\ new = [host EXCEPT !.version = host.version + 1, !.key = {p.key}]
        BY <2>2, <3>1 DEF Pinned
    <3>3. /\ new \in Records /\ new.version = host.version + 1 /\ new.address = host.address
          /\ new.key = {p.key}
      <4> DEFINE next == [host EXCEPT !.version = host.version + 1]
      <4>1. /\ next \in Records /\ next.version = host.version + 1
            /\ next.address = host.address
          BY <1>2, <2>2 DEF Records
      <4>2. new = [next EXCEPT !.key = {p.key}]
          BY <3>2
      <4> HIDE DEF new, next
      <4>3. {p.key} \in {{}} \cup {{k} : k \in Keys}
          BY <2>1
      <4>. QED  BY <4>1, <4>2, <4>3 DEF Records
    <3> HIDE DEF new
    <3>4. p.key.server = host.address /\ p.key.generation <= serverKey[p.key.server]
        BY <2>1, <2>2 DEF ProbeOK, Exists
    <3>. QED  BY <3>3, <3>4 DEF NextRecord
  <2> HIDE DEF new
  <2>3. Store(c, new, {})
      BY <1>5 DEF new
  <2>. QED  BY <1>1, <1>2, <2>2, <2>3, StoreStep
<1>. QED  BY <1>3, <1>4, <1>5

(* A server gets a newer key. *)
LEMMA KeyStep ==
    ASSUME Inv, NEW a \in Addresses, ChangeServerKey(a)
    PROVE  Inv'
<1>1. HostTypeOK /\ FreshInv
    BY Parts
<1>2. /\ serverKey[a] < MaxKeys /\ serverKey' = [serverKey EXCEPT ![a] = @ + 1]
      /\ UNCHANGED <<storage, used, host, credential, seen, probe, work>>
    BY DEF ChangeServerKey, clientVars
<1>3. \A b \in Addresses : serverKey[b] \in 1..MaxKeys
    BY <1>1, Types
<1>4. /\ serverKey' \in [Addresses -> 1..MaxKeys]
      /\ \A b \in Addresses : serverKey[b] <= serverKey'[b]
    BY <1>1, <1>2, <1>3, HostConstants DEF HostTypeOK
<1>5. HostTypeOK'
    BY <1>1, <1>2, <1>4 DEF HostTypeOK
<1>6. FreshInv'
    BY <1>1, <1>2 DEF FreshInv
<1>7. VersionInv'
    BY <1>2, Parts DEF VersionInv, Exists
<1>8. \A k \in Keys : k.generation <= serverKey[k.server] => k.generation <= serverKey'[k.server]
  <2> SUFFICES ASSUME NEW k \in Keys, k.generation <= serverKey[k.server]
               PROVE  k.generation <= serverKey'[k.server]
      OBVIOUS
  <2>1. k.server \in Addresses /\ k.generation \in 1..MaxKeys
      BY Fields
  <2>2. /\ serverKey[k.server] \in 1..MaxKeys /\ serverKey'[k.server] \in 1..MaxKeys
        /\ serverKey[k.server] <= serverKey'[k.server]
      BY <1>3, <1>4, <2>1
  <2>. QED  BY <2>1, <2>2
<1>9. ProbeInv'
  <2>1. \A c \in Clients : \A p \in probe[c] : ProbeOK(p, host, serverKey')
    <3> TAKE c \in Clients
    <3> TAKE p \in probe[c]
    <3>1. ProbeOK(p, host, serverKey) /\ p.key \in Keys
        BY <1>1, Parts, Types, Fields
    <3>. QED  BY <1>8, <3>1 DEF ProbeOK
  <2>. QED  BY <1>2, <2>1, Parts DEF ProbeInv
<1>10. KeyConfirmedForAddress'
  <2>1. \A k \in host.key : k \in Keys
      BY <1>1, Types, Fields
  <2>. QED  BY <1>2, <1>8, <2>1, Parts DEF KeyConfirmedForAddress
<1>. QED  BY <1>5, <1>6, <1>7, <1>9, <1>10 DEF Inv

(* Credentials, deletion and failure. *)
LEMMA OtherSteps ==
    ASSUME Inv, NEW c \in Clients,
           Abandon(c) \/ PutCredential(c) \/ DeleteCurrentSecret(c) \/ DeleteAsset(c)
    PROVE  Inv'
<1>1. credential \in BOOLEAN /\ work[c] \in Works /\ work \in [Clients -> Works]
    BY Parts, Types DEF HostTypeOK, Works, Places
<1>2. CASE Abandon(c)
  <2>1. /\ work[c].at # "idle" /\ End(c)
        /\ UNCHANGED <<storage, used, host, credential, serverKey, clientVars>>
      BY <1>2 DEF Abandon
  <2>. QED  BY <1>1, <2>1, EndStep
<1>3. CASE PutCredential(c)
  <2>1. /\ work[c].at = "sealing" /\ End(c) /\ credential' = (credential \/ SecretScopeExists)
        /\ UNCHANGED <<storage, used, host, serverKey, clientVars>>
      BY <1>3 DEF PutCredential
  <2>2. credential' \in BOOLEAN
      BY <2>1
  <2>. QED  BY <2>1, <2>2, EndStep
<1>4. CASE DeleteCurrentSecret(c)
  <2> DEFINE w == [work[c] EXCEPT !.at = "unbound"]
  <2>1. /\ work[c].at = "deleting" /\ work' = [work EXCEPT ![c] = w] /\ credential' = FALSE
        /\ UNCHANGED <<storage, used, host, serverKey, clientVars>>
      BY <1>4 DEF DeleteCurrentSecret
  <2>2. w \in Works /\ w.at = "unbound"
      BY <1>1 DEF Works, Places
  <2> HIDE DEF w
  <2>3. CopyOK(w, host) /\ used
      BY <2>1, <2>2, InUse DEF CopyOK, Copying
  <2>. QED  BY <2>1, <2>2, <2>3, WorkStep
<1>5. CASE DeleteAsset(c)
  <2>1. /\ work[c].at = "unbound" /\ End(c) /\ (host' = NoHost \/ host' = host)
        /\ UNCHANGED <<storage, used, credential, serverKey, clientVars>>
      BY <1>5 DEF DeleteAsset
  <2>. QED  BY <1>1, <2>1, EndStep
<1>. QED  BY <1>2, <1>3, <1>4, <1>5

(* The host or its credential is deleted in one step. *)
LEMMA DeleteSteps ==
    ASSUME Inv, DeleteCredential \/ MemoryDeleteHost
    PROVE  Inv'
<1>1. HostTypeOK /\ FreshInv /\ KeyConfirmedForAddress
    BY Parts
<1>2. /\ credential' = FALSE /\ (host' = host \/ host' = NoHost)
      /\ UNCHANGED <<storage, used, serverKey, seen, probe, work>>
    BY DEF DeleteCredential, MemoryDeleteHost, clientVars
<1>3. HostTypeOK'
    BY <1>1, <1>2, NoneTyped DEF HostTypeOK
<1>4. FreshInv'
    BY <1>1, <1>2, NoneTyped DEF FreshInv
<1>5. VersionInv'
  <2>1. \A d \in Clients : host'.version # 0 => NotNewer(seen[d], host')
      BY <1>2, Parts, NoneTyped
  <2>2. \A d \in Clients : CopyOK(work[d], host')
      BY <1>2, Parts, NoneTyped DEF CopyOK
  <2>. QED  BY <1>2, <2>1, <2>2 DEF VersionInv, Exists
<1>6. ProbeInv'
  <2>1. \A d \in Clients : \A p \in probe[d] : ProbeOK(p, host', serverKey)
      BY <1>2, Parts, NoneTyped DEF ProbeOK
  <2>. QED  BY <1>2, <2>1, Parts DEF ProbeInv
<1>7. KeyConfirmedForAddress'
    BY <1>1, <1>2, NoneTyped DEF KeyConfirmedForAddress
<1>. QED  BY <1>3, <1>4, <1>5, <1>6, <1>7 DEF Inv

-----------------------------------------------------------------------------
(* The theorems.                                                           *)

(* Every step of the handlers and of the servers keeps the invariant. *)
LEMMA NextInv == Inv /\ [Next]_vars => Inv'
<1> SUFFICES ASSUME Inv, [Next]_vars PROVE Inv'
    OBVIOUS
<1>1. CASE UNCHANGED vars
    BY <1>1 DEF vars, clientVars, Inv, HostTypeOK, FreshInv, VersionInv, ProbeInv,
                KeyConfirmedForAddress, Exists
<1>2. ASSUME NEW c \in Clients, ClientStep(c)
      PROVE  Inv'
    BY <1>2, GetStep, BeginSteps, ProbeStep, OtherSteps DEF ClientStep
<1>3. CASE Next
    BY <1>2, <1>3, CreateStep, UpdateStep, PinStep, KeyStep, DeleteSteps DEF Next
<1>. QED  BY <1>1, <1>3

(* The inductive invariant always holds: versions name records. *)
THEOREM HostInvariance == Spec => []Inv
BY InitInv, NextInv, PTL DEF Spec

(* The variables of the host registry keep their types. *)
THEOREM HostTypeCorrect == Spec => []HostTypeOK
<1>1. Inv => HostTypeOK
    BY DEF Inv
<1>. QED  BY <1>1, HostInvariance, PTL

(* The key that pinHostKey stored is one the server at the host's address  *)
(* presented to probeHostKey, for any number of clients and addresses.     *)
THEOREM PinnedKeyIsConfirmed == Spec => []KeyConfirmedForAddress
<1>1. Inv => KeyConfirmedForAddress
    BY DEF Inv
<1>. QED  BY <1>1, HostInvariance, PTL

(* What NoLostUpdate says of one step. *)
KeepsUpdates ==
    \A c \in Clients :
        /\ work[c].at \in {"updating", "pinning"} /\ work'[c] # work[c]
        /\ host' # host
        => work[c].copy = host

(* A step that replaces the record replaces the one its handler read. *)
LEMMA StepKeepsUpdates == Inv /\ [Next]_vars => [KeepsUpdates]_vars
<1> SUFFICES ASSUME Inv, Next, NEW c \in Clients, work[c].at \in {"updating", "pinning"},
                    work'[c] # work[c], host' # host
             PROVE  work[c].copy = host
    BY DEF KeepsUpdates
<1>1. /\ host \in Records /\ work \in [Clients -> Works] /\ CopyOK(work[c], host)
    BY Parts DEF HostTypeOK, Works, Places
<1>2. work[c].at \in Copying /\ work[c].version # 0
    BY <1>1, Fields DEF CopyOK, Copying
<1>3. ASSUME NEW new, NEW kept, Store(c, new, kept)
      PROVE  work[c].copy = host
  <2>1. Exists /\ host.version = work[c].version
      BY <1>2, <1>3 DEF Store, MemoryUpdate, PostgresUpdate, Exists
  <2>. QED  BY <1>2, <2>1, CopyIsHost
<1>4. ASSUME NEW d \in Clients, d # c, NEW new, NEW kept, Store(d, new, kept)
      PROVE  FALSE
    BY <1>1, <1>4 DEF Store, End
<1>5. ASSUME NEW d \in Clients, ClientStep(d)
      PROVE  FALSE
  <2>1. DeleteAsset(d)
      BY <1>5 DEF ClientStep, GetHost, Abandon, BeginUpdate, BeginProbe, ProbeHostKey, BeginPin,
                  BeginPutCredential, PutCredential, BeginDelete, DeleteCurrentSecret, Begin
  <2>2. d # c /\ End(d)
      BY <2>1 DEF DeleteAsset
  <2>. QED  BY <1>1, <2>2 DEF End
<1>6. ASSUME NEW d \in Clients, NEW a \in Addresses, UpdateHost(d, a)
      PROVE  work[c].copy = host
    BY <1>3, <1>4, <1>6 DEF UpdateHost
<1>7. ASSUME NEW d \in Clients, NEW replace \in BOOLEAN, PinHostKey(d, replace)
      PROVE  work[c].copy = host
    BY <1>3, <1>4, <1>7 DEF PinHostKey
<1>. QED  BY <1>5, <1>6, <1>7 DEF Next, CreateHost, ChangeServerKey, DeleteCredential,
                                 MemoryDeleteHost

(* No update of a host's record is lost, although updateHost and           *)
(* pinHostKey never compare the version they read.                         *)
THEOREM NoUpdateIsLost == Spec => NoLostUpdate
<1>1. Inv /\ [Next]_vars => [KeepsUpdates]_vars
    BY StepKeepsUpdates
<1>. QED  BY <1>1, HostInvariance, PTL DEF Spec, NoLostUpdate, KeepsUpdates

=============================================================================
