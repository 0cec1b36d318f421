---------------------------- MODULE HostRegistry ----------------------------
(***************************************************************************)
(* One registered host: its record, its pinned host key and its SSH        *)
(* credential, with the clients that read and change them.                 *)
(*                                                                         *)
(*   control-plane/internal/api/server.go       the handlers               *)
(*   control-plane/internal/store, persistence  the repositories           *)
(*   connector/sshconnector                     the host key probe         *)
(*   web/app/dashboard-shell.tsx                probing and pinning        *)
(*                                                                         *)
(* A record is changed by a handler that reads it, builds a new one, and   *)
(* writes it with a compare-and-swap on the version the client sent.  A    *)
(* client sends a version it was shown before; each has one request under  *)
(* way at a time.  An address stands for address and port, and a host key  *)
(* for the server that presents it, with the generation of its key.  IDs   *)
(* are random: a deleted host does not come back.                          *)
(***************************************************************************)
EXTENDS Naturals, FiniteSets

CONSTANTS Clients,
          Admins,      \* clients with the permission host_key:replace
          Addresses,
          ProbeSlots,  \* probes at the same time
          MaxVersion,  \* bound: last version of the record that is changed
          MaxKeys      \* bound: keys a server has over time

ASSUME HostConstants ==
    /\ Admins \subseteq Clients /\ Addresses # {}
    /\ ProbeSlots \in Nat /\ MaxVersion \in Nat /\ MaxKeys \in Nat \ {0}

VARIABLES
    storage,     \* "memory" or "postgres"
    used,        \* has the host been created?
    host,        \* its record
    credential,  \* is there a current credential for its ID?
    serverKey,   \* generation of the key of the server at an address
    seen,        \* the record a client was shown last
    probe,       \* the probe a client holds, with the version it probed for
    work         \* place of a client's request, the version it bears, and
                 \* the record its handler read

clientVars == <<seen, probe>>

vars == <<storage, used, host, credential, serverKey, clientVars, work>>

Keys == [server : Addresses, generation : 1..MaxKeys]

AnAddress == CHOOSE a \in Addresses : TRUE

NoHost == [version |-> 0, address |-> AnAddress, key |-> {}]

IdleWork == [at |-> "idle", version |-> 0, copy |-> NoHost]

Init ==
    /\ storage \in {"memory", "postgres"}
    /\ used = FALSE /\ host = NoHost /\ credential = FALSE
    /\ serverKey = [a \in Addresses |-> 1]
    /\ seen = [c \in Clients |-> NoHost]
    /\ probe = [c \in Clients |-> {}]
    /\ work = [c \in Clients |-> IdleWork]

Exists == host.version # 0

-----------------------------------------------------------------------------
(* Creating and reading.                                                   *)

CreateHost(c, a) ==
    /\ ~used /\ used' = TRUE
    /\ host' = [version |-> 1, address |-> a, key |-> {}]
    /\ seen' = [seen EXCEPT ![c] = host']
    /\ UNCHANGED <<storage, credential, serverKey, probe, work>>

(* getHost and listHosts. *)
GetHost(c) ==
    /\ Exists
    /\ seen' = [seen EXCEPT ![c] = host]
    /\ UNCHANGED <<storage, used, host, credential, serverKey, probe, work>>

(* A handler finds the host and goes on with what it needs of its record.  *)
Begin(c, place, version, copy) ==
    /\ work[c].at = "idle"
    /\ Exists
    /\ work' = [work EXCEPT ![c] = [at |-> place, version |-> version, copy |-> copy]]
    /\ UNCHANGED <<storage, used, host, credential, serverKey>>

End(c) == work' = [work EXCEPT ![c] = IdleWork]

(* Invalid input, a failing key service or database; the operation context *)
(* has a timeout.                                                          *)
Abandon(c) ==
    /\ work[c].at # "idle" /\ End(c)
    /\ UNCHANGED <<storage, used, host, credential, serverKey, clientVars>>

-----------------------------------------------------------------------------
(* Writing the record.                                                     *)

(* Mutant: the version is not compared. *)
MemoryUpdateAny(new, expected) == Exists

(* Memory.UpdateHost. *)
MemoryUpdate(new, expected) == Exists /\ host.version = expected

(* Postgres.UpdateHost and UpdateAsset. *)
PostgresUpdate(new, expected) == new.version = expected + 1 /\ host.version = expected

(* The handler ends with its write, which may be refused.  When the answer *)
(* to a write that was made arrives, the client has the new record, and    *)
(* keeps the probe or not.                                                 *)
Store(c, new, kept) ==
    /\ End(c)
    /\ IF IF storage = "memory" THEN MemoryUpdate(new, work[c].version)
                                ELSE PostgresUpdate(new, work[c].version)
       THEN /\ host' = new
            /\ \/ /\ seen' = [seen EXCEPT ![c] = new]
                  /\ probe' = [probe EXCEPT ![c] = kept]
               \/ UNCHANGED clientVars
       ELSE UNCHANGED <<host, clientVars>>
    /\ UNCHANGED <<storage, used, credential, serverKey>>

(* updateHost; the client was shown the version it sends. *)
BeginUpdate(c) ==
    /\ seen[c].version \in 1..MaxVersion
    /\ Begin(c, "updating", seen[c].version, host) /\ UNCHANGED clientVars

(* A new address resets the pinned key (trustReset). *)
Updated(copy, version, a) ==
    [version |-> version + 1, address |-> a,
     key |-> IF a # copy.address THEN {} ELSE copy.key]

(* A request that names no address keeps the one of the copy. *)
UpdateHost(c, a) ==
    /\ work[c].at = "updating"
    /\ Store(c, Updated(work[c].copy, work[c].version, a), probe[c])

-----------------------------------------------------------------------------
(* Host keys.                                                              *)

Probing == {c \in Clients : work[c].at = "probing"}

(* probeHostKey finds a free slot; the console notes the version of the    *)
(* record it shows before it asks.                                         *)
BeginProbe(c) ==
    /\ seen[c].version # 0
    /\ Cardinality(Probing) < ProbeSlots
    /\ Begin(c, "probing", seen[c].version, host) /\ UNCHANGED clientVars

(* The key the server at a presents: sshconnector's ProbeHostKey. *)
Presented(a) == [server |-> a, generation |-> serverKey[a]]

(* Mutant: the console notes the version when the answer arrives. *)
ProbeNoteLater(c) ==
    /\ work[c].at = "probing" /\ End(c)
    /\ probe' = [probe EXCEPT ![c] = {[version |-> seen[c].version,
                                       key |-> Presented(work[c].copy.address)]}]
    /\ UNCHANGED <<storage, used, host, credential, serverKey, seen>>

(* The address that was read is probed; a probe that fails is abandoned.   *)
ProbeHostKey(c) ==
    /\ work[c].at = "probing" /\ End(c)
    /\ probe' = [probe EXCEPT ![c] = {[version |-> work[c].version,
                                       key |-> Presented(work[c].copy.address)]}]
    /\ UNCHANGED <<storage, used, host, credential, serverKey, seen>>

(* pinHostKey; the operator has confirmed the key that was probed. *)
BeginPin(c) ==
    /\ \E p \in probe[c] : p.version <= MaxVersion /\ Begin(c, "pinning", p.version, host)
    /\ UNCHANGED clientVars

(* replacing: the record that was read has another key. *)
Replacing(copy, key) == copy.key # {} /\ copy.key # {key}

(* A replacement is confirmed, by an administrator who names the current   *)
(* key; expected is the key the client knows.                              *)
MayReplace(c, copy, replace, expected) ==
    replace /\ c \in Admins /\ copy.key = expected

(* Mutant: the key is added to the ones there are. *)
PinnedToo(copy, version, key) ==
    [copy EXCEPT !.version = version + 1, !.key = copy.key \cup {key}]

Pinned(copy, version, key) == [copy EXCEPT !.version = version + 1, !.key = {key}]

(* The console drops the probe when the key was pinned. *)
PinHostKey(c, replace) ==
    /\ work[c].at = "pinning"
    /\ \E p \in probe[c] :
          IF Replacing(work[c].copy, p.key)
                /\ ~MayReplace(c, work[c].copy, replace, seen[c].key)
          THEN End(c) /\ UNCHANGED <<storage, used, host, credential, serverKey, clientVars>>
          ELSE Store(c, Pinned(work[c].copy, work[c].version, p.key), {})

(* The server at an address gets a new key. *)
ChangeServerKey(a) ==
    /\ serverKey[a] < MaxKeys
    /\ serverKey' = [serverKey EXCEPT ![a] = @ + 1]
    /\ UNCHANGED <<storage, used, host, credential, clientVars, work>>

-----------------------------------------------------------------------------
(* Credentials and deletion.                                               *)

BeginPutCredential(c) == Begin(c, "sealing", 0, NoHost) /\ UNCHANGED clientVars

(* verifySecretScope looks the host up again, as Memory.PutCredential does. *)
SecretScopeExists == Exists

(* The key service has sealed the credential; Memory.PutCredential, or the *)
(* transaction of PutCurrentSecret.                                        *)
PutCredential(c) ==
    /\ work[c].at = "sealing" /\ End(c)
    /\ credential' = (credential \/ SecretScopeExists)
    /\ UNCHANGED <<storage, used, host, serverKey, clientVars>>

(* deleteCredential; the host is not looked up. *)
DeleteCredential ==
    /\ credential /\ credential' = FALSE
    /\ UNCHANGED <<storage, used, host, serverKey, clientVars, work>>

(* Memory.DeleteHost. *)
MemoryDeleteHost ==
    /\ storage = "memory" /\ Exists
    /\ host' = NoHost /\ credential' = FALSE
    /\ UNCHANGED <<storage, used, serverKey, clientVars, work>>

(* Postgres.DeleteHost: three statements, and no transaction around them.  *)
BeginDelete(c) ==
    /\ storage = "postgres"
    /\ Begin(c, "deleting", host.version, NoHost) /\ UNCHANGED clientVars

DeleteCurrentSecret(c) ==
    /\ work[c].at = "deleting"
    /\ work' = [work EXCEPT ![c].at = "unbound"]
    /\ credential' = FALSE
    /\ UNCHANGED <<storage, used, host, serverKey, clientVars>>

DeleteAsset(c) ==
    /\ work[c].at = "unbound" /\ End(c)
    /\ host' = IF host.version = work[c].version THEN NoHost ELSE host
    /\ UNCHANGED <<storage, used, credential, serverKey, clientVars>>

-----------------------------------------------------------------------------
ClientStep(c) ==
    \/ GetHost(c) \/ Abandon(c) \/ BeginUpdate(c)
    \/ BeginProbe(c) \/ ProbeHostKey(c) \/ BeginPin(c)
    \/ BeginPutCredential(c) \/ PutCredential(c)
    \/ BeginDelete(c) \/ DeleteCurrentSecret(c) \/ DeleteAsset(c)

Next ==
    \/ \E c \in Clients :
          \/ ClientStep(c)
          \/ \E a \in Addresses : CreateHost(c, a) \/ UpdateHost(c, a)
          \/ \E replace \in BOOLEAN : PinHostKey(c, replace)
    \/ \E a \in Addresses : ChangeServerKey(a)
    \/ DeleteCredential
    \/ MemoryDeleteHost

Spec == Init /\ [][Next]_vars

-----------------------------------------------------------------------------
(* Properties.                                                             *)

Records == [version : Nat, address : Addresses, key : {{}} \cup {{k} : k \in Keys}]

(* The variables keep their types; a host has at most one key. *)
HostTypeOK ==
    /\ storage \in {"memory", "postgres"}
    /\ used \in BOOLEAN /\ credential \in BOOLEAN
    /\ host \in Records
    /\ serverKey \in [Addresses -> 1..MaxKeys]
    /\ seen \in [Clients -> Records]
    /\ probe \in [Clients -> SUBSET [version : Nat, key : Keys]]
    /\ work \in [Clients -> [at : {"idle", "updating", "probing", "pinning", "sealing",
                                   "deleting", "unbound"},
                             version : Nat, copy : Records]]

(* No update is lost: a handler replaces the record it worked on, although *)
(* it compares the version the client sent and never the one it read       *)
(* (updateHost, pinHostKey, UpdateHost of the repositories).               *)
NoLostUpdate ==
    [][\A c \in Clients :
          /\ work[c].at \in {"updating", "pinning"} /\ work'[c] # work[c]
          /\ host' # host
          => work[c].copy = host]_vars

(* The key a host has pinned is one that the server at its address         *)
(* presented, however probes, updates of the address and confirmations of  *)
(* several clients overlap (updateHost, probeHostKey, pinHostKey, and the  *)
(* console, which pins for the version it had before it probed).           *)
KeyConfirmedForAddress ==
    \A k \in host.key : k.server = host.address /\ k.generation <= serverKey[k.server]

=============================================================================
