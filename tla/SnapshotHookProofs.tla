------------------------- MODULE SnapshotHookProofs -------------------------
(***************************************************************************)
(* Proofs about the hooks' re-enables and handle_tls' version check, for   *)
(* every value of SnapshotSlot's constants.                                *)
(*                                                                         *)
(* ReenabledAtMostOnce is not inductive: HandleRemapRun and external_lookup *)
(* each add one re-enable, and nothing in "at most one" says that the      *)
(* transaction had none before.  ReenableCount says how many it has in     *)
(* each state of handle_remap: one once the transaction was re-enabled     *)
(* (called, done), none before.                                            *)
(***************************************************************************)
EXTENDS SnapshotSlotProofs

(* The states of handle_remap after the transaction's re-enable. *)
Reenabled == {"called", "done"}

ReenableCount ==
    \A t \in Txns : reenables[t] = IF tpc[t] \in Reenabled THEN 1 ELSE 0

HookInv == ReenableCount /\ TlsVersionEnforced

-----------------------------------------------------------------------------
(* The falling-through switch of handle_tls lets a client through only if
   its version is at least the host's minimum. *)
LEMMA AcceptedVersion ==
    ASSUME NEW r \in RequiredVersions, NEW v \in ClientVersions,
           ~TlsVersionRefused(r, v)
    PROVE  v >= r
BY DEF TlsVersionRefused, RequiredVersions, ClientVersions

LEMMA InitHookInv == Init => HookInv
BY DEF Init, HookInv, ReenableCount, Reenabled, TlsVersionEnforced

(* Steps of the rebuild and of the connections leave the transactions
   alone, and steps of the rebuild and of the transactions leave the
   connections alone. *)
LEMMA HookFrames ==
    ASSUME [Next]_vars
    PROVE  \/ UNCHANGED <<remapVars, tlsVars>>
           \/ \E t \in Txns : /\ HandleRemapBegin(t) \/ HandleRemapRun(t)
                                 \/ HandleRemapCleanup(t) \/ ExternalLookup(t)
                              /\ UNCHANGED tlsVars
           \/ \E c \in Conns : (TlsHookInvoked(c) \/ HandleTls(c)) /\ UNCHANGED remapVars
BY DEF Next, vars, remapVars, tlsVars, WatcherUpdate, RebuildMapsLocked,
       RebuildMapsPublish, Reclaim, HandleRemapBegin, HandleRemapRun,
       HandleRemapCleanup, ExternalLookup, TlsHookInvoked, HandleTls

(* A step of transaction t keeps the count of every transaction. *)
LEMMA TxnStepCount ==
    ASSUME TypeOK, ReenableCount, NEW t \in Txns,
           HandleRemapBegin(t) \/ HandleRemapRun(t) \/ HandleRemapCleanup(t)
           \/ ExternalLookup(t)
    PROVE  ReenableCount'
<1> USE DEF TypeOK, ReenableCount, Reenabled, RemapStates
<1>1. CASE HandleRemapBegin(t)
    BY <1>1 DEF HandleRemapBegin
<1>2. CASE HandleRemapRun(t)
    <2>1. PICK result \in {"ok", "other"}, target \in {"ip", "dns"}, contn \in BOOLEAN :
              LET lookup == data[tsnap[t]] # NoDb /\ result = "ok" /\ target = "dns" /\ contn
              IN  /\ tpc' = [tpc EXCEPT ![t] = IF lookup THEN "issued" ELSE "done"]
                  /\ reenables' = [reenables EXCEPT ![t] = IF lookup THEN @ ELSE @ + 1]
        BY <1>2 DEF HandleRemapRun
    <2>2. tpc[t] = "got"
        BY <1>2 DEF HandleRemapRun
    <2>3. QED
        BY <2>1, <2>2
<1>3. CASE HandleRemapCleanup(t)
    BY <1>3 DEF HandleRemapCleanup
<1>4. CASE ExternalLookup(t)
    BY <1>4 DEF ExternalLookup, AfterCallback
<1>5. QED
    BY <1>1, <1>2, <1>3, <1>4

(* handle_tls attaches a context only for a version the host accepts. *)
LEMMA TlsStepEnforced ==
    ASSUME TypeOK, TlsVersionEnforced, NEW c \in Conns,
           TlsHookInvoked(c) \/ HandleTls(c)
    PROVE  TlsVersionEnforced'
<1>1. CASE TlsHookInvoked(c)
    BY <1>1 DEF TlsHookInvoked, TlsVersionEnforced, TypeOK
<1>2. CASE HandleTls(c)
    <2>1. PICK sni \in Hosts \cup {NoSni}, version \in ClientVersions :
              \/ /\ sni = NoSni
                 /\ hpc' = [hpc EXCEPT ![c] = "stalled"]
                 /\ UNCHANGED hver
              \/ /\ sni # NoSni
                 /\ data[current] = NoDb
                 /\ hpc' = [hpc EXCEPT ![c] = "stalled"]
                 /\ UNCHANGED hver
              \/ /\ sni # NoSni
                 /\ data[current] # NoDb
                 /\ ~TlsAccepted(sni, version)
                 /\ hpc' = [hpc EXCEPT ![c] = "noctx"]
                 /\ UNCHANGED hver
              \/ /\ sni # NoSni
                 /\ data[current] # NoDb
                 /\ TlsAccepted(sni, version)
                 /\ hpc' = [hpc EXCEPT ![c] = "attached"]
                 /\ hver' = [hver EXCEPT ![c] = <<version, HostTls[sni].minver>>]
        BY <1>2 DEF HandleTls
    <2>2. CASE \E st \in {"stalled", "noctx"} : hpc' = [hpc EXCEPT ![c] = st] /\ UNCHANGED hver
        BY <2>2 DEF TlsVersionEnforced, TypeOK
    <2>3. CASE /\ TlsAccepted(sni, version)
               /\ hpc' = [hpc EXCEPT ![c] = "attached"]
               /\ hver' = [hver EXCEPT ![c] = <<version, HostTls[sni].minver>>]
        <3>1. sni \in DOMAIN HostTls /\ HostTls[sni].minver \in RequiredVersions
            BY <2>3, ConstantsAssumption DEF TlsAccepted
        <3>2. version >= HostTls[sni].minver
            BY <2>3, <3>1, AcceptedVersion DEF TlsAccepted
        <3>3. QED
            BY <2>3, <3>2 DEF TlsVersionEnforced, TypeOK
    <2>4. QED
        BY <2>1, <2>2, <2>3
<1>3. QED
    BY <1>1, <1>2

LEMMA NextHookInv ==
    ASSUME IInv, HookInv, [Next]_vars
    PROVE  HookInv'
<1>1. CASE UNCHANGED <<remapVars, tlsVars>>
    BY <1>1 DEF HookInv, ReenableCount, TlsVersionEnforced, remapVars, tlsVars
<1>2. CASE \E t \in Txns : /\ HandleRemapBegin(t) \/ HandleRemapRun(t)
                              \/ HandleRemapCleanup(t) \/ ExternalLookup(t)
                           /\ UNCHANGED tlsVars
    BY <1>2, TxnStepCount DEF IInv, HookInv, TlsVersionEnforced, tlsVars
<1>3. CASE \E c \in Conns : (TlsHookInvoked(c) \/ HandleTls(c)) /\ UNCHANGED remapVars
    BY <1>3, TlsStepEnforced DEF IInv, HookInv, ReenableCount, remapVars
<1>4. QED
    BY <1>1, <1>2, <1>3, HookFrames

-----------------------------------------------------------------------------
(* Spec section 7: handle_remap and external_lookup together re-enable each
   transaction at most once, whichever of TSHostLookup's callback and
   handle_remap's cleanup runs first. *)
THEOREM ReenabledOnce == Spec => []ReenabledAtMostOnce
<1>1. Init => IInv /\ HookInv
    BY InitIInv, InitHookInv
<1>2. IInv /\ HookInv /\ [Next]_vars => (IInv /\ HookInv)'
    BY NextIInv, NextHookInv
<1>3. IInv /\ HookInv => ReenabledAtMostOnce
    BY DEF IInv, TypeOK, HookInv, ReenableCount, ReenabledAtMostOnce
<1>4. QED
    BY <1>1, <1>2, <1>3, PTL DEF Spec

(* handle_tls attaches a host's SSL_CTX only to a handshake whose version
   is at least the host's rh_tls_version, through the fall-through switch. *)
THEOREM TlsVersionsEnforced == Spec => []TlsVersionEnforced
<1>1. Init => IInv /\ HookInv
    BY InitIInv, InitHookInv
<1>2. IInv /\ HookInv /\ [Next]_vars => (IInv /\ HookInv)'
    BY NextIInv, NextHookInv
<1>3. QED
    BY <1>1, <1>2, PTL DEF Spec, HookInv

====
