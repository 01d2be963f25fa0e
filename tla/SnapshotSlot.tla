---------------------------- MODULE SnapshotSlot ----------------------------
(***************************************************************************)
(* The life of a compiled remap database (a snapshot) in the plugin:       *)
(*                                                                         *)
(*  - the watchers change the cluster state under cluster_lock and set     *)
(*    state->changed (the watcher code is not under src/: spec_modelled);  *)
(*  - rebuild_maps (src/tsapi/remap.c) checks and clears `changed` and     *)
(*    compiles a database under cluster_lock, then, after the unlock,      *)
(*    publishes it with TSConfigSet;                                       *)
(*  - handle_remap takes a reference with TSConfigGet, runs the remap on   *)
(*    it, releases it with TSConfigRelease and re-enables the transaction, *)
(*    unless it started a DNS lookup whose callback external_lookup        *)
(*    re-enables it later;                                                 *)
(*  - handle_tls (src/tsapi/tls.c) reads the current database under a read *)
(*    lock at each TLS handshake, attaches the host's SSL_CTX and          *)
(*    re-enables the connection;                                           *)
(*  - the config slot (TSConfig) reclaims a replaced snapshot once its     *)
(*    last reference is released.                                          *)
(*                                                                         *)
(* A snapshot is an identifier in SnapIds; data[s] is the cluster version  *)
(* it was compiled from, or NoDb for the NULL database (the slot before    *)
(* the first build, or a compilation that returned NULL).                  *)
(***************************************************************************)
EXTENDS Integers, FiniteSets

CONSTANTS
    Txns,            \* HTTP transactions that reach handle_remap
    Conns,           \* TLS connections that reach handle_tls
    Hosts,           \* host names a client may send (SNI)
    NoSni,           \* the absent server name (SSL_get_servername = NULL)
    HostTls,         \* host -> [ctx, minver] of the hosts with a remap_host
    MaxChanges,      \* bound on the number of cluster changes
    CompileMayFail   \* whether remap_db_from_cluster may return NULL

(* TLS protocol versions as SSL_get_version names them, in order:
   0 = SSLv3, 1 = TLSv1, 2 = TLSv1.1, 3 = TLSv1.2, 4 = TLSv1.3.  The
   required minimum rh_tls_version is REMAP_TLS_1_0 .. REMAP_TLS_1_2,
   written 1 .. 3 on the same scale. *)
ClientVersions == 0..4
RequiredVersions == 1..3

ASSUME ConstantsAssumption ==
    /\ IsFiniteSet(Txns)
    /\ MaxChanges \in Nat
    /\ NoSni \notin Hosts
    /\ DOMAIN HostTls \subseteq Hosts
    /\ \A h \in DOMAIN HostTls :
          /\ HostTls[h].ctx \in BOOLEAN
          /\ HostTls[h].minver \in RequiredVersions
    /\ CompileMayFail \in BOOLEAN

NoDb == -1
Versions == 0..MaxChanges
(* Every build needs `changed`, which only the initial state and a cluster
   change set, so MaxChanges + 1 builds are the most a run can make. *)
MaxSnap == MaxChanges + 1
SnapIds == 0..MaxSnap

VARIABLES
    cluster,    \* version of the cluster state (state->cluster)
    changed,    \* state->changed
    rbpc,       \* rebuild_maps: "idle", or "built" between unlock and TSConfigSet
    rbdb,       \* the database rebuild_maps built and has not published yet
    nsnap,      \* snapshots created so far: ids 0..nsnap are in use
    data,       \* snapshot -> cluster version compiled, or NoDb
    current,    \* the snapshot in the config slot
    retired,    \* snapshots replaced in the slot by TSConfigSet
    refs,       \* snapshot -> references taken by TSConfigGet and not released
    freed,      \* snapshots reclaimed (remap_db_free has run)
    tpc,        \* handle_remap: "idle", "got" (reference taken), "issued"
                \* (TSHostLookup started, cleanup not yet run), "called"
                \* (external_lookup ran before cleanup), "lookup" (cleanup
                \* ran, callback pending), "done"
    tsnap,      \* the snapshot a transaction took with TSConfigGet
    reenables,  \* TSHttpTxnReenable calls made for the current transaction
    srvaddr,    \* server address set: "none", "ip" (inet_pton) or "dns" (lookup)
    hpc,        \* handle_tls: "idle", "invoked", "stalled", "noctx", "attached"
    hver        \* [client, required] TLS versions when a context was attached

vars == <<cluster, changed, rbpc, rbdb, nsnap, data, current, retired, refs,
          freed, tpc, tsnap, reenables, srvaddr, hpc, hver>>

rebuildVars == <<cluster, changed, rbpc, rbdb, nsnap, data, current, retired>>
remapVars == <<tpc, tsnap, reenables, srvaddr>>
tlsVars == <<hpc, hver>>

RemapStates == {"idle", "got", "issued", "called", "lookup", "done"}

(* The states in which handle_remap holds its TSConfigGet reference. *)
Holding == {"got", "issued", "called"}

TypeOK ==
    /\ cluster \in Versions
    /\ changed \in BOOLEAN
    /\ rbpc \in {"idle", "built"}
    /\ rbdb \in SnapIds
    /\ nsnap \in SnapIds
    /\ data \in [SnapIds -> Versions \cup {NoDb}]
    /\ current \in SnapIds
    /\ retired \subseteq SnapIds
    /\ refs \in [SnapIds -> Nat]
    /\ freed \subseteq SnapIds
    /\ tpc \in [Txns -> RemapStates]
    /\ tsnap \in [Txns -> SnapIds]
    /\ reenables \in [Txns -> Nat]
    /\ srvaddr \in [Txns -> {"none", "ip", "dns"}]
    /\ hpc \in [Conns -> {"idle", "invoked", "stalled", "noctx", "attached"}]
    /\ hver \in [Conns -> ClientVersions \X (RequiredVersions \cup {0})]

(* The plugin starts with an empty slot and `changed` set, so that the
   first rebuild_maps builds a database. *)
Init ==
    /\ cluster = 0
    /\ changed = TRUE
    /\ rbpc = "idle"
    /\ rbdb = 0
    /\ nsnap = 0
    /\ data = [s \in SnapIds |-> NoDb]
    /\ current = 0
    /\ retired = {}
    /\ refs = [s \in SnapIds |-> 0]
    /\ freed = {}
    /\ tpc = [t \in Txns |-> "idle"]
    /\ tsnap = [t \in Txns |-> 0]
    /\ reenables = [t \in Txns |-> 0]
    /\ srvaddr = [t \in Txns |-> "none"]
    /\ hpc = [c \in Conns |-> "idle"]
    /\ hver = [c \in Conns |-> <<0, 0>>]

-----------------------------------------------------------------------------
(* A watcher applies an object change to the cluster under cluster_lock
   and sets changed. *)
WatcherUpdate ==
    /\ cluster < MaxChanges
    /\ cluster' = cluster + 1
    /\ changed' = TRUE
    /\ UNCHANGED <<rbpc, rbdb, nsnap, data, current, retired, refs, freed>>
    /\ UNCHANGED <<remapVars, tlsVars>>

(* Mutant: rebuild_maps recompiles the database in the slot in place
   instead of building a new one. *)
RebuildMapsLockedInPlace ==
    /\ rbpc = "idle"
    /\ changed
    /\ nsnap < MaxSnap
    /\ \E ok \in IF CompileMayFail THEN BOOLEAN ELSE {TRUE} :
          data' = [data EXCEPT ![current] = IF ok THEN cluster ELSE NoDb]
    /\ rbdb' = current
    /\ changed' = FALSE
    /\ rbpc' = "built"
    /\ UNCHANGED <<cluster, nsnap, current, retired, refs, freed>>
    /\ UNCHANGED <<remapVars, tlsVars>>

(* rebuild_maps under cluster_lock: with `changed` set, compile the
   cluster and clear changed (without it, rebuild_maps unlocks and
   returns, a step that changes nothing).  remap_db_from_cluster may
   return NULL when CompileMayFail. *)
RebuildMapsLocked ==
    /\ rbpc = "idle"
    /\ changed
    /\ nsnap < MaxSnap
    /\ \E ok \in IF CompileMayFail THEN BOOLEAN ELSE {TRUE} :
          data' = [data EXCEPT ![nsnap + 1] = IF ok THEN cluster ELSE NoDb]
    /\ nsnap' = nsnap + 1
    /\ rbdb' = nsnap + 1
    /\ changed' = FALSE
    /\ rbpc' = "built"
    /\ UNCHANGED <<cluster, current, retired, refs, freed>>
    /\ UNCHANGED <<remapVars, tlsVars>>

(* Mutant: `changed` cleared at publication, after the unlock. *)
RebuildMapsPublishClearing ==
    /\ rbpc = "built"
    /\ current' = rbdb
    /\ retired' = retired \cup {current}
    /\ rbpc' = "idle"
    /\ changed' = FALSE
    /\ UNCHANGED <<cluster, rbdb, nsnap, data, refs, freed>>
    /\ UNCHANGED <<remapVars, tlsVars>>

(* Mutant: a database is installed only into an empty slot. *)
RebuildMapsPublishFirstOnly ==
    /\ rbpc = "built"
    /\ current' = IF data[current] = NoDb THEN rbdb ELSE current
    /\ retired' = IF data[current] = NoDb THEN retired \cup {current} ELSE retired
    /\ rbpc' = "idle"
    /\ UNCHANGED <<cluster, changed, rbdb, nsnap, data, refs, freed>>
    /\ UNCHANGED <<remapVars, tlsVars>>

(* rebuild_maps after the unlock: TSConfigSet installs the new database,
   NULL or not; the slot drops its reference to the one it replaces. *)
RebuildMapsPublish ==
    /\ rbpc = "built"
    /\ current' = rbdb
    /\ retired' = retired \cup {current}
    /\ rbpc' = "idle"
    /\ UNCHANGED <<cluster, changed, rbdb, nsnap, data, refs, freed>>
    /\ UNCHANGED <<remapVars, tlsVars>>

(* The slot runs remap_db_free on a replaced snapshot nobody holds. *)
Reclaim(s) ==
    /\ s \in retired \ freed
    /\ refs[s] = 0
    /\ freed' = freed \cup {s}
    /\ UNCHANGED <<rebuildVars, refs, remapVars, tlsVars>>

-----------------------------------------------------------------------------
(* Mutant: the database is read from the slot without taking a reference. *)
HandleRemapBeginNoRef(t) ==
    /\ tpc[t] \in {"idle", "done"}
    /\ tsnap' = [tsnap EXCEPT ![t] = current]
    /\ tpc' = [tpc EXCEPT ![t] = "got"]
    /\ reenables' = [reenables EXCEPT ![t] = 0]
    /\ srvaddr' = [srvaddr EXCEPT ![t] = "none"]
    /\ UNCHANGED <<rebuildVars, refs, freed, tlsVars>>

(* handle_remap up to TSConfigGet, for a new transaction on handler t:
   take a reference to the snapshot in the slot. *)
HandleRemapBegin(t) ==
    /\ tpc[t] \in {"idle", "done"}
    /\ tsnap' = [tsnap EXCEPT ![t] = current]
    /\ refs' = [refs EXCEPT ![current] = @ + 1]
    /\ tpc' = [tpc EXCEPT ![t] = "got"]
    /\ reenables' = [reenables EXCEPT ![t] = 0]
    /\ srvaddr' = [srvaddr EXCEPT ![t] = "none"]
    /\ UNCHANGED <<rebuildVars, freed, tlsVars>>

(* Mutant: reenable is not cleared when the lookup starts. *)
HandleRemapRunKeepReenable(t) ==
    /\ tpc[t] = "got"
    /\ \E result \in {"ok", "other"}, target \in {"ip", "dns"}, contn \in BOOLEAN :
          LET lookup == data[tsnap[t]] # NoDb /\ result = "ok" /\ target = "dns" /\ contn
              ip == data[tsnap[t]] # NoDb /\ result = "ok" /\ target = "ip"
          IN  /\ tpc' = [tpc EXCEPT ![t] = IF lookup THEN "issued" ELSE "done"]
              /\ refs' = IF lookup THEN refs ELSE [refs EXCEPT ![tsnap[t]] = @ - 1]
              /\ reenables' = [reenables EXCEPT ![t] = @ + 1]
              /\ srvaddr' = [srvaddr EXCEPT ![t] = IF ip THEN "ip" ELSE "none"]
    /\ UNCHANGED <<rebuildVars, freed, tsnap, tlsVars>>

(* The rest of handle_remap, up to its cleanup label.  With no database,
   or any result of remap_run but RR_OK, it goes to cleanup.  With RR_OK
   and an IP target it sets the server address; with a DNS name it creates
   the external_lookup continuation, or goes to cleanup if that fails.
   Every path but the lookup runs cleanup in the same step: TSConfigRelease
   and the re-enable.  The lookup path calls TSHostLookup and clears
   reenable; its cleanup is HandleRemapCleanup, and Traffic Server may run
   external_lookup before it, even from inside TSHostLookup. *)
HandleRemapRun(t) ==
    /\ tpc[t] = "got"
    /\ \E result \in {"ok", "other"}, target \in {"ip", "dns"}, contn \in BOOLEAN :
          LET lookup == data[tsnap[t]] # NoDb /\ result = "ok" /\ target = "dns" /\ contn
              ip == data[tsnap[t]] # NoDb /\ result = "ok" /\ target = "ip"
          IN  /\ tpc' = [tpc EXCEPT ![t] = IF lookup THEN "issued" ELSE "done"]
              /\ refs' = IF lookup THEN refs ELSE [refs EXCEPT ![tsnap[t]] = @ - 1]
              /\ reenables' = [reenables EXCEPT ![t] = IF lookup THEN @ ELSE @ + 1]
              /\ srvaddr' = [srvaddr EXCEPT ![t] = IF ip THEN "ip" ELSE "none"]
    /\ UNCHANGED <<rebuildVars, freed, tsnap, tlsVars>>

(* handle_remap's cleanup after it started a lookup: TSConfigRelease; the
   transaction is not re-enabled, since reenable = 0. *)
HandleRemapCleanup(t) ==
    /\ tpc[t] \in {"issued", "called"}
    /\ refs' = [refs EXCEPT ![tsnap[t]] = @ - 1]
    /\ tpc' = [tpc EXCEPT ![t] = IF tpc[t] = "issued" THEN "lookup" ELSE "done"]
    /\ UNCHANGED <<rebuildVars, freed, tsnap, reenables, srvaddr, tlsVars>>

(* The callback's next state: before handle_remap's cleanup, or after. *)
AfterCallback(t) == IF tpc[t] = "issued" THEN "called" ELSE "done"

(* Mutant: the callback releases the slot reference a second time. *)
ExternalLookupReleasing(t) ==
    /\ tpc[t] \in {"issued", "lookup"}
    /\ \E found \in BOOLEAN :
          srvaddr' = [srvaddr EXCEPT ![t] = IF found THEN "dns" ELSE "none"]
    /\ tpc' = [tpc EXCEPT ![t] = AfterCallback(t)]
    /\ reenables' = [reenables EXCEPT ![t] = @ + 1]
    /\ refs' = [refs EXCEPT ![tsnap[t]] = @ - 1]
    /\ UNCHANGED <<rebuildVars, freed, tsnap, tlsVars>>

(* Mutant: the transaction is re-enabled only when the lookup found an
   address. *)
ExternalLookupReenableIfFound(t) ==
    /\ tpc[t] \in {"issued", "lookup"}
    /\ \E found \in BOOLEAN :
          /\ srvaddr' = [srvaddr EXCEPT ![t] = IF found THEN "dns" ELSE "none"]
          /\ reenables' = [reenables EXCEPT ![t] = IF found THEN @ + 1 ELSE @]
    /\ tpc' = [tpc EXCEPT ![t] = AfterCallback(t)]
    /\ UNCHANGED <<rebuildVars, refs, freed, tsnap, tlsVars>>

(* external_lookup: the host lookup finished; set the server address if
   it found one, re-enable the transaction, destroy the continuation. *)
ExternalLookup(t) ==
    /\ tpc[t] \in {"issued", "lookup"}
    /\ \E found \in BOOLEAN :
          srvaddr' = [srvaddr EXCEPT ![t] = IF found THEN "dns" ELSE "none"]
    /\ tpc' = [tpc EXCEPT ![t] = AfterCallback(t)]
    /\ reenables' = [reenables EXCEPT ![t] = @ + 1]
    /\ UNCHANGED <<rebuildVars, refs, freed, tsnap, tlsVars>>

-----------------------------------------------------------------------------
(* Mutant: each case of the switch ends with a break. *)
TlsVersionRefusedNoFallthrough(required, version) ==
    \/ required = 3 /\ version = 2
    \/ required = 2 /\ version = 1
    \/ required = 1 /\ version = 0

(* The switch on rh_tls_version in handle_tls, whose cases fall through:
   REMAP_TLS_1_2 refuses TLSv1.1 and then falls into the TLSv1 and SSLv3
   checks, REMAP_TLS_1_1 refuses TLSv1 and SSLv3, REMAP_TLS_1_0 SSLv3. *)
TlsVersionRefused(required, version) ==
    \/ required = 3 /\ version = 2
    \/ required \in {2, 3} /\ version = 1
    \/ required \in {1, 2, 3} /\ version = 0

(* remap_db_get_host finds the host, it has an SSL_CTX (rh_ctx) and the
   version switch lets the client through. *)
TlsAccepted(sni, version) ==
    /\ sni \in DOMAIN HostTls
    /\ HostTls[sni].ctx
    /\ ~TlsVersionRefused(HostTls[sni].minver, version)

(* A new TLS handshake on connection slot c reaches the SNI hook. *)
TlsHookInvoked(c) ==
    /\ hpc[c] \in {"idle", "noctx", "attached"}
    /\ hpc' = [hpc EXCEPT ![c] = "invoked"]
    /\ UNCHANGED <<rebuildVars, refs, freed, remapVars, hver>>

(* handle_tls, which holds the read lock while it reads the database.
   With no server name, or no database, it returns without
   TSVConnReenable; otherwise it attaches the context when TlsAccepted
   and re-enables the connection at cleanup. *)
HandleTls(c) ==
    /\ hpc[c] = "invoked"
    /\ \E sni \in Hosts \cup {NoSni}, version \in ClientVersions :
          \/ /\ sni = NoSni
             /\ hpc' = [hpc EXCEPT ![c] = "stalled"]
             /\ UNCHANGED hver
          \/ /\ sni # NoSni
             /\ data[current] = NoDb
             /\ hpc' = [hpc EXCEPT ![c] = "stalled"]
             /\ UNCHANGED hver
          \/ /\ sni # NoSni
             /\ data[current] # NoDb
             /\ ~TlsAccepted(sni, version)
             /\ hpc' = [hpc EXCEPT ![c] = "noctx"]
             /\ UNCHANGED hver
          \/ /\ sni # NoSni
             /\ data[current] # NoDb
             /\ TlsAccepted(sni, version)
             /\ hpc' = [hpc EXCEPT ![c] = "attached"]
             /\ hver' = [hver EXCEPT ![c] = <<version, HostTls[sni].minver>>]
    /\ UNCHANGED <<rebuildVars, refs, freed, remapVars>>

-----------------------------------------------------------------------------
Next ==
    \/ WatcherUpdate
    \/ RebuildMapsLocked
    \/ RebuildMapsPublish
    \/ \E s \in SnapIds : Reclaim(s)
    \/ \E t \in Txns : HandleRemapBegin(t) \/ HandleRemapRun(t)
                          \/ HandleRemapCleanup(t) \/ ExternalLookup(t)
    \/ \E c \in Conns : TlsHookInvoked(c) \/ HandleTls(c)

(* rebuild_maps runs from a periodic continuation; Traffic Server runs
   every handler hooked to an event that happened and calls every
   host-lookup continuation back, with or without a result.  New requests
   and handshakes are the clients' choice: no fairness. *)
Fairness ==
    /\ WF_vars(RebuildMapsLocked)
    /\ WF_vars(RebuildMapsPublish)
    /\ \A t \in Txns : WF_vars(HandleRemapRun(t)) /\ WF_vars(HandleRemapCleanup(t))
                          /\ WF_vars(ExternalLookup(t))
    /\ \A c \in Conns : WF_vars(HandleTls(c))

Spec == Init /\ [][Next]_vars /\ Fairness

-----------------------------------------------------------------------------
(* Properties.                                                             *)

(* No use after free: a transaction between TSConfigGet and
   TSConfigRelease in handle_remap holds a database that the slot has not
   reclaimed, however rebuild_maps publishes meanwhile, and also while
   external_lookup has already re-enabled the transaction before
   handle_remap reached its cleanup. *)
NoUseAfterFree ==
    \A t \in Txns : tpc[t] \in Holding => tsnap[t] \notin freed

(* No lost update: once rebuild_maps is idle and `changed` is clear, the
   published database was compiled from the current cluster state, even
   when a watcher changed the cluster between the compilation and the
   TSConfigSet that happens after cluster_lock is released. *)
FreshWhenQuiet ==
    rbpc = "idle" /\ ~changed => data[current] = cluster

(* handle_remap and external_lookup between them re-enable each
   transaction at most once (reenable = 0 when a lookup is pending). *)
ReenabledAtMostOnce ==
    \A t \in Txns : reenables[t] <= 1

(* handle_tls attaches a host's SSL_CTX only to a client whose TLS version
   is at least the host's minimum, through the fall-through switch. *)
TlsVersionEnforced ==
    \A c \in Conns : hpc[c] = "attached" => hver[c][1] >= hver[c][2]

(* Every transaction handle_remap sees is eventually re-enabled, by
   handle_remap itself or by external_lookup. *)
RemapReenabled ==
    \A t \in Txns : tpc[t] = "got" ~> (tpc[t] = "done" /\ reenables[t] = 1)

(* Once the watchers stop, the published database eventually reflects
   the last cluster state and stays so. *)
EventuallyFresh ==
    <>[](rbpc = "idle" /\ data[current] = cluster)

(* Every TLS handshake that reaches handle_tls is eventually re-enabled
   with TSVConnReenable, with or without a context attached. *)
HandshakeReenabled ==
    \A c \in Conns : hpc[c] = "invoked" ~> hpc[c] \in {"noctx", "attached"}

(* Spec section 7: a failed compilation leaves the previously published
   database in place; once a database is published, requests never see
   the slot without one again. *)
DbNeverWithdrawn ==
    [][data[current] # NoDb => data[current'] # NoDb]_vars

-----------------------------------------------------------------------------
(* Refinement.  The slot seen from the hooks: the published database is
   the one in the slot, and a transaction between TSConfigGet and
   TSConfigRelease holds the database of the snapshot it took. *)
NotHeld == -2

Abs == INSTANCE SnapshotAbstract WITH
           published <- data[current],
           held <- [t \in Txns |-> IF tpc[t] \in Holding THEN data[tsnap[t]] ELSE NotHeld]

(* The slot implements the abstract snapshot: each publication is no older
   than the last, a transaction keeps seeing the very database it took
   with TSConfigGet until TSConfigRelease, however rebuild_maps compiles
   and publishes meanwhile, and the slot catches up with the cluster. *)
SlotRefinesAbstract == Abs!Spec

=============================================================================
