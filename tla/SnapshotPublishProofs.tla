------------------------ MODULE SnapshotPublishProofs ------------------------
(***************************************************************************)
(* Proofs about rebuild_maps' publication, when remap_db_from_cluster      *)
(* does not fail (~CompileMayFail).                                        *)
(*                                                                         *)
(* FreshWhenQuiet is not inductive: RebuildMapsPublish installs rbdb, and  *)
(* nothing in the invariant says what rbdb holds.  BuiltFresh says it:     *)
(* while the build waits for TSConfigSet with `changed` still clear, it    *)
(* holds the current cluster.  A watcher change in that window sets       *)
(* `changed`, which makes both conjuncts vacuous until the next build.     *)
(* BuiltNotNull, which the refinement proof uses, says the database        *)
(* waiting to be published is not NULL.                                    *)
(***************************************************************************)
EXTENDS SnapshotSlotProofs

(* The database built under cluster_lock and not yet published was
   compiled from the current cluster, unless a watcher changed it since. *)
BuiltFresh == rbpc = "built" /\ ~changed => data[rbdb] = cluster

(* The database built and not yet published is not NULL. *)
BuiltNotNull == rbpc = "built" => data[rbdb] # NoDb

PubInv == FreshWhenQuiet /\ BuiltFresh /\ BuiltNotNull

-----------------------------------------------------------------------------
(* The plugin starts with `changed` set and nothing built. *)
LEMMA InitPubInv == Init => PubInv
BY DEF Init, PubInv, FreshWhenQuiet, BuiltFresh, BuiltNotNull

(* Every step but the watchers' and rebuild_maps' leaves the rebuild
   variables alone. *)
LEMMA NextCases ==
    ASSUME [Next]_vars
    PROVE  \/ WatcherUpdate
           \/ RebuildMapsLocked
           \/ RebuildMapsPublish
           \/ UNCHANGED rebuildVars
<1>1. ASSUME NEW s \in SnapIds, Reclaim(s) PROVE UNCHANGED rebuildVars
    BY <1>1 DEF Reclaim
<1>2. ASSUME NEW t \in Txns,
             HandleRemapBegin(t) \/ HandleRemapRun(t) \/ HandleRemapCleanup(t)
             \/ ExternalLookup(t)
      PROVE  UNCHANGED rebuildVars
    BY <1>2 DEF HandleRemapBegin, HandleRemapRun, HandleRemapCleanup, ExternalLookup
<1>3. ASSUME NEW c \in Conns, TlsHookInvoked(c) \/ HandleTls(c)
      PROVE  UNCHANGED rebuildVars
    BY <1>3 DEF TlsHookInvoked, HandleTls
<1>4. QED
    BY <1>1, <1>2, <1>3 DEF Next, vars, rebuildVars

(* Every step keeps PubInv when compilation cannot fail. *)
LEMMA NextPubInv ==
    ASSUME ~CompileMayFail, TypeOK, PubInv, [Next]_vars
    PROVE  PubInv'
<1>1. CASE WatcherUpdate
    BY <1>1 DEF WatcherUpdate, PubInv, FreshWhenQuiet, BuiltFresh, BuiltNotNull
<1>2. CASE RebuildMapsLocked
    <2>1. nsnap + 1 \in SnapIds
        BY <1>2, ConstantsAssumption DEF RebuildMapsLocked, TypeOK, SnapIds, MaxSnap
    <2>2. data' = [data EXCEPT ![nsnap + 1] = cluster]
        BY <1>2 DEF RebuildMapsLocked
    <2>3. data'[rbdb'] = cluster /\ cluster' = cluster /\ cluster \in Versions
        BY <1>2, <2>1, <2>2 DEF RebuildMapsLocked, TypeOK
    <2>4. data'[rbdb'] # NoDb
        BY <2>3, ConstantsAssumption DEF Versions, NoDb
    <2>5. QED
        BY <1>2, <2>3, <2>4 DEF RebuildMapsLocked, PubInv, FreshWhenQuiet, BuiltFresh,
           BuiltNotNull
<1>3. CASE RebuildMapsPublish
    BY <1>3 DEF RebuildMapsPublish, PubInv, FreshWhenQuiet, BuiltFresh, BuiltNotNull
<1>4. CASE UNCHANGED rebuildVars
    BY <1>4 DEF rebuildVars, PubInv, FreshWhenQuiet, BuiltFresh, BuiltNotNull
<1>5. QED
    BY <1>1, <1>2, <1>3, <1>4, NextCases

-----------------------------------------------------------------------------
(* When remap_db_from_cluster cannot fail, no change is lost: whenever
   rebuild_maps is idle and `changed` is clear, the database in the slot
   was compiled from the current cluster, although TSConfigSet runs after
   cluster_lock is released and a watcher may change the cluster between
   the compilation and the publication. *)
THEOREM QuietMeansFresh ==
    ASSUME ~CompileMayFail
    PROVE  Spec => []FreshWhenQuiet
<1>1. Init => IInv /\ PubInv
    BY InitIInv, InitPubInv
<1>2. IInv /\ PubInv /\ [Next]_vars => (IInv /\ PubInv)'
    BY NextIInv, NextPubInv DEF IInv
<1>3. QED
    BY <1>1, <1>2, PTL DEF Spec, PubInv

=============================================================================
