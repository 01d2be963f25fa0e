---------------------- MODULE SnapshotRefinementProofs ----------------------
(***************************************************************************)
(* The safety part of SlotRefinesAbstract, for every value of the          *)
(* constants, when remap_db_from_cluster does not fail.                    *)
(*                                                                         *)
(* Under the mapping, RebuildMapsLocked is a stutter because it writes a   *)
(* new snapshot id, one above every id in the slot or held by a            *)
(* transaction (Created).  RebuildMapsPublish is an abstract Publish       *)
(* because snapshots are compiled in the order of their ids from a         *)
(* cluster that only grows (Monotone, Bounded), so the one it installs is  *)
(* no older than the one it replaces.                                      *)
(***************************************************************************)
EXTENDS SnapshotPublishProofs

(* Every snapshot created so far was compiled from a cluster version no
   later than the current one. *)
Bounded == \A x \in SnapIds : x <= nsnap => data[x] <= cluster

(* Snapshots are compiled in the order of their ids. *)
Monotone == \A x, y \in SnapIds : x <= y /\ y <= nsnap => data[x] <= data[y]

(* Every snapshot a transaction took had been created. *)
Created == \A t \in Txns : tsnap[t] <= nsnap

RInv == Bounded /\ Monotone /\ Created

(* The abstract reader state under the refinement mapping. *)
heldMap == [t \in Txns |-> IF tpc[t] \in Holding THEN data[tsnap[t]] ELSE NotHeld]

(* The safety part of the abstract specification. *)
AbsSafety == Abs!Init /\ [][Abs!Next]_Abs!avars

-----------------------------------------------------------------------------
(* No snapshot exists at the start but the empty slot. *)
LEMMA InitRInv == Init => RInv
BY DEF Init, RInv, Bounded, Monotone, Created, NoDb, SnapIds

(* Only the watchers, rebuild_maps' compilation and handle_remap's
   TSConfigGet touch the cluster, the snapshots or the ids transactions
   hold. *)
LEMMA NextCasesR ==
    ASSUME [Next]_vars
    PROVE  \/ WatcherUpdate
           \/ RebuildMapsLocked
           \/ \E t \in Txns : HandleRemapBegin(t)
           \/ UNCHANGED <<cluster, nsnap, data, tsnap>>
<1>1. CASE RebuildMapsPublish
    BY <1>1 DEF RebuildMapsPublish, remapVars
<1>2. ASSUME NEW t \in Txns,
             HandleRemapRun(t) \/ HandleRemapCleanup(t) \/ ExternalLookup(t)
      PROVE  UNCHANGED <<cluster, nsnap, data, tsnap>>
    BY <1>2 DEF HandleRemapRun, HandleRemapCleanup, ExternalLookup, rebuildVars
<1>3. CASE UNCHANGED rebuildVars /\ UNCHANGED tsnap
    BY <1>3 DEF rebuildVars
<1>4. ASSUME NEW s \in SnapIds, Reclaim(s) PROVE UNCHANGED tsnap
    BY <1>4 DEF Reclaim, remapVars
<1>5. ASSUME NEW c \in Conns, TlsHookInvoked(c) \/ HandleTls(c)
      PROVE  UNCHANGED tsnap
    BY <1>5 DEF TlsHookInvoked, HandleTls, remapVars
<1>6. QED
    BY <1>1, <1>2, <1>3, <1>4, <1>5, NextCases DEF Next, vars

(* Every step keeps RInv. *)
LEMMA NextRInv ==
    ASSUME ~CompileMayFail, IInv, RInv, [Next]_vars
    PROVE  RInv'
<1>0. TypeOK /\ SlotInv
    BY DEF IInv
<1>1. CASE WatcherUpdate
    <2>1. UNCHANGED <<nsnap, data, tsnap>> /\ cluster' = cluster + 1
        BY <1>1 DEF WatcherUpdate, remapVars
    <2>2. Bounded'
        <3>1. \A x \in SnapIds : data[x] \in Int
            BY <1>0, ConstantsAssumption DEF TypeOK, Versions, NoDb
        <3>2. QED
            BY <2>1, <3>1, <1>0 DEF RInv, Bounded, TypeOK, Versions
    <2>3. QED
        BY <2>1, <2>2 DEF RInv, Monotone, Created
<1>2. CASE RebuildMapsLocked
    <2>1. data' = [data EXCEPT ![nsnap + 1] = cluster]
        BY <1>2 DEF RebuildMapsLocked
    <2>2. nsnap + 1 \in SnapIds /\ nsnap' = nsnap + 1 /\ cluster' = cluster
          /\ UNCHANGED tsnap
        BY <1>0, <1>2, ConstantsAssumption DEF RebuildMapsLocked, TypeOK, SnapIds,
           MaxSnap, remapVars
    <2>3. Bounded'
        BY <1>0, <2>1, <2>2, ConstantsAssumption DEF RInv, Bounded, TypeOK, SnapIds,
           MaxSnap, Versions, NoDb
    <2>4. Monotone'
        BY <1>0, <2>1, <2>2, ConstantsAssumption DEF RInv, Bounded, Monotone, TypeOK,
           SnapIds, MaxSnap, Versions, NoDb
    <2>5. Created'
        BY <1>0, <2>2 DEF RInv, Created, TypeOK, SnapIds
    <2>6. QED
        BY <2>3, <2>4, <2>5 DEF RInv
<1>3. ASSUME NEW t \in Txns, HandleRemapBegin(t)
      PROVE  RInv'
    BY <1>0, <1>3 DEF HandleRemapBegin, RInv, Bounded, Monotone, Created, SlotInv,
       TypeOK, rebuildVars
<1>4. CASE UNCHANGED <<cluster, nsnap, data, tsnap>>
    BY <1>4 DEF RInv, Bounded, Monotone, Created
<1>5. QED
    BY <1>1, <1>2, <1>3, <1>4, NextCasesR

(* Every invariant this refinement rests on. *)
AllInv == IInv /\ PubInv /\ RInv

(* Every step of the slot is a step of the abstract snapshot, or leaves
   it unchanged. *)
LEMMA RefinementStep ==
    ASSUME ~CompileMayFail, AllInv, [Next]_vars
    PROVE  [Abs!Next]_Abs!avars
<1>0. TypeOK /\ SlotInv /\ PubInv /\ RInv
    BY DEF AllInv, IInv
<1> USE DEF Abs!avars
<1>1. CASE WatcherUpdate
    BY <1>0, <1>1 DEF WatcherUpdate, Abs!Next, Abs!Change, remapVars
<1>2. CASE RebuildMapsLocked
    <2>1. data' = [data EXCEPT ![nsnap + 1] = cluster]
        BY <1>2 DEF RebuildMapsLocked
    <2>2. current <= nsnap /\ \A t \in Txns : tsnap[t] <= nsnap
        BY <1>0 DEF SlotInv, RInv, Created
    <2>3. data'[current'] = data[current]
        BY <1>0, <1>2, <2>1, <2>2 DEF RebuildMapsLocked, TypeOK, SnapIds
    <2>4. heldMap' = heldMap
        BY <1>0, <1>2, <2>1, <2>2 DEF RebuildMapsLocked, heldMap, TypeOK, SnapIds,
           remapVars
    <2>5. QED
        BY <1>2, <2>3, <2>4 DEF RebuildMapsLocked, heldMap
<1>3. CASE RebuildMapsPublish
    <2>1. data[rbdb] \in Versions
        BY <1>0, <1>3 DEF RebuildMapsPublish, PubInv, BuiltNotNull, TypeOK
    <2>2. data[current] <= data[rbdb] /\ data[rbdb] <= cluster
        BY <1>0, <1>3 DEF RebuildMapsPublish, SlotInv, RInv, Bounded, Monotone, TypeOK,
           SnapIds
    <2>3. heldMap' = heldMap
        BY <1>3 DEF RebuildMapsPublish, heldMap, remapVars
    <2>4. QED
        BY <1>3, <2>1, <2>2, <2>3 DEF RebuildMapsPublish, Abs!Next, Abs!Publish,
           Abs!Versions, Versions, heldMap
<1>4. ASSUME NEW t \in Txns, HandleRemapBegin(t)
      PROVE  [Abs!Next]_Abs!avars
    <2>1. heldMap[t] = NotHeld
        BY <1>4 DEF HandleRemapBegin, heldMap, Holding
    <2>2. heldMap' = [heldMap EXCEPT ![t] = data[current]]
        BY <1>0, <1>4 DEF HandleRemapBegin, heldMap, Holding, TypeOK, rebuildVars
    <2>3. Abs!Get(t)
        BY <1>4, <2>1, <2>2 DEF HandleRemapBegin, Abs!Get, Abs!None, NotHeld, heldMap,
           rebuildVars
    <2>4. QED
        BY <2>3 DEF Abs!Next
<1>5. ASSUME NEW t \in Txns, HandleRemapRun(t)
      PROVE  [Abs!Next]_Abs!avars
    <2>1. PICK result \in {"ok", "other"}, target \in {"ip", "dns"}, contn \in BOOLEAN :
              LET lookup == data[tsnap[t]] # NoDb /\ result = "ok" /\ target = "dns" /\ contn
              IN  tpc' = [tpc EXCEPT ![t] = IF lookup THEN "issued" ELSE "done"]
        BY <1>5 DEF HandleRemapRun
    <2>2. tpc[t] = "got" /\ UNCHANGED <<rebuildVars, tsnap>>
        BY <1>5 DEF HandleRemapRun
    <2>3. heldMap[t] = data[tsnap[t]] /\ data[tsnap[t]] # NotHeld
        BY <1>0, <2>2, ConstantsAssumption DEF heldMap, Holding, TypeOK, NotHeld, NoDb,
           Versions
    <2>4. heldMap' = heldMap \/ heldMap' = [heldMap EXCEPT ![t] = NotHeld]
        BY <1>0, <2>1, <2>2 DEF heldMap, Holding, TypeOK, rebuildVars
    <2>5. CASE heldMap' = heldMap
        BY <2>2, <2>5 DEF heldMap, rebuildVars
    <2>6. CASE heldMap' = [heldMap EXCEPT ![t] = NotHeld]
        <3>1. Abs!Release(t)
            BY <2>2, <2>3, <2>6 DEF Abs!Release, Abs!None, NotHeld, heldMap, rebuildVars
        <3>2. QED
            BY <3>1 DEF Abs!Next
    <2>7. QED
        BY <2>4, <2>5, <2>6
<1>6. ASSUME NEW t \in Txns, HandleRemapCleanup(t)
      PROVE  [Abs!Next]_Abs!avars
    <2>1. heldMap[t] = data[tsnap[t]] /\ data[tsnap[t]] # NotHeld
        BY <1>0, <1>6, ConstantsAssumption DEF HandleRemapCleanup, heldMap, Holding, TypeOK,
           NotHeld, NoDb, Versions
    <2>2. heldMap' = [heldMap EXCEPT ![t] = NotHeld]
        BY <1>0, <1>6 DEF HandleRemapCleanup, heldMap, Holding, TypeOK, rebuildVars
    <2>3. Abs!Release(t)
        BY <1>6, <2>1, <2>2 DEF HandleRemapCleanup, Abs!Release, Abs!None, NotHeld,
           heldMap, rebuildVars
    <2>4. QED
        BY <2>3 DEF Abs!Next
<1>7. ASSUME NEW t \in Txns, ExternalLookup(t)
      PROVE  [Abs!Next]_Abs!avars
    <2>1. heldMap' = heldMap
        BY <1>0, <1>7 DEF ExternalLookup, AfterCallback, heldMap, Holding, TypeOK,
           rebuildVars
    <2>2. QED
        BY <1>7, <2>1 DEF ExternalLookup, heldMap, rebuildVars
<1>8. ASSUME NEW s \in SnapIds, Reclaim(s)
      PROVE  [Abs!Next]_Abs!avars
    BY <1>8 DEF Reclaim, heldMap, rebuildVars, remapVars
<1>9. ASSUME NEW c \in Conns, TlsHookInvoked(c) \/ HandleTls(c)
      PROVE  [Abs!Next]_Abs!avars
    BY <1>9 DEF TlsHookInvoked, HandleTls, heldMap, rebuildVars, remapVars
<1>10. CASE UNCHANGED vars
    BY <1>10 DEF vars, heldMap
<1>11. QED
    BY <1>1, <1>2, <1>3, <1>4, <1>5, <1>6, <1>7, <1>8, <1>9, <1>10 DEF Next

-----------------------------------------------------------------------------
(* When remap_db_from_cluster cannot fail, the slot implements the
   abstract snapshot of spec section 7 (its safety part): the slot starts
   empty, and every step of rebuild_maps, the slot, handle_remap and
   external_lookup either leaves the abstract state alone or is a change
   of the cluster, a publication no older than the last, or a transaction
   taking or letting go of a database; in particular a transaction sees
   the same database from TSConfigGet to TSConfigRelease. *)
THEOREM SlotImplementsAbstract ==
    ASSUME ~CompileMayFail
    PROVE  Spec => AbsSafety
<1>1. Init => AllInv
    BY InitIInv, InitPubInv, InitRInv DEF AllInv
<1>2. AllInv /\ [Next]_vars => AllInv'
    BY NextIInv, NextPubInv, NextRInv DEF AllInv, IInv
<1>3. Init => Abs!Init
    BY ConstantsAssumption DEF Init, Abs!Init, NotHeld, Abs!None, Abs!NoDb, Holding,
       SnapIds, MaxSnap, NoDb
<1>4. AllInv /\ [Next]_vars => [Abs!Next]_Abs!avars
    BY RefinementStep
<1>5. QED
    BY <1>1, <1>2, <1>3, <1>4, PTL DEF Spec, AbsSafety

=============================================================================
