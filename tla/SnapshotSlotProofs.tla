------------------------- MODULE SnapshotSlotProofs -------------------------
(***************************************************************************)
(* Proofs about SnapshotSlot for every value of its constants.             *)
(*                                                                         *)
(* TypeOK is not inductive: TSConfigRelease decrements refs[tsnap[t]], which *)
(* stays in Nat only because every transaction between TSConfigGet and     *)
(* TSConfigRelease is counted in it.  NoUseAfterFree is not inductive      *)
(* either: HandleRemapBegin takes the snapshot in the slot, which must not *)
(* have been freed, and Reclaim frees a snapshot with no references, which *)
(* must then have no holder.  The strengthening IInv says so.              *)
(***************************************************************************)
EXTENDS SnapshotSlot, FiniteSetTheorems, TLAPS

(* The transactions of handler slots that hold snapshot s. *)
Holders(s) == {t \in Txns : tpc[t] \in Holding /\ tsnap[t] = s}

(* refs counts exactly the references taken by TSConfigGet and not yet
   given back by TSConfigRelease. *)
RefsCount == \A s \in SnapIds : refs[s] = Cardinality(Holders(s))

(* The slot's bookkeeping: only created snapshots were ever published,
   freed ones were retired, the one in the slot was never retired, and the
   one rebuild_maps is about to publish is the newest and unpublished. *)
SlotInv ==
    /\ retired \cup {current} \subseteq 0..nsnap
    /\ freed \subseteq retired
    /\ current \notin retired
    /\ rbpc = "built" => rbdb = nsnap /\ rbdb \notin retired \cup {current}

IInv == TypeOK /\ RefsCount /\ SlotInv /\ NoUseAfterFree

-----------------------------------------------------------------------------
(* Every set of holders is finite. *)
LEMMA HoldersFinite ==
    ASSUME NEW s
    PROVE  IsFiniteSet(Holders(s))
BY ConstantsAssumption, FS_Subset DEF Holders

LEMMA InitIInv == Init => IInv
<1> SUFFICES ASSUME Init PROVE IInv
    OBVIOUS
<1>1. TypeOK
    BY ConstantsAssumption DEF Init, TypeOK, SnapIds, MaxSnap, Versions, NoDb,
       ClientVersions, RequiredVersions, RemapStates
<1>2. RefsCount
    <2>1. \A s \in SnapIds : Holders(s) = {}
        BY DEF Init, Holders, Holding
    <2>2. QED
        BY <2>1, FS_EmptySet DEF Init, RefsCount
<1>3. SlotInv
    BY ConstantsAssumption DEF Init, SlotInv
<1>4. NoUseAfterFree
    BY DEF Init, NoUseAfterFree
<1>5. QED
    BY <1>1, <1>2, <1>3, <1>4 DEF IInv

(* A step that leaves the transactions alone leaves every holder set alone. *)
LEMMA HoldersUnchanged ==
    ASSUME UNCHANGED <<tpc, tsnap>>
    PROVE  \A s : Holders(s)' = Holders(s)
BY DEF Holders

(* Steps that touch neither refs nor the transactions keep RefsCount. *)
LEMMA RefsCountUnchanged ==
    ASSUME RefsCount, UNCHANGED <<refs, tpc, tsnap>>
    PROVE  RefsCount'
BY HoldersUnchanged DEF RefsCount

LEMMA NextIInv == ASSUME IInv, [Next]_vars PROVE IInv'
<1>0. TypeOK /\ RefsCount /\ SlotInv /\ NoUseAfterFree /\ ConstantsAssumption
    BY ConstantsAssumption DEF IInv
<1>1. CASE WatcherUpdate
    <2>1. TypeOK'
        BY <1>0, <1>1 DEF WatcherUpdate, TypeOK, Versions, remapVars, tlsVars
    <2>2. RefsCount'
        BY <1>0, <1>1, RefsCountUnchanged DEF WatcherUpdate, remapVars
    <2>3. SlotInv' /\ NoUseAfterFree'
        BY <1>0, <1>1 DEF WatcherUpdate, SlotInv, NoUseAfterFree, remapVars
    <2>4. QED
        BY <2>1, <2>2, <2>3 DEF IInv
<1>2. CASE RebuildMapsLocked
    <2>1. TypeOK'
        <3>1. data' \in [SnapIds -> Versions \cup {NoDb}]
            <4>1. PICK ok \in BOOLEAN :
                      data' = [data EXCEPT ![nsnap + 1] = IF ok THEN cluster ELSE NoDb]
                BY <1>2 DEF RebuildMapsLocked
            <4>2. QED
                BY <1>0, <4>1 DEF TypeOK
        <3>2. nsnap' \in SnapIds
            BY <1>0, <1>2 DEF RebuildMapsLocked, TypeOK, SnapIds, MaxSnap
        <3>3. QED
            BY <1>0, <1>2, <3>1, <3>2 DEF RebuildMapsLocked, TypeOK, remapVars, tlsVars
    <2>2. RefsCount'
        BY <1>0, <1>2, RefsCountUnchanged DEF RebuildMapsLocked, remapVars
    <2>3. SlotInv'
        BY <1>0, <1>2 DEF RebuildMapsLocked, SlotInv, TypeOK, SnapIds
    <2>4. NoUseAfterFree'
        BY <1>0, <1>2 DEF RebuildMapsLocked, NoUseAfterFree, remapVars
    <2>5. QED
        BY <2>1, <2>2, <2>3, <2>4 DEF IInv
<1>3. CASE RebuildMapsPublish
    <2>1. TypeOK'
        BY <1>0, <1>3 DEF RebuildMapsPublish, TypeOK, remapVars, tlsVars
    <2>2. RefsCount'
        BY <1>0, <1>3, RefsCountUnchanged DEF RebuildMapsPublish, remapVars
    <2>3. SlotInv'
        BY <1>0, <1>3 DEF RebuildMapsPublish, SlotInv, TypeOK, SnapIds
    <2>4. NoUseAfterFree'
        BY <1>0, <1>3 DEF RebuildMapsPublish, NoUseAfterFree, remapVars
    <2>5. QED
        BY <2>1, <2>2, <2>3, <2>4 DEF IInv
<1>4. ASSUME NEW s \in SnapIds, Reclaim(s)
      PROVE IInv'
    <2>1. TypeOK'
        BY <1>0, <1>4 DEF Reclaim, TypeOK, rebuildVars, remapVars, tlsVars
    <2>2. RefsCount'
        BY <1>0, <1>4, RefsCountUnchanged DEF Reclaim, remapVars
    <2>3. SlotInv'
        BY <1>0, <1>4 DEF Reclaim, SlotInv, rebuildVars
    <2>4. Holders(s) = {}
        <3>1. Cardinality(Holders(s)) = 0
            BY <1>0, <1>4 DEF Reclaim, RefsCount
        <3>2. QED
            BY <3>1, HoldersFinite, FS_EmptySet
    <2>5. NoUseAfterFree'
        BY <1>0, <1>4, <2>4 DEF Reclaim, NoUseAfterFree, Holders, remapVars
    <2>6. QED
        BY <2>1, <2>2, <2>3, <2>5 DEF IInv
<1>5. ASSUME NEW t \in Txns, HandleRemapBegin(t)
      PROVE IInv'
    <2>1. TypeOK'
        BY <1>0, <1>5 DEF HandleRemapBegin, TypeOK, RemapStates, rebuildVars, tlsVars
    <2>2. RefsCount'
        <3>a. t \notin Holders(current)
            BY <1>5 DEF HandleRemapBegin, Holders, Holding
        <3>b. \A x \in SnapIds : Holders(x)' =
                 IF x = current THEN Holders(x) \cup {t} ELSE Holders(x)
            BY <1>0, <1>5 DEF HandleRemapBegin, Holders, Holding, TypeOK, rebuildVars
        <3>c. \A x \in SnapIds : refs'[x] =
                 IF x = current THEN refs[x] + 1 ELSE refs[x]
            BY <1>0, <1>5 DEF HandleRemapBegin, TypeOK, SlotInv, rebuildVars
        <3>d. Cardinality(Holders(current) \cup {t}) = Cardinality(Holders(current)) + 1
            BY <3>a, HoldersFinite, FS_AddElement
        <3>e. QED
            BY <1>0, <3>b, <3>c, <3>d DEF RefsCount
    <2>3. SlotInv'
        BY <1>0, <1>5 DEF HandleRemapBegin, SlotInv, rebuildVars
    <2>4. NoUseAfterFree'
        BY <1>0, <1>5 DEF HandleRemapBegin, NoUseAfterFree, Holding, SlotInv, TypeOK,
           rebuildVars
    <2>5. QED
        BY <2>1, <2>2, <2>3, <2>4 DEF IInv
<1>6. ASSUME NEW t \in Txns, HandleRemapRun(t)
      PROVE IInv'
    <2>1. PICK result \in {"ok", "other"}, target \in {"ip", "dns"}, contn \in BOOLEAN :
              LET lookup == data[tsnap[t]] # NoDb /\ result = "ok" /\ target = "dns" /\ contn
                  ip == data[tsnap[t]] # NoDb /\ result = "ok" /\ target = "ip"
              IN  /\ tpc' = [tpc EXCEPT ![t] = IF lookup THEN "issued" ELSE "done"]
                  /\ refs' = IF lookup THEN refs ELSE [refs EXCEPT ![tsnap[t]] = @ - 1]
                  /\ reenables' = [reenables EXCEPT ![t] = IF lookup THEN @ ELSE @ + 1]
                  /\ srvaddr' = [srvaddr EXCEPT ![t] = IF ip THEN "ip" ELSE "none"]
        BY <1>6 DEF HandleRemapRun
    <2> DEFINE lookup == data[tsnap[t]] # NoDb /\ result = "ok" /\ target = "dns" /\ contn
    <2>2. tpc[t] = "got" /\ UNCHANGED <<rebuildVars, freed, tsnap, tlsVars>>
        BY <1>6 DEF HandleRemapRun
    <2>3. SlotInv'
        BY <1>0, <2>2 DEF SlotInv, rebuildVars
    <2>4. CASE lookup
        <3>1. refs' = refs /\ tpc' = [tpc EXCEPT ![t] = "issued"]
            BY <2>1, <2>4
        <3>2. TypeOK'
            BY <1>0, <2>1, <2>2, <3>1 DEF TypeOK, RemapStates, rebuildVars, tlsVars
        <3>3. \A x : Holders(x)' = Holders(x)
            BY <1>0, <2>2, <3>1 DEF Holders, Holding, TypeOK
        <3>4. RefsCount' /\ NoUseAfterFree'
            BY <1>0, <2>2, <3>1, <3>3 DEF RefsCount, NoUseAfterFree, Holding, TypeOK,
               rebuildVars
        <3>5. QED
            BY <2>3, <3>2, <3>4 DEF IInv
    <2>5. CASE ~lookup
        <3>0. refs' = [refs EXCEPT ![tsnap[t]] = @ - 1]
              /\ tpc' = [tpc EXCEPT ![t] = "done"]
            BY <2>1, <2>5
        <3>a. t \in Holders(tsnap[t])
            BY <2>2 DEF Holders, Holding
        <3>b. refs[tsnap[t]] > 0
            <4>1. Cardinality(Holders(tsnap[t])) # 0
                BY <3>a, HoldersFinite, FS_EmptySet
            <4>2. QED
                BY <1>0, <4>1, HoldersFinite, FS_CardinalityType DEF RefsCount, TypeOK
        <3>1. TypeOK'
            BY <1>0, <2>1, <2>2, <3>0, <3>b DEF TypeOK, RemapStates, rebuildVars, tlsVars
        <3>2. RefsCount'
            <4>1. \A x \in SnapIds : Holders(x)' =
                     IF x = tsnap[t] THEN Holders(x) \ {t} ELSE Holders(x)
                BY <1>0, <2>2, <3>0 DEF Holders, Holding, TypeOK
            <4>2. Cardinality(Holders(tsnap[t]) \ {t}) = Cardinality(Holders(tsnap[t])) - 1
                BY <3>a, HoldersFinite, FS_RemoveElement
            <4>3. QED
                BY <1>0, <2>2, <3>0, <4>1, <4>2 DEF RefsCount, TypeOK
        <3>3. NoUseAfterFree'
            BY <1>0, <2>2, <3>0 DEF NoUseAfterFree, Holding, TypeOK, rebuildVars
        <3>4. QED
            BY <2>3, <3>1, <3>2, <3>3 DEF IInv
    <2>6. QED
        BY <2>4, <2>5
<1>7. ASSUME NEW t \in Txns, HandleRemapCleanup(t)
      PROVE IInv'
    <2>a. t \in Holders(tsnap[t])
        BY <1>7 DEF HandleRemapCleanup, Holders, Holding
    <2>b. refs[tsnap[t]] > 0
        <3>1. Cardinality(Holders(tsnap[t])) # 0
            BY <2>a, HoldersFinite, FS_EmptySet
        <3>2. QED
            BY <1>0, <3>1, HoldersFinite, FS_CardinalityType DEF RefsCount, TypeOK
    <2>1. TypeOK'
        BY <1>0, <1>7, <2>b DEF HandleRemapCleanup, TypeOK, RemapStates, rebuildVars,
           tlsVars
    <2>2. RefsCount'
        <3>1. \A x \in SnapIds : Holders(x)' =
                 IF x = tsnap[t] THEN Holders(x) \ {t} ELSE Holders(x)
            BY <1>0, <1>7 DEF HandleRemapCleanup, Holders, Holding, TypeOK
        <3>2. Cardinality(Holders(tsnap[t]) \ {t}) = Cardinality(Holders(tsnap[t])) - 1
            BY <2>a, HoldersFinite, FS_RemoveElement
        <3>3. QED
            BY <1>0, <1>7, <3>1, <3>2 DEF HandleRemapCleanup, RefsCount, TypeOK
    <2>3. SlotInv' /\ NoUseAfterFree'
        BY <1>0, <1>7 DEF HandleRemapCleanup, SlotInv, NoUseAfterFree, Holding, TypeOK,
           rebuildVars
    <2>4. QED
        BY <2>1, <2>2, <2>3 DEF IInv
<1>12. ASSUME NEW t \in Txns, ExternalLookup(t)
      PROVE IInv'
    <2>1. TypeOK'
        BY <1>0, <1>12 DEF ExternalLookup, AfterCallback, TypeOK, RemapStates,
           rebuildVars, tlsVars
    <2>2. \A x : Holders(x)' = Holders(x)
        BY <1>0, <1>12 DEF ExternalLookup, AfterCallback, Holders, Holding, TypeOK
    <2>3. RefsCount'
        BY <1>0, <1>12, <2>2 DEF ExternalLookup, RefsCount
    <2>4. SlotInv' /\ NoUseAfterFree'
        BY <1>0, <1>12 DEF ExternalLookup, AfterCallback, SlotInv, NoUseAfterFree,
           Holding, TypeOK, rebuildVars
    <2>5. QED
        BY <2>1, <2>3, <2>4 DEF IInv
<1>8. ASSUME NEW c \in Conns, TlsHookInvoked(c)
      PROVE IInv'
    <2>1. TypeOK'
        BY <1>0, <1>8 DEF TlsHookInvoked, TypeOK, rebuildVars, remapVars
    <2>2. RefsCount'
        BY <1>0, <1>8, RefsCountUnchanged DEF TlsHookInvoked, remapVars
    <2>3. SlotInv' /\ NoUseAfterFree'
        BY <1>0, <1>8 DEF TlsHookInvoked, SlotInv, NoUseAfterFree, rebuildVars,
           remapVars
    <2>4. QED
        BY <2>1, <2>2, <2>3 DEF IInv
<1>9. ASSUME NEW c \in Conns, HandleTls(c)
      PROVE IInv'
    <2>1. TypeOK'
        BY <1>0, <1>9 DEF HandleTls, TlsAccepted, TypeOK, ClientVersions,
           RequiredVersions, rebuildVars, remapVars
    <2>2. RefsCount'
        BY <1>0, <1>9, RefsCountUnchanged DEF HandleTls, remapVars
    <2>3. SlotInv' /\ NoUseAfterFree'
        BY <1>0, <1>9 DEF HandleTls, SlotInv, NoUseAfterFree, rebuildVars,
           remapVars
    <2>4. QED
        BY <2>1, <2>2, <2>3 DEF IInv
<1>10. CASE UNCHANGED vars
    <2>1. RefsCount'
        BY <1>0, <1>10, RefsCountUnchanged DEF vars
    <2>2. QED
        BY <1>0, <1>10, <2>1 DEF vars, IInv, TypeOK, SlotInv, NoUseAfterFree
<1>11. QED
    BY <1>1, <1>2, <1>3, <1>4, <1>5, <1>6, <1>7, <1>8, <1>9, <1>10, <1>12 DEF Next

-----------------------------------------------------------------------------
(* The inductive invariant holds in every reachable state. *)
THEOREM IInvHolds == Spec => []IInv
BY InitIInv, NextIInv, PTL DEF Spec

(* Type correctness of the snapshot life cycle: in particular a slot
   reference count never goes below zero, so TSConfigRelease in
   handle_remap's cleanup always releases a reference TSConfigGet took. *)
THEOREM TypeCorrect == Spec => []TypeOK
BY IInvHolds, PTL DEF IInv

(* No use after free, for any number of transactions and cluster changes:
   the database handle_remap holds between TSConfigGet and
   TSConfigRelease is never the one the slot has reclaimed. *)
THEOREM SnapshotNotFreedInUse == Spec => []NoUseAfterFree
BY IInvHolds, PTL DEF IInv

=============================================================================
