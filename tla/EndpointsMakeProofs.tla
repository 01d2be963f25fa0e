------------------------- MODULE EndpointsMakeProofs -------------------------
(***************************************************************************)
(* Proofs about endpoints_make's allocations (module EndpointsMake), for   *)
(* every set of object shapes, with calloc allowed to fail.                *)
(*                                                                         *)
(* CrashOnlyOnOOM is not inductive: it says nothing of an array that came  *)
(* back NULL and is not yet touched.  MakeInv adds what the loops rely on: *)
(* a NULL subsets or address array that no failed allocation explains has *)
(* zero elements, and inside a subset i is one of its indexes.  Each loop  *)
(* tests its bound before its body stores into the array, so such an      *)
(* array is never dereferenced.                                            *)
(***************************************************************************)
EXTENDS EndpointsMake, SequenceTheorems, TLAPS

MakeInv ==
    /\ TypeOK
    /\ CrashOnlyOnOOM
    /\ pc \in {"subset", "port", "addrs", "addr"} /\ subs = "NULL" /\ ~oom
          => Len(obj.subsets) = 0
    /\ pc \in {"port", "addrs", "addr"} => i \in 1..Len(obj.subsets)
    /\ pc = "addr" /\ addrs = "NULL" /\ ~oom => obj.subsets[i].addrs = 0

-----------------------------------------------------------------------------
(* The subsets of a shape form a sequence, whose port and address counts
   are natural numbers. *)
LEMMA ShapeFields ==
    ASSUME NEW o \in Shapes
    PROVE  /\ Len(o.subsets) \in Nat
           /\ \A k \in 1..Len(o.subsets) :
                 o.subsets[k].ports \in Nat /\ o.subsets[k].addrs \in Nat
<1>1. o.subsets \in Seq([ports : Nat, addrs : Nat])
    BY ShapesAssumption
<1>2. Len(o.subsets) \in Nat
    BY <1>1, LenProperties
<1>3. \A k \in 1..Len(o.subsets) : o.subsets[k] \in [ports : Nat, addrs : Nat]
    BY <1>1, LenProperties
<1>4. QED
    BY <1>2, <1>3

(* What a calloc of n elements that returned p does to the history of
   failed allocations. *)
LEMMA CallocFacts ==
    ASSUME NEW n \in Nat, NEW p, Calloc(n, p), oom \in BOOLEAN
    PROVE  /\ oom' \in BOOLEAN
           /\ oom => oom'
           /\ p = "NULL" /\ ~oom' => n = 0
           /\ p = "NULL" /\ n > 0 => oom' = TRUE
           /\ p # "NULL" => oom' = oom
<1>1. oom' = (oom \/ (p = "NULL" /\ n > 0))
    BY DEF Calloc
<1>2. p = "NULL" /\ ~oom' => ~(n > 0)
    BY <1>1, Zenon
<1>3. QED
    BY <1>1, <1>2

(* The initial states satisfy MakeInv. *)
LEMMA InitMakeInv ==
    Init => MakeInv
<1> SUFFICES ASSUME Init PROVE MakeInv
    OBVIOUS
<1>1. obj \in Shapes /\ pc \in {"eps", "meta", "subsets", "subset", "port", "addrs", "addr", "done"}
    BY DEF Init
<1>2. i \in Nat \ {0} /\ j \in Nat \ {0}
    BY DEF Init
<1>3. subs \in Pointers /\ addrs \in Pointers
    BY DEF Init, Pointers
<1>4. ret \in {"none", "eps", "null"} /\ crashed \in BOOLEAN /\ oom \in BOOLEAN
    BY DEF Init
<1>5. TypeOK
    BY <1>1, <1>2, <1>3, <1>4 DEF TypeOK
<1>6. QED
    BY <1>5 DEF Init, MakeInv, CrashOnlyOnOOM

(* The first calloc is checked: a NULL is returned, never used. *)
LEMMA AllocEpsMakeInv ==
    ASSUME MakeInv, AllocEps
    PROVE  MakeInv'
<1>1. PICK p \in CallocResults(1) :
          /\ Calloc(1, p)
          /\ IF p = "NULL" THEN Return("null") ELSE pc' = "meta" /\ UNCHANGED ret
    BY DEF AllocEps
<1>2. UNCHANGED <<obj, i, j, subs, addrs, crashed>> /\ TypeOK
    BY DEF AllocEps, MakeInv, TypeOK
<1>3. oom' \in BOOLEAN /\ (oom => oom')
    BY <1>1 DEF Calloc
<1>4. CASE p = "NULL"
    <2>1. pc' = "done" /\ ret' = "null"
        BY <1>1, <1>4 DEF Return
    <2>2. TypeOK'
        BY <1>2, <1>3, <2>1 DEF TypeOK
    <2>3. QED
        BY <1>2, <1>3, <2>1, <2>2 DEF MakeInv, CrashOnlyOnOOM
<1>5. CASE p # "NULL"
    <2>1. pc' = "meta" /\ ret' = ret
        BY <1>1, <1>5
    <2>2. TypeOK'
        BY <1>2, <1>3, <2>1 DEF TypeOK
    <2>3. QED
        BY <1>2, <1>3, <2>1, <2>2 DEF MakeInv, CrashOnlyOnOOM
<1>6. QED
    BY <1>4, <1>5

(* The checks of the metadata only return or go on to the subsets. *)
LEMMA MetadataMakeInv ==
    ASSUME MakeInv, Metadata
    PROVE  MakeInv'
<1>1. UNCHANGED <<obj, i, j, subs, addrs, crashed, oom>> /\ TypeOK
    BY DEF Metadata, MakeInv, TypeOK
<1>2. pc' \in {"done", "subsets"} /\ ret' \in {"none", "eps", "null"}
    BY <1>1 DEF Metadata, Return, TypeOK
<1>3. TypeOK'
    BY <1>1, <1>2 DEF TypeOK
<1>4. QED
    BY <1>1, <1>2, <1>3 DEF MakeInv, CrashOnlyOnOOM

(* calloc of ep_subsets: a NULL it returns has zero elements, unless the
   allocation failed. *)
LEMMA AllocSubsetsMakeInv ==
    ASSUME MakeInv, AllocSubsets
    PROVE  MakeInv'
<1>1. PICK p \in CallocResults(Len(obj.subsets)) :
          subs' = p /\ Calloc(Len(obj.subsets), p)
    BY DEF AllocSubsets
<1>2. /\ UNCHANGED <<obj, j, addrs, ret, crashed>> /\ pc' = "subset" /\ i' = 1
      /\ TypeOK
    BY DEF AllocSubsets, MakeInv, TypeOK
<1>3. Len(obj.subsets) \in Nat
    BY <1>2, ShapeFields DEF TypeOK
<1>4. p \in Pointers /\ oom' \in BOOLEAN /\ (oom => oom')
    BY <1>1 DEF CallocResults, Calloc, Pointers
<1>5. subs' = "NULL" /\ ~oom' => Len(obj'.subsets) = 0
    <2>1. subs' = "NULL" /\ ~oom' => Len(obj.subsets) = 0
        BY <1>1, <1>2, <1>3, CallocFacts DEF TypeOK
    <2>2. QED
        BY <1>2, <2>1
<1>6. TypeOK'
    BY <1>1, <1>2, <1>4 DEF TypeOK
<1>7. QED
    BY <1>2, <1>4, <1>5, <1>6 DEF MakeInv, CrashOnlyOnOOM

(* The head of the loop over the subsets dereferences ep_subsets only below
   its length, and a NULL that no failed calloc explains has length 0. *)
LEMMA NextSubsetMakeInv ==
    ASSUME MakeInv, NextSubset
    PROVE  MakeInv'
<1>1. /\ UNCHANGED <<obj, subs, addrs, oom>> /\ pc = "subset"
      /\ TypeOK
      /\ subs = "NULL" /\ ~oom => Len(obj.subsets) = 0
    BY DEF NextSubset, MakeInv, TypeOK
<1>2. Len(obj.subsets) \in Nat
    BY <1>1, ShapeFields DEF TypeOK
<1>3. CASE i > Len(obj.subsets)
    <2>1. pc' = "done" /\ ret' = "eps" /\ UNCHANGED <<i, j, crashed>>
        BY <1>3 DEF NextSubset, Return
    <2>2. TypeOK'
        BY <1>1, <2>1 DEF TypeOK
    <2>3. QED
        BY <1>1, <2>1, <2>2 DEF MakeInv, CrashOnlyOnOOM
<1>4. CASE ~(i > Len(obj.subsets))
    <2>1. i \in 1..Len(obj.subsets)
        BY <1>1, <1>2, <1>4 DEF TypeOK
    <2>2. CASE subs = "NULL"
        <3>1. oom
            BY <1>1, <1>4, <2>1, <2>2
        <3>2. crashed' = TRUE /\ pc' = "done" /\ UNCHANGED <<i, j, ret>>
            BY <1>4, <2>2 DEF NextSubset, Deref
        <3>3. TypeOK'
            BY <1>1, <3>2 DEF TypeOK
        <3>4. QED
            BY <1>1, <3>1, <3>2, <3>3 DEF MakeInv, CrashOnlyOnOOM
    <2>3. CASE subs # "NULL"
        <3>1. pc' = "port" /\ j' = 1 /\ UNCHANGED <<i, ret, crashed>>
            BY <1>4, <2>3 DEF NextSubset, Deref
        <3>2. TypeOK'
            BY <1>1, <3>1 DEF TypeOK
        <3>3. QED
            BY <1>1, <2>1, <3>1, <3>2 DEF MakeInv, CrashOnlyOnOOM
    <2>4. QED
        BY <2>2, <2>3
<1>5. QED
    BY <1>3, <1>4

(* The loop over the ports: a port that comes back NULL is a failed
   allocation of one element. *)
LEMMA AllocPortMakeInv ==
    ASSUME MakeInv, AllocPort
    PROVE  MakeInv'
<1>1. /\ UNCHANGED <<obj, i, subs, addrs>> /\ pc = "port"
      /\ TypeOK /\ i \in 1..Len(obj.subsets)
    BY DEF AllocPort, MakeInv, TypeOK
<1>2. obj.subsets[i].ports \in Nat
    BY <1>1, ShapeFields DEF TypeOK
<1>3. CASE j > obj.subsets[i].ports
    <2>1. pc' = "addrs" /\ UNCHANGED <<j, ret, crashed, oom>>
        BY <1>3 DEF AllocPort
    <2>2. TypeOK'
        BY <1>1, <2>1 DEF TypeOK
    <2>3. QED
        BY <1>1, <2>1, <2>2 DEF MakeInv, CrashOnlyOnOOM
<1>4. CASE ~(j > obj.subsets[i].ports)
    <2>1. PICK p \in CallocResults(1) :
              /\ Calloc(1, p)
              /\ Deref(p, pc' = "port" /\ j' = j + 1 /\ UNCHANGED ret)
        BY <1>4 DEF AllocPort
    <2>2. CASE p = "NULL"
        <3>1. oom' = TRUE /\ crashed' = TRUE /\ pc' = "done" /\ j' = j /\ ret' = ret
            <4>0. Calloc(1, p) /\ oom \in BOOLEAN /\ 1 \in Nat /\ 1 > 0
                BY <1>1, <2>1 DEF TypeOK
            <4>1. oom' = TRUE
                BY <4>0, <2>2, CallocFacts
            <4>2. QED
                BY <2>1, <2>2, <4>1 DEF Deref
        <3>2. TypeOK'
            BY <1>1, <3>1 DEF TypeOK
        <3>3. QED
            BY <1>1, <3>1, <3>2 DEF MakeInv, CrashOnlyOnOOM
    <2>3. CASE p # "NULL"
        <3>1. oom' = oom /\ pc' = "port" /\ j' = j + 1 /\ ret' = ret /\ crashed' = crashed
            <4>1. oom' = oom
                BY <1>1, <2>1, <2>3, Zenon DEF Calloc, TypeOK
            <4>2. QED
                BY <2>1, <2>3, <4>1 DEF Deref
        <3>2. TypeOK'
            BY <1>1, <3>1 DEF TypeOK
        <3>3. QED
            BY <1>1, <3>1, <3>2 DEF MakeInv, CrashOnlyOnOOM
    <2>4. QED
        BY <2>2, <2>3
<1>5. QED
    BY <1>3, <1>4

(* calloc of es_addrs: a NULL it returns has zero elements, unless the
   allocation failed. *)
LEMMA AllocAddrsMakeInv ==
    ASSUME MakeInv, AllocAddrs
    PROVE  MakeInv'
<1>1. /\ UNCHANGED <<obj, i, subs, ret, crashed>> /\ pc' = "addr" /\ j' = 1
      /\ pc = "addrs" /\ TypeOK /\ i \in 1..Len(obj.subsets)
    BY DEF AllocAddrs, MakeInv, TypeOK
<1>2. obj.subsets[i].addrs \in Nat
    BY <1>1, ShapeFields DEF TypeOK
<1>3. PICK p \in CallocResults(obj.subsets[i].addrs) :
          addrs' = p /\ Calloc(obj.subsets[i].addrs, p)
    BY DEF AllocAddrs
<1>4. p \in Pointers /\ oom' \in BOOLEAN /\ (oom => oom')
    BY <1>3 DEF CallocResults, Calloc, Pointers
<1>5. addrs' = "NULL" /\ ~oom' => obj.subsets[i].addrs = 0
    BY <1>1, <1>2, <1>3, CallocFacts DEF TypeOK
<1>6. subs' = "NULL" /\ ~oom' => Len(obj.subsets) = 0
    BY <1>1, <1>4 DEF MakeInv
<1>9. obj' = obj /\ i' = i
    BY <1>1
<1>7. TypeOK'
    BY <1>1, <1>3, <1>4 DEF TypeOK
<1>8. QED
    BY <1>1, <1>4, <1>5, <1>6, <1>7, <1>9 DEF MakeInv, CrashOnlyOnOOM

(* The loop over the addresses stores into es_addrs only below its length,
   and a NULL that no failed calloc explains has length 0. *)
LEMMA NextAddrMakeInv ==
    ASSUME MakeInv, NextAddr
    PROVE  MakeInv'
<1>1. /\ UNCHANGED <<obj, subs, addrs, oom>> /\ pc = "addr"
      /\ TypeOK /\ i \in 1..Len(obj.subsets)
      /\ addrs = "NULL" /\ ~oom => obj.subsets[i].addrs = 0
      /\ subs = "NULL" /\ ~oom => Len(obj.subsets) = 0
    BY DEF NextAddr, MakeInv, TypeOK
<1>2. obj.subsets[i].addrs \in Nat
    BY <1>1, ShapeFields DEF TypeOK
<1>3. CASE j > obj.subsets[i].addrs
    <2>1. pc' = "subset" /\ i' = i + 1 /\ UNCHANGED <<j, ret, crashed>>
        BY <1>3 DEF NextAddr
    <2>2. TypeOK'
        BY <1>1, <2>1 DEF TypeOK
    <2>3. QED
        BY <1>1, <2>1, <2>2 DEF MakeInv, CrashOnlyOnOOM
<1>4. CASE ~(j > obj.subsets[i].addrs)
    <2>1. CASE addrs = "NULL"
        <3>1. oom
            BY <1>1, <1>2, <1>4, <2>1 DEF TypeOK
        <3>2. crashed' = TRUE /\ pc' = "done" /\ UNCHANGED <<i, j, ret>>
            BY <1>4, <2>1 DEF NextAddr, Deref
        <3>3. TypeOK'
            BY <1>1, <3>2 DEF TypeOK
        <3>4. QED
            BY <1>1, <3>1, <3>2, <3>3 DEF MakeInv, CrashOnlyOnOOM
    <2>2. CASE addrs # "NULL"
        <3>1. pc' = "addr" /\ j' = j + 1 /\ UNCHANGED <<i, ret, crashed>>
            BY <1>4, <2>2 DEF NextAddr, Deref
        <3>2. TypeOK'
            BY <1>1, <3>1 DEF TypeOK
        <3>3. QED
            BY <1>1, <3>1, <3>2 DEF MakeInv, CrashOnlyOnOOM
    <2>3. QED
        BY <2>1, <2>2
<1>5. QED
    BY <1>3, <1>4

(* Every step of endpoints_make, and a stutter, keeps MakeInv. *)
LEMMA NextMakeInv ==
    MakeInv /\ [Next]_vars => MakeInv'
<1> SUFFICES ASSUME MakeInv, [Next]_vars PROVE MakeInv'
    OBVIOUS
<1>1. CASE AllocEps
    BY <1>1, AllocEpsMakeInv
<1>2. CASE Metadata
    BY <1>2, MetadataMakeInv
<1>3. CASE AllocSubsets
    BY <1>3, AllocSubsetsMakeInv
<1>4. CASE NextSubset
    BY <1>4, NextSubsetMakeInv
<1>5. CASE AllocPort
    BY <1>5, AllocPortMakeInv
<1>6. CASE AllocAddrs
    BY <1>6, AllocAddrsMakeInv
<1>7. CASE NextAddr
    BY <1>7, NextAddrMakeInv
<1>8. CASE UNCHANGED vars
    BY <1>8 DEF vars, MakeInv, TypeOK, CrashOnlyOnOOM
<1>9. QED
    BY <1>1, <1>2, <1>3, <1>4, <1>5, <1>6, <1>7, <1>8 DEF Next

-----------------------------------------------------------------------------
(* endpoints_make keeps its variables in their types: the indexes are
   positive, each array pointer is NULL or valid, and the return is NULL,
   the object, or not yet made. *)
THEOREM MakeTypeCorrect ==
    Spec => []TypeOK
<1>1. MakeInv => TypeOK
    BY DEF MakeInv
<1>2. QED
    BY InitMakeInv, NextMakeInv, <1>1, PTL DEF Spec

(* For every set of object shapes, with calloc free to fail and to return
   NULL for zero elements, endpoints_make dereferences a NULL only after a
   calloc of one element or more has failed: the subsets and address
   arrays that come back NULL for zero elements are never stored into,
   because each loop tests its bound before its body does. *)
THEOREM CrashOnlyAfterOOM ==
    Spec => []CrashOnlyOnOOM
<1>1. MakeInv => CrashOnlyOnOOM
    BY DEF MakeInv
<1>2. QED
    BY InitMakeInv, NextMakeInv, <1>1, PTL DEF Spec

====
