--------------------------- MODULE EndpointsProofs ---------------------------
(***************************************************************************)
(* Proofs about endpoints_equal (module Endpoints), for every set of JSON  *)
(* objects and every iteration order of the port hashes.                   *)
(*                                                                         *)
(* EqualMatchesReference speaks of the returned value only.  The loop      *)
(* invariant EqInv says what the comparisons made so far have shown: the   *)
(* headers agree, the subsets before i are equal, the addresses before j   *)
(* are equal, and the first j - 1 keys of both port iterations are the     *)
(* same keys with the same ports.  An order visits every key, so when both *)
(* iterations end together the two port hashes have the same keys and the  *)
(* same ports.  The shape of what endpoints_make builds (records, arrays,  *)
(* a hash as a function from names) is what makes equal parts give equal  *)
(* wholes.                                                                 *)
(***************************************************************************)
EXTENDS Endpoints, SequenceTheorems, TLAPS

(* f is a function: equal to the function of its own values. *)
IsFn(f) == f = [x \in DOMAIN f |-> f[x]]

(* What endpoints_make builds for a subset: a record of a port hash and an
   address array of ip and nodename records. *)
SubsetShape(s) ==
    /\ s = [ports |-> s.ports, addrs |-> s.addrs]
    /\ IsFn(s.ports)
    /\ IsArray(s.addrs)
    /\ \A k \in 1..Len(s.addrs) :
          s.addrs[k] = [ip |-> s.addrs[k].ip, nodename |-> s.addrs[k].nodename]

(* What endpoints_make builds: a record of name, namespace and an array of
   subsets. *)
EpShape(e) ==
    /\ e = [name |-> e.name, namespace |-> e.namespace, subsets |-> e.subsets]
    /\ IsArray(e.subsets)
    /\ \A k \in 1..Len(e.subsets) : SubsetShape(e.subsets[k])

(* The addresses and the port hash of subset i of e. *)
AddrsOf(e) == e.subsets[i].addrs
PortsOf(e) == e.subsets[i].ports

(* What the comparisons made so far have shown. *)
EqInv ==
    /\ EpShape(a) /\ EpShape(b)
    /\ ita \in IterOrders(a) /\ itb \in IterOrders(b)
    /\ pc \in {"header", "subset", "addrs", "ports", "done"}
    /\ i \in Nat \ {0} /\ j \in Nat \ {0}
    /\ pc \in {"subset", "addrs", "ports"} =>
          /\ a.name = b.name /\ a.namespace = b.namespace
          /\ Len(a.subsets) = Len(b.subsets)
          /\ i <= Len(a.subsets) + 1
          /\ \A k \in 1..(i - 1) : a.subsets[k] = b.subsets[k]
    /\ pc \in {"addrs", "ports"} =>
          /\ i <= Len(a.subsets)
          /\ Len(AddrsOf(a)) = Len(AddrsOf(b))
    /\ pc = "addrs" =>
          /\ j <= Len(AddrsOf(a)) + 1
          /\ \A k \in 1..(j - 1) : AddrsOf(a)[k] = AddrsOf(b)[k]
    /\ pc = "ports" =>
          /\ AddrsOf(a) = AddrsOf(b)
          /\ j <= Len(ita[i]) + 1 /\ j <= Len(itb[i]) + 1
          /\ \A k \in 1..(j - 1) :
                /\ ita[i][k] = itb[i][k]
                /\ PortsOf(a)[ita[i][k]] = PortsOf(b)[itb[i][k]]
    /\ pc = "done" /\ result = 1 => a = b
    /\ pc = "done" /\ a = b /\ ita = itb => result = 1

-----------------------------------------------------------------------------
(* An array is a sequence of its values, numbered from 1. *)
LEMMA ArrayProps ==
    ASSUME NEW x, IsArray(x)
    PROVE  /\ Len(x) \in Nat
           /\ DOMAIN x = 1..Len(x)
           /\ x \in Seq({x[k] : k \in DOMAIN x})
BY LenProperties DEF IsArray

(* A function on 1..n is an array of length n. *)
LEMMA FnIsArray ==
    ASSUME NEW f, NEW n \in Nat, IsFn(f), DOMAIN f = 1..n
    PROVE  IsArray(f) /\ Len(f) = n
<1> DEFINE R == {f[k] : k \in DOMAIN f}
<1>1. f \in [1..n -> R]
    BY DEF IsFn
<1>2. f \in Seq(R)
    BY <1>1, SeqDef
<1>3. Len(f) = n
    BY <1>2, LenProperties
<1>4. QED
    BY <1>2, <1>3 DEF IsArray

(* Two arrays with the same length and the same elements are equal. *)
LEMMA ArrayEqual ==
    ASSUME NEW x, NEW y, IsArray(x), IsArray(y), Len(x) = Len(y),
           \A k \in 1..Len(x) : x[k] = y[k]
    PROVE  x = y
<1> DEFINE R == {x[k] : k \in DOMAIN x} \cup {y[k] : k \in DOMAIN y}
<1>1. x \in Seq(R) /\ y \in Seq(R)
    BY SeqMonotonic DEF IsArray
<1>2. QED
    BY <1>1, SeqEqual

(* An iteration order of a hash with keys S is a sequence of keys that
   visits every key. *)
LEMMA OrderProps ==
    ASSUME NEW S, NEW f \in Orders(S)
    PROVE  /\ f \in Seq(S)
           /\ Len(f) \in Nat
           /\ DOMAIN f = 1..Len(f)
           /\ \A x \in S : \E k \in 1..Len(f) : f[k] = x
<1>1. PICK n \in 0..Cardinality(S) : f \in [1..n -> S]
    BY DEF Orders
<1>2. n \in Nat
    BY <1>1
<1>3. f \in Seq(S)
    BY <1>1, <1>2, SeqDef
<1>4. Len(f) \in Nat /\ DOMAIN f = 1..Len(f)
    BY <1>3, LenProperties
<1>5. QED
    BY <1>3, <1>4 DEF Orders

(* The port hash endpoints_make builds is a function of port names, empty
   when the subset has no ports array. *)
LEMMA PortsAreFn ==
    ASSUME NEW sub
    PROVE  IsFn(MakeSubset(sub).ports)
<1>1. CASE sub.hasPorts
    BY <1>1 DEF MakeSubset, MakePorts, IsFn
<1>2. CASE ~sub.hasPorts
    BY <1>2 DEF MakeSubset, IsFn
<1>3. QED
    BY <1>1, <1>2

(* endpoints_make builds a subset of the shape SubsetShape from a subset
   whose addresses are a JSON array. *)
LEMMA MakeSubsetShape ==
    ASSUME NEW sub, IsArray(sub.addrs)
    PROVE  SubsetShape(MakeSubset(sub))
<1> DEFINE m == MakeSubset(sub)
<1>1. m = [ports |-> m.ports, addrs |-> m.addrs]
    BY DEF MakeSubset
<1>2. IsFn(m.ports)
    BY PortsAreFn
<1>3. IsArray(m.addrs) /\ \A k \in 1..Len(m.addrs) : m.addrs[k] = MakeAddr(sub.addrs[k])
    <2>1. CASE sub.hasAddrs
        <3>1. Len(sub.addrs) \in Nat
            BY ArrayProps
        <3>2. m.addrs = [k \in 1..Len(sub.addrs) |-> MakeAddr(sub.addrs[k])]
            BY <2>1 DEF MakeSubset
        <3>3. IsFn(m.addrs) /\ DOMAIN m.addrs = 1..Len(sub.addrs)
            BY <3>2 DEF IsFn
        <3>4. IsArray(m.addrs) /\ Len(m.addrs) = Len(sub.addrs)
            BY <3>1, <3>3, FnIsArray
        <3>5. QED
            BY <3>2, <3>4
    <2>2. CASE ~sub.hasAddrs
        <3>1. m.addrs = <<>>
            BY <2>2 DEF MakeSubset
        <3>2. IsArray(<<>>) /\ Len(<<>>) = 0
            BY EmptySeq DEF IsArray
        <3>3. QED
            BY <3>1, <3>2
    <2>3. QED
        BY <2>1, <2>2
<1>4. \A k \in 1..Len(m.addrs) :
         m.addrs[k] = [ip |-> m.addrs[k].ip, nodename |-> m.addrs[k].nodename]
    <2>1. \A x : MakeAddr(x) = [ip |-> MakeAddr(x).ip, nodename |-> MakeAddr(x).nodename]
        BY DEF MakeAddr
    <2>2. QED
        BY <1>3, <2>1
<1>5. QED
    BY <1>1, <1>2, <1>3, <1>4 DEF SubsetShape

(* endpoints_make builds an endpoints_t of the shape EpShape from every
   object it does not reject. *)
LEMMA MakeShape ==
    ASSUME NEW o \in Objects, ~MakeFails(o)
    PROVE  EpShape(EndpointsMake(o))
<1> DEFINE e == EndpointsMake(o)
<1>1. IsArray(o.subsets) /\ \A k \in 1..Len(o.subsets) : IsArray(o.subsets[k].addrs)
    BY EndpointsAssumption
<1>2. e = [name |-> e.name, namespace |-> e.namespace, subsets |-> e.subsets]
    BY DEF EndpointsMake
<1>3. CASE o.hasSubsets
    <2>1. Len(o.subsets) \in Nat
        BY <1>1, ArrayProps
    <2>2. e.subsets = [k \in 1..Len(o.subsets) |-> MakeSubset(o.subsets[k])]
        BY <1>3 DEF EndpointsMake
    <2>3. IsArray(e.subsets) /\ Len(e.subsets) = Len(o.subsets)
        BY <2>1, <2>2, FnIsArray DEF IsFn
    <2>4. \A k \in 1..Len(e.subsets) : SubsetShape(e.subsets[k])
        BY <1>1, <2>2, <2>3, MakeSubsetShape
    <2>5. QED
        BY <1>2, <2>3, <2>4 DEF EpShape
<1>4. CASE ~o.hasSubsets
    <2>1. e.subsets = <<>>
        BY <1>4 DEF EndpointsMake
    <2>2. IsArray(<<>>) /\ Len(<<>>) = 0
        BY EmptySeq DEF IsArray
    <2>3. QED
        BY <1>2, <2>1, <2>2 DEF EpShape
<1>5. QED
    BY <1>3, <1>4
-----------------------------------------------------------------------------
(* Two hashes, each a function of its keys, iterated in orders that visit
   the same keys in the same steps and find the same ports, are equal. *)
LEMMA PortsEqual ==
    ASSUME NEW P, NEW Q, IsFn(P), IsFn(Q),
           NEW f \in Orders(DOMAIN P), NEW g \in Orders(DOMAIN Q),
           Len(f) = Len(g),
           \A k \in 1..Len(f) : f[k] = g[k] /\ P[f[k]] = Q[g[k]]
    PROVE  P = Q
<1>1. /\ f \in Seq(DOMAIN P) /\ DOMAIN f = 1..Len(f)
      /\ \A x \in DOMAIN P : \E k \in 1..Len(f) : f[k] = x
    BY OrderProps
<1>2. /\ g \in Seq(DOMAIN Q) /\ DOMAIN g = 1..Len(g)
      /\ \A x \in DOMAIN Q : \E k \in 1..Len(g) : g[k] = x
    BY OrderProps
<1>3. \A k \in 1..Len(f) : f[k] \in DOMAIN P /\ g[k] \in DOMAIN Q
    BY <1>1, <1>2, ElementOfSeq
<1>4. DOMAIN P = DOMAIN Q
    BY <1>1, <1>2, <1>3
<1>5. \A x \in DOMAIN P : P[x] = Q[x]
    BY <1>1
<1>6. QED
    BY <1>4, <1>5 DEF IsFn

(* Steps that leave the two objects and their iteration orders alone keep
   their shapes. *)
LEMMA Frame ==
    ASSUME EqInv, UNCHANGED <<a, b, ita, itb>>
    PROVE  (/\ EpShape(a) /\ EpShape(b)
            /\ ita \in IterOrders(a) /\ itb \in IterOrders(b))'
BY DEF EqInv

(* Subset i of two objects with as many subsets: both have the shape
   endpoints_make gives, and their port hashes are iterated in orders of
   their keys. *)
LEMMA SubsetFacts ==
    ASSUME EqInv, i \in 1..Len(a.subsets), Len(a.subsets) = Len(b.subsets)
    PROVE  /\ SubsetShape(a.subsets[i]) /\ SubsetShape(b.subsets[i])
           /\ Len(AddrsOf(a)) \in Nat /\ Len(AddrsOf(b)) \in Nat
           /\ DOMAIN AddrsOf(a) = 1..Len(AddrsOf(a))
           /\ ita[i] \in Orders(DOMAIN PortsOf(a))
           /\ itb[i] \in Orders(DOMAIN PortsOf(b))
           /\ Len(ita[i]) \in Nat /\ Len(itb[i]) \in Nat
<1>1. SubsetShape(a.subsets[i]) /\ SubsetShape(b.subsets[i])
    BY DEF EqInv, EpShape
<1>2. Len(AddrsOf(a)) \in Nat /\ Len(AddrsOf(b)) \in Nat
      /\ DOMAIN AddrsOf(a) = 1..Len(AddrsOf(a))
    BY <1>1, ArrayProps DEF SubsetShape, AddrsOf
<1>3. ita[i] \in Orders(DOMAIN PortsOf(a)) /\ itb[i] \in Orders(DOMAIN PortsOf(b))
    BY DEF EqInv, IterOrders, PortsOf
<1>4. Len(ita[i]) \in Nat /\ Len(itb[i]) \in Nat
    BY <1>3, OrderProps
<1>5. QED
    BY <1>1, <1>2, <1>3, <1>4

(* The initial states satisfy EqInv. *)
LEMMA InitEqInv ==
    Init => EqInv
<1> SUFFICES ASSUME Init PROVE EqInv
    OBVIOUS
<1>1. PICK oa, ob \in {o \in Objects : ~MakeFails(o)} :
          a = EndpointsMake(oa) /\ b = EndpointsMake(ob)
    BY DEF Init
<1>2. EpShape(a) /\ EpShape(b)
    BY <1>1, MakeShape
<1>3. QED
    BY <1>2 DEF Init, EqInv
(* Name, namespace and number of subsets: endpoints_equal goes on only
   when they agree, and returns 0 only when the objects differ. *)
LEMMA CompareHeaderEqInv ==
    ASSUME EqInv, CompareHeader
    PROVE  EqInv'
<1>1. pc = "header" /\ UNCHANGED <<a, b, ita, itb, j>>
    BY DEF CompareHeader
<1>2. (/\ EpShape(a) /\ EpShape(b)
       /\ ita \in IterOrders(a) /\ itb \in IterOrders(b))'
    BY <1>1, Frame
<1>3. Len(a.subsets) \in Nat
    BY ArrayProps DEF EqInv, EpShape
<1>4. CASE a.name # b.name \/ a.namespace # b.namespace
           \/ Len(a.subsets) # Len(b.subsets)
    <2>1. pc' = "done" /\ result' = 0 /\ i' = i
        BY <1>4 DEF CompareHeader, Return
    <2>2. a # b
        BY <1>4
    <2>3. QED
        BY <1>1, <1>2, <2>1, <2>2 DEF EqInv
<1>5. CASE ~(a.name # b.name \/ a.namespace # b.namespace
             \/ Len(a.subsets) # Len(b.subsets))
    <2>1. pc' = "subset" /\ i' = 1 /\ result' = result
        BY <1>5 DEF CompareHeader
    <2>2. QED
        BY <1>1, <1>2, <1>3, <1>5, <2>1 DEF EqInv
<1>6. QED
    BY <1>4, <1>5

(* Two objects of the shape endpoints_make gives are equal when their
   names, namespaces and subsets are. *)
LEMMA EpEqual ==
    ASSUME NEW x, NEW y, EpShape(x), EpShape(y),
           x.name = y.name, x.namespace = y.namespace, x.subsets = y.subsets
    PROVE  x = y
BY DEF EpShape

(* The head of the subset loop: past the last subset every subset has been
   found equal, so 1 is returned only for equal objects; a subset with
   another number of addresses makes the objects differ. *)
LEMMA StartSubsetEqInv ==
    ASSUME EqInv, StartSubset
    PROVE  EqInv'
<1>1. /\ pc = "subset" /\ UNCHANGED <<a, b, ita, itb, i>> /\ j' = 1
      /\ a.name = b.name /\ a.namespace = b.namespace
      /\ Len(a.subsets) = Len(b.subsets) /\ i <= Len(a.subsets) + 1
      /\ \A k \in 1..(i - 1) : a.subsets[k] = b.subsets[k]
    BY DEF StartSubset, EqInv
<1>2. (/\ EpShape(a) /\ EpShape(b)
       /\ ita \in IterOrders(a) /\ itb \in IterOrders(b))'
    BY <1>1, Frame
<1>3. /\ IsArray(a.subsets) /\ IsArray(b.subsets)
      /\ Len(a.subsets) \in Nat /\ i \in Nat \ {0}
    BY ArrayProps DEF EqInv, EpShape
<1>4. CASE i > Len(a.subsets) /\ Return(1)
    <2>1. a.subsets = b.subsets
        BY <1>1, <1>3, <1>4, ArrayEqual
    <2>2. a = b
        BY <1>1, <2>1, EpEqual DEF EqInv
    <2>3. QED
        BY <1>1, <1>2, <1>3, <1>4, <2>2 DEF EqInv, Return
<1>5. CASE /\ i <= Len(a.subsets)
           /\ Len(a.subsets[i].addrs) # Len(b.subsets[i].addrs)
           /\ Return(0)
    <2>1. a # b
        BY <1>5
    <2>2. QED
        BY <1>1, <1>2, <1>3, <1>5, <2>1 DEF EqInv, Return
<1>6. CASE /\ i <= Len(a.subsets)
           /\ Len(a.subsets[i].addrs) = Len(b.subsets[i].addrs)
           /\ pc' = "addrs"
           /\ UNCHANGED result
    <2>1. Len(AddrsOf(a)) \in Nat
        BY <1>1, <1>3, <1>6, SubsetFacts
    <2>2. QED
        BY <1>1, <1>2, <1>3, <1>6, <2>1 DEF EqInv, AddrsOf
<1>7. QED
    BY <1>4, <1>5, <1>6 DEF StartSubset
(* One address pair: after the last one the two address arrays are equal;
   a pair that differs makes the objects differ. *)
LEMMA CompareAddrEqInv ==
    ASSUME EqInv, CompareAddr
    PROVE  EqInv'
<1>1. /\ pc = "addrs" /\ UNCHANGED <<a, b, ita, itb, i>>
      /\ a.name = b.name /\ a.namespace = b.namespace
      /\ Len(a.subsets) = Len(b.subsets) /\ i \in 1..Len(a.subsets)
      /\ \A k \in 1..(i - 1) : a.subsets[k] = b.subsets[k]
      /\ Len(AddrsOf(a)) = Len(AddrsOf(b))
      /\ j \in Nat \ {0} /\ j <= Len(AddrsOf(a)) + 1
      /\ \A k \in 1..(j - 1) : AddrsOf(a)[k] = AddrsOf(b)[k]
    BY DEF CompareAddr, EqInv
<1>2. (/\ EpShape(a) /\ EpShape(b)
       /\ ita \in IterOrders(a) /\ itb \in IterOrders(b))'
    BY <1>1, Frame
<1>3. /\ SubsetShape(a.subsets[i]) /\ SubsetShape(b.subsets[i])
      /\ Len(AddrsOf(a)) \in Nat
      /\ Len(ita[i]) \in Nat /\ Len(itb[i]) \in Nat
    BY <1>1, SubsetFacts
<1> DEFINE as == AddrsOf(a)
           bs == AddrsOf(b)
<1>4. CASE j > Len(as) /\ pc' = "ports" /\ j' = 1 /\ UNCHANGED result
    <2>1. IsArray(as) /\ IsArray(bs)
        BY <1>3 DEF SubsetShape, AddrsOf
    <2>2. as = bs
        BY <1>1, <1>3, <1>4, <2>1, ArrayEqual
    <2>3. QED
        BY <1>1, <1>2, <1>3, <1>4, <2>2 DEF EqInv, AddrsOf
<1>5. CASE /\ j <= Len(as)
           /\ ~SameString(as[j].ip, bs[j].ip) \/ ~SameString(as[j].nodename, bs[j].nodename)
           /\ Return(0)
           /\ UNCHANGED j
    <2>1. a # b
        BY <1>5 DEF SameString, AddrsOf
    <2>2. QED
        BY <1>1, <1>2, <1>5, <2>1 DEF EqInv, Return
<1>6. CASE /\ j <= Len(as)
           /\ SameString(as[j].ip, bs[j].ip)
           /\ SameString(as[j].nodename, bs[j].nodename)
           /\ j' = j + 1
           /\ UNCHANGED <<pc, result>>
    <2>0. j \in 1..Len(a.subsets[i].addrs) /\ j \in 1..Len(b.subsets[i].addrs)
        BY <1>1, <1>6 DEF AddrsOf
    <2>1. /\ as[j] = [ip |-> as[j].ip, nodename |-> as[j].nodename]
          /\ bs[j] = [ip |-> bs[j].ip, nodename |-> bs[j].nodename]
        <3>1. \A k \in 1..Len(a.subsets[i].addrs) :
                 a.subsets[i].addrs[k] = [ip |-> a.subsets[i].addrs[k].ip,
                                          nodename |-> a.subsets[i].addrs[k].nodename]
            BY <1>3 DEF SubsetShape
        <3>2. \A k \in 1..Len(b.subsets[i].addrs) :
                 b.subsets[i].addrs[k] = [ip |-> b.subsets[i].addrs[k].ip,
                                          nodename |-> b.subsets[i].addrs[k].nodename]
            BY <1>3 DEF SubsetShape
        <3>3. QED
            BY <2>0, <3>1, <3>2 DEF AddrsOf
    <2>2. as[j] = bs[j]
        BY <1>6, <2>1 DEF SameString
    <2>3. \A k \in 1..(j' - 1) : AddrsOf(a)'[k] = AddrsOf(b)'[k]
        <3>1. AddrsOf(a)' = as /\ AddrsOf(b)' = bs /\ j' - 1 = j
            BY <1>1, <1>6 DEF AddrsOf
        <3>2. \A k \in 1..j : as[k] = bs[k]
            BY <1>1, <2>2
        <3>3. QED
            BY <3>1, <3>2
    <2>4. QED
        BY <1>1, <1>2, <1>6, <2>3 DEF EqInv, AddrsOf
<1>7. QED
    <2>1. \/ j > Len(as) /\ pc' = "ports" /\ j' = 1 /\ UNCHANGED result
          \/ /\ j <= Len(as)
             /\ ~SameString(as[j].ip, bs[j].ip) \/ ~SameString(as[j].nodename, bs[j].nodename)
             /\ Return(0)
             /\ UNCHANGED j
          \/ /\ j <= Len(as)
             /\ SameString(as[j].ip, bs[j].ip)
             /\ SameString(as[j].nodename, bs[j].nodename)
             /\ j' = j + 1
             /\ UNCHANGED <<pc, result>>
        BY DEF CompareAddr, AddrsOf
    <2>2. QED
        BY <1>4, <1>5, <1>6, <2>1

(* One step of the two port iterations: when both end together the port
   hashes, and so subset i, are equal; a step that finds another key or
   another port, or one iteration ending first, makes the objects or the
   orders differ. *)
LEMMA ComparePortEqInv ==
    ASSUME EqInv, ComparePort
    PROVE  EqInv'
<1>1. /\ pc = "ports" /\ UNCHANGED <<a, b, ita, itb>>
      /\ a.name = b.name /\ a.namespace = b.namespace
      /\ Len(a.subsets) = Len(b.subsets) /\ i \in 1..Len(a.subsets)
      /\ \A k \in 1..(i - 1) : a.subsets[k] = b.subsets[k]
      /\ AddrsOf(a) = AddrsOf(b)
      /\ j \in Nat \ {0} /\ j <= Len(ita[i]) + 1 /\ j <= Len(itb[i]) + 1
      /\ \A k \in 1..(j - 1) :
            /\ ita[i][k] = itb[i][k]
            /\ PortsOf(a)[ita[i][k]] = PortsOf(b)[itb[i][k]]
    BY DEF ComparePort, EqInv
<1>2. (/\ EpShape(a) /\ EpShape(b)
       /\ ita \in IterOrders(a) /\ itb \in IterOrders(b))'
    BY <1>1, Frame
<1>3. /\ SubsetShape(a.subsets[i]) /\ SubsetShape(b.subsets[i])
      /\ ita[i] \in Orders(DOMAIN PortsOf(a))
      /\ itb[i] \in Orders(DOMAIN PortsOf(b))
      /\ Len(ita[i]) \in Nat /\ Len(itb[i]) \in Nat
      /\ Len(a.subsets) \in Nat
    BY <1>1, SubsetFacts
<1> DEFINE ra == j <= Len(ita[i])
           rb == j <= Len(itb[i])
<1>4. CASE ra # rb /\ Return(0) /\ UNCHANGED <<i, j>>
    <2>1. ita # itb
        BY <1>4
    <2>2. QED
        BY <1>1, <1>2, <1>4, <2>1 DEF EqInv, Return
<1>5. CASE ~ra /\ ~rb /\ pc' = "subset" /\ i' = i + 1 /\ UNCHANGED <<j, result>>
    <2>1. Len(ita[i]) = j - 1 /\ Len(itb[i]) = j - 1
        BY <1>1, <1>3, <1>5
    <2>2. PortsOf(a) = PortsOf(b)
        <3>1. IsFn(PortsOf(a)) /\ IsFn(PortsOf(b))
            BY <1>3 DEF SubsetShape, PortsOf
        <3>2. Len(ita[i]) = Len(itb[i])
            BY <2>1
        <3>3. \A k \in 1..Len(ita[i]) :
                 ita[i][k] = itb[i][k] /\ PortsOf(a)[ita[i][k]] = PortsOf(b)[itb[i][k]]
            BY <1>1, <2>1
        <3>4. QED
            BY <1>3, <3>1, <3>2, <3>3, PortsEqual
    <2>3. a.subsets[i] = b.subsets[i]
        BY <1>1, <1>3, <2>2 DEF SubsetShape, PortsOf, AddrsOf
    <2>4. \A k \in 1..(i' - 1) : a'.subsets[k] = b'.subsets[k]
        <3>1. a' = a /\ b' = b /\ i' - 1 = i
            BY <1>1, <1>5
        <3>2. \A k \in 1..i : a.subsets[k] = b.subsets[k]
            BY <1>1, <2>3
        <3>3. QED
            BY <3>1, <3>2
    <2>5. QED
        BY <1>1, <1>2, <1>3, <1>5, <2>4 DEF EqInv
<1>6. CASE /\ ra /\ rb
           /\ ita[i][j] = itb[i][j] /\ PortsOf(a)[ita[i][j]] = PortsOf(b)[itb[i][j]]
           /\ j' = j + 1 /\ UNCHANGED <<pc, result, i>>
    <2>1. \A k \in 1..(j' - 1) :
             /\ ita'[i'][k] = itb'[i'][k]
             /\ PortsOf(a)'[ita'[i'][k]] = PortsOf(b)'[itb'[i'][k]]
        <3>1. /\ ita' = ita /\ itb' = itb /\ i' = i /\ j' - 1 = j
              /\ PortsOf(a)' = PortsOf(a) /\ PortsOf(b)' = PortsOf(b)
            BY <1>1, <1>6 DEF PortsOf
        <3>2. \A k \in 1..j :
                 /\ ita[i][k] = itb[i][k]
                 /\ PortsOf(a)[ita[i][k]] = PortsOf(b)[itb[i][k]]
            BY <1>1, <1>6
        <3>3. QED
            BY <3>1, <3>2
    <2>2. QED
        BY <1>1, <1>2, <1>6, <2>1 DEF EqInv, AddrsOf
<1>7. CASE /\ ra /\ rb
           /\ ~(ita[i][j] = itb[i][j] /\ PortsOf(a)[ita[i][j]] = PortsOf(b)[itb[i][j]])
           /\ Return(0) /\ UNCHANGED <<i, j>>
    <2>1. ~(a = b /\ ita = itb)
        BY <1>7 DEF PortsOf
    <2>2. QED
        BY <1>1, <1>2, <1>7, <2>1 DEF EqInv, Return
<1>8. QED
    BY <1>4, <1>5, <1>6, <1>7 DEF ComparePort, PortsOf
-----------------------------------------------------------------------------
(* Every comparison of endpoints_equal, and a stutter, keeps EqInv. *)
LEMMA NextEqInv ==
    EqInv /\ [Next]_vars => EqInv'
<1> SUFFICES ASSUME EqInv, [Next]_vars PROVE EqInv'
    OBVIOUS
<1>1. CASE CompareHeader
    BY <1>1, CompareHeaderEqInv
<1>2. CASE StartSubset
    BY <1>2, StartSubsetEqInv
<1>3. CASE CompareAddr
    BY <1>3, CompareAddrEqInv
<1>4. CASE ComparePort
    BY <1>4, ComparePortEqInv
<1>5. CASE UNCHANGED vars
    <2>1. (/\ EpShape(a) /\ EpShape(b)
           /\ ita \in IterOrders(a) /\ itb \in IterOrders(b))'
        BY <1>5, Frame DEF vars
    <2>2. QED
        BY <1>5, <2>1 DEF vars, EqInv, AddrsOf, PortsOf
<1>6. QED
    BY <1>1, <1>2, <1>3, <1>4, <1>5 DEF Next

(* EqInv holds in every reachable state of endpoints_equal. *)
THEOREM EqInvariant ==
    Spec => []EqInv
BY InitEqInv, NextEqInv, PTL DEF Spec

(* endpoints_equal is sound and, for hashes that iterate alike, complete,
   for every set of JSON objects and every iteration order of the port
   hashes: it returns 1 only for two endpoints_t with the same name,
   namespace, subsets, addresses (NULLs included) and ports, and it
   returns 1 for two equal objects whose port hashes are iterated in the
   same order.  The watcher's decision that an Endpoints update changes
   nothing rests on the first half. *)
THEOREM EqualCorrect ==
    Spec => []EqualMatchesReference
<1>1. EqInv => EqualMatchesReference
    BY DEF EqInv, EqualMatchesReference
<1>2. QED
    BY EqInvariant, <1>1, PTL

====
