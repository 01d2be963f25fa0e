------------------------------ MODULE Endpoints ------------------------------
(***************************************************************************)
(* The Kubernetes Endpoints object (src/api/endpoints.c).                  *)
(*                                                                         *)
(* endpoints_make turns a JSON object into an endpoints_t; it is an        *)
(* operator over an abstract JSON object whose fields are either a value   *)
(* or Absent (missing, or of the wrong JSON type: the code treats both     *)
(* alike).  endpoints_equal is a state machine with one step per           *)
(* comparison, so that each of its early returns is a step.  The ports of  *)
(* a subset are kept in a hash (es_ports), keyed by port name; hash.c is   *)
(* not under src/, and its tests fix no iteration order, so each hash is   *)
(* iterated in an order chosen among all the orders of its keys.           *)
(***************************************************************************)
EXTENDS Integers, Sequences, FiniteSets

CONSTANTS
    Objects,   \* the JSON objects the watcher may hand to endpoints_make
    Absent     \* a field that is missing or not of the expected JSON type

(* s is a finite sequence (a JSON array). *)
IsArray(s) == s \in Seq({s[k] : k \in DOMAIN s})

(* The subsets of an object, and the address arrays of its subsets, are
   JSON arrays: endpoints_make indexes them from 0 to json_array_size. *)
ASSUME EndpointsAssumption ==
    \A o \in Objects :
        /\ IsArray(o.subsets)
        /\ \A k \in 1..Len(o.subsets) : IsArray(o.subsets[k].addrs)

(* The result of a string field: the string, or the NULL pointer. *)
Null == "NULL"

(* endpoints_make fails (returns NULL) when metadata, metadata.namespace
   or metadata.name is missing. *)
MakeFails(o) == ~o.meta \/ o.ns = Absent \/ o.name = Absent

(* The port record endpoints_make stores: name "" and protocol "TCP" by
   default, port 0 when missing. *)
MakePort(p) ==
    [name |-> IF p.name = Absent THEN "" ELSE p.name,
     protocol |-> IF p.protocol = Absent THEN "TCP" ELSE p.protocol,
     port |-> IF p.port = Absent THEN 0 ELSE p.port]

(* es_ports after hash_set of every port in array order: keyed by name,
   a later port with the same name replacing the earlier one. *)
MakePorts(ps) ==
    LET names == {MakePort(ps[k]).name : k \in 1..Len(ps)}
        last(n) == CHOOSE k \in 1..Len(ps) :
                      /\ MakePort(ps[k]).name = n
                      /\ \A m \in k + 1..Len(ps) : MakePort(ps[m]).name # n
    IN  [n \in names |-> MakePort(ps[last(n)])]

MakeAddr(a) ==
    [ip |-> IF a.ip = Absent THEN Null ELSE a.ip,
     nodename |-> IF a.nodename = Absent THEN Null ELSE a.nodename]

MakeSubset(s) ==
    [ports |-> IF s.hasPorts THEN MakePorts(s.ports) ELSE <<>>,
     addrs |-> IF s.hasAddrs THEN [k \in 1..Len(s.addrs) |-> MakeAddr(s.addrs[k])]
                             ELSE <<>>]

(* endpoints_make for an object that does not fail: without a subsets
   array there are no subsets. *)
EndpointsMake(o) ==
    [name |-> o.name, namespace |-> o.ns,
     subsets |-> IF o.hasSubsets
                 THEN [k \in 1..Len(o.subsets) |-> MakeSubset(o.subsets[k])]
                 ELSE <<>>]

(* The orders in which hash_iterate may visit a hash with keys S: a
   sequence of keys that visits every key and is no longer than S is
   large, so visits each key exactly once. *)
Orders(S) ==
    {f \in UNION {[1..n -> S] : n \in 0..Cardinality(S)} :
        \A x \in S : \E k \in DOMAIN f : f[k] = x}

(* The orders in which the port hashes of e may be iterated. *)
IterOrders(e) ==
    {f \in [1..Len(e.subsets) ->
              UNION {Orders(DOMAIN e.subsets[k].ports) : k \in 1..Len(e.subsets)}] :
        \A k \in 1..Len(e.subsets) : f[k] \in Orders(DOMAIN e.subsets[k].ports)}

VARIABLES
    a, b,       \* the two endpoints_t compared
    ita, itb,   \* subset -> iteration order of its port hash
    pc,         \* "header", "subset", "addrs", "ports", "done"
    i,          \* subset index
    j,          \* address index, then iteration step of the port hashes
    result      \* the return value, once pc = "done"

vars == <<a, b, ita, itb, pc, i, j, result>>

Init ==
    /\ \E oa, ob \in {o \in Objects : ~MakeFails(o)} :
          /\ a = EndpointsMake(oa)
          /\ b = EndpointsMake(ob)
    /\ ita \in IterOrders(a)
    /\ itb \in IterOrders(b)
    /\ pc = "header"
    /\ i = 1
    /\ j = 1
    /\ result = 0

Return(r) == pc' = "done" /\ result' = r

-----------------------------------------------------------------------------
(* Name, namespace and number of subsets (lines 181-186). *)
CompareHeader ==
    /\ pc = "header"
    /\ IF a.name # b.name \/ a.namespace # b.namespace
          \/ Len(a.subsets) # Len(b.subsets)
       THEN Return(0) /\ UNCHANGED i
       ELSE pc' = "subset" /\ i' = 1 /\ UNCHANGED result
    /\ UNCHANGED <<a, b, ita, itb, j>>

(* Top of the subset loop (lines 188-193): done after the last subset;
   otherwise the numbers of addresses must agree. *)
StartSubset ==
    /\ pc = "subset"
    /\ \/ /\ i > Len(a.subsets)
          /\ Return(1)
       \/ /\ i <= Len(a.subsets)
          /\ Len(a.subsets[i].addrs) # Len(b.subsets[i].addrs)
          /\ Return(0)
       \/ /\ i <= Len(a.subsets)
          /\ Len(a.subsets[i].addrs) = Len(b.subsets[i].addrs)
          /\ pc' = "addrs"
          /\ UNCHANGED result
    /\ j' = 1
    /\ UNCHANGED <<a, b, ita, itb, i>>

(* Mutant: a NULL field on either side is taken to match anything. *)
SameStringNullLenient(x, y) == x = Null \/ y = Null \/ x = y

(* The NULL-aware string comparison of lines 199-217: two NULLs are equal,
   NULL and a string are not, two strings by strcmp. *)
SameString(x, y) == x = y

(* One address pair (lines 195-217), then on to the ports. *)
CompareAddr ==
    /\ pc = "addrs"
    /\ LET as == a.subsets[i].addrs
           bs == b.subsets[i].addrs
       IN  \/ /\ j > Len(as)
              /\ pc' = "ports"
              /\ j' = 1
              /\ UNCHANGED result
           \/ /\ j <= Len(as)
              /\ ~SameString(as[j].ip, bs[j].ip)
                 \/ ~SameString(as[j].nodename, bs[j].nodename)
              /\ Return(0)
              /\ UNCHANGED j
           \/ /\ j <= Len(as)
              /\ SameString(as[j].ip, bs[j].ip)
              /\ SameString(as[j].nodename, bs[j].nodename)
              /\ j' = j + 1
              /\ UNCHANGED <<pc, result>>
    /\ UNCHANGED <<a, b, ita, itb, i>>

(* One step of the two hash iterations (lines 220-246): both must end
   together; otherwise the keys, names, protocols and ports must agree. *)
ComparePort ==
    /\ pc = "ports"
    /\ LET ra == j <= Len(ita[i])
           rb == j <= Len(itb[i])
       IN  \/ /\ ra # rb
              /\ Return(0)
              /\ UNCHANGED <<i, j>>
           \/ /\ ~ra /\ ~rb
              /\ pc' = "subset"
              /\ i' = i + 1
              /\ UNCHANGED <<j, result>>
           \/ /\ ra /\ rb
              /\ LET pa == a.subsets[i].ports[ita[i][j]]
                     pb == b.subsets[i].ports[itb[i][j]]
                 IN  IF ita[i][j] = itb[i][j] /\ pa = pb
                     THEN j' = j + 1 /\ UNCHANGED <<pc, result>>
                     ELSE Return(0) /\ UNCHANGED j
              /\ UNCHANGED i
    /\ UNCHANGED <<a, b, ita, itb>>

Next == CompareHeader \/ StartSubset \/ CompareAddr \/ ComparePort

Spec == Init /\ [][Next]_vars

-----------------------------------------------------------------------------
(* endpoints_equal is sound: it returns 1 only for two endpoints_t with
   the same name, namespace, subsets, addresses (NULLs included) and
   ports; and when both port hashes iterate in the same order it returns
   1 for equal objects.  The watcher relies on it to decide that an
   Endpoints update changes nothing. *)
EqualMatchesReference ==
    pc = "done" =>
        /\ result = 1 => a = b
        /\ a = b /\ ita = itb => result = 1

=============================================================================
