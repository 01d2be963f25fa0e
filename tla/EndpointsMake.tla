---------------------------- MODULE EndpointsMake ----------------------------
(***************************************************************************)
(* endpoints_make (src/api/endpoints.c) as a sequence of allocations.      *)
(*                                                                         *)
(* Endpoints describes what endpoints_make builds; this module describes   *)
(* how: the endpoints_t (checked against NULL), the subsets array, one     *)
(* endpoints_port_t per port and one address array per subset, none of    *)
(* them checked, each dereferenced where the code first stores into it:    *)
(* the subsets array and the address array inside the loops over them,    *)
(* the port at once.  An object is abstracted to its shape: whether its    *)
(* metadata is complete, whether it has a subsets array, and the number of *)
(* ports and addresses of each subset (a subset without an addresses array *)
(* allocates none, like one with an empty array).  calloc may fail when    *)
(* AllocMayFail; calloc of zero elements may return NULL in any case (the  *)
(* C standard leaves it to the implementation).                            *)
(***************************************************************************)
EXTENDS Naturals, Sequences

CONSTANTS
    Shapes,        \* the object shapes the watcher may hand over
    AllocMayFail   \* calloc may return NULL

(* A shape counts the ports and addresses of each subset: array lengths. *)
ASSUME ShapesAssumption ==
    Shapes \subseteq [meta : BOOLEAN, hasSubsets : BOOLEAN,
                      subsets : Seq([ports : Nat, addrs : Nat])]

VARIABLES
    obj,       \* the shape being converted
    pc,        \* the statement endpoints_make is at
    i,         \* subset index (i - 1 in the code)
    j,         \* port or address index (j - 1 in the code)
    subs,      \* ep_subsets: "ptr" or "NULL"
    addrs,     \* es_addrs of the current subset: "ptr" or "NULL"
    ret,       \* "eps", "null", or "none" before the return
    crashed,   \* a NULL returned by calloc was dereferenced
    oom        \* history: a calloc of one element or more returned NULL

vars == <<obj, pc, i, j, subs, addrs, ret, crashed, oom>>

Pointers == {"ptr", "NULL"}

TypeOK ==
    /\ obj \in Shapes
    /\ pc \in {"eps", "meta", "subsets", "subset", "port", "addrs", "addr", "done"}
    /\ i \in Nat \ {0} /\ j \in Nat \ {0}
    /\ subs \in Pointers /\ addrs \in Pointers
    /\ ret \in {"none", "eps", "null"}
    /\ crashed \in BOOLEAN /\ oom \in BOOLEAN

(* What calloc(n, size) may return: non-NULL, or NULL, which for zero
   elements the C standard allows whether or not memory is short. *)
CallocResults(n) == IF n = 0 \/ AllocMayFail THEN Pointers ELSE {"ptr"}

(* calloc(n, size) returned p: record a failed allocation. *)
Calloc(n, p) == oom' = (oom \/ (p = "NULL" /\ n > 0))

Init ==
    /\ obj \in Shapes
    /\ pc = "eps"
    /\ i = 1
    /\ j = 1
    /\ subs = "ptr"
    /\ addrs = "ptr"
    /\ ret = "none"
    /\ crashed = FALSE
    /\ oom = FALSE

Return(r) == pc' = "done" /\ ret' = r

(* A statement that dereferences pointer p, then goes on with next. *)
Deref(p, next) ==
    IF p = "NULL"
    THEN crashed' = TRUE /\ pc' = "done" /\ UNCHANGED <<i, j, ret>>
    ELSE next /\ UNCHANGED crashed

(* calloc of the endpoints_t: the only allocation checked against NULL. *)
AllocEps ==
    /\ pc = "eps"
    /\ \E p \in CallocResults(1) :
          /\ Calloc(1, p)
          /\ IF p = "NULL" THEN Return("null") ELSE pc' = "meta" /\ UNCHANGED ret
    /\ UNCHANGED <<obj, i, j, subs, addrs, crashed>>

(* metadata, namespace and name, else endpoints_free and NULL; without a
   subsets array the object is complete. *)
Metadata ==
    /\ pc = "meta"
    /\ \/ ~obj.meta /\ Return("null")
       \/ obj.meta /\ ~obj.hasSubsets /\ Return("eps")
       \/ obj.meta /\ obj.hasSubsets /\ pc' = "subsets" /\ UNCHANGED ret
    /\ UNCHANGED <<obj, i, j, subs, addrs, crashed, oom>>

(* calloc of ep_subsets, with no NULL check. *)
AllocSubsets ==
    /\ pc = "subsets"
    /\ \E p \in CallocResults(Len(obj.subsets)) :
          /\ subs' = p
          /\ Calloc(Len(obj.subsets), p)
    /\ pc' = "subset"
    /\ i' = 1
    /\ UNCHANGED <<obj, j, addrs, ret, crashed>>

(* Mutant: the body of the loop over the subsets runs before its test. *)
NextSubsetBodyFirst ==
    /\ pc = "subset"
    /\ Deref(subs, IF i > Len(obj.subsets)
                   THEN Return("eps") /\ UNCHANGED <<i, j>>
                   ELSE pc' = "port" /\ j' = 1 /\ UNCHANGED <<i, ret>>)
    /\ UNCHANGED <<obj, subs, addrs, oom>>

(* The head of the loop over the subsets: the return of the complete
   object, or the body, whose first statement stores a new hash in
   ep_subsets[i]. *)
NextSubset ==
    /\ pc = "subset"
    /\ IF i > Len(obj.subsets)
       THEN Return("eps") /\ UNCHANGED <<i, j, crashed>>
       ELSE Deref(subs, pc' = "port" /\ j' = 1 /\ UNCHANGED <<i, ret>>)
    /\ UNCHANGED <<obj, subs, addrs, oom>>

(* The loop over the ports: calloc of one endpoints_port_t, whose et_name
   is written at once; after the last port, the addresses. *)
AllocPort ==
    /\ pc = "port"
    /\ IF j > obj.subsets[i].ports
       THEN pc' = "addrs" /\ UNCHANGED <<j, ret, crashed, oom>>
       ELSE \E p \in CallocResults(1) :
               /\ Calloc(1, p)
               /\ Deref(p, pc' = "port" /\ j' = j + 1 /\ UNCHANGED ret)
    /\ UNCHANGED <<obj, i, subs, addrs>>

(* calloc of es_addrs, with no NULL check. *)
AllocAddrs ==
    /\ pc = "addrs"
    /\ \E p \in CallocResults(obj.subsets[i].addrs) :
          /\ addrs' = p
          /\ Calloc(obj.subsets[i].addrs, p)
    /\ pc' = "addr"
    /\ j' = 1
    /\ UNCHANGED <<obj, i, subs, ret, crashed>>

(* The loop over the addresses: the body writes ea_ip into es_addrs[j]
   (an address of the API always has an ip); after the last address, the
   next subset. *)
NextAddr ==
    /\ pc = "addr"
    /\ IF j > obj.subsets[i].addrs
       THEN pc' = "subset" /\ i' = i + 1 /\ UNCHANGED <<j, ret, crashed>>
       ELSE Deref(addrs, pc' = "addr" /\ j' = j + 1 /\ UNCHANGED <<i, ret>>)
    /\ UNCHANGED <<obj, subs, addrs, oom>>

Next ==
    \/ AllocEps \/ Metadata \/ AllocSubsets \/ NextSubset \/ AllocPort
    \/ AllocAddrs \/ NextAddr

Spec == Init /\ [][Next]_vars

-----------------------------------------------------------------------------
(* endpoints_make never dereferences a NULL that calloc returned: it
   returns NULL when its first allocation fails, and the arrays it
   allocates later are only used when they were allocated. *)
MakeNoNullDeref == ~crashed

(* endpoints_make dereferences a NULL only after a calloc of one element
   or more has failed: a calloc of zero elements may return NULL, and
   that array is never touched, because the loop over it tests its bound
   before its body stores into it. *)
CrashOnlyOnOOM == crashed => oom

====
