------------------------- MODULE SnapshotAbstract -------------------------
(***************************************************************************)
(* What the snapshot slot promises the request hooks (spec section 7).     *)
(*                                                                         *)
(* There is one published database, the cluster as it was at some moment  *)
(* no earlier than the one published before it.  A reader takes the       *)
(* published database and keeps exactly that database until it lets it    *)
(* go, whatever is published meanwhile.  Eventually the published          *)
(* database is the current cluster.  Databases are named by the cluster    *)
(* version they were compiled from; NoDb is the empty slot.                *)
(***************************************************************************)
EXTENDS Integers

CONSTANTS
    Txns,         \* readers: the HTTP transactions of handle_remap
    MaxChanges    \* bound on the number of cluster changes

NoDb == -1
None == -2
Versions == 0..MaxChanges

VARIABLES
    cluster,     \* the cluster version
    published,   \* the version of the published database, or NoDb
    held         \* reader -> the version it holds, or None

avars == <<cluster, published, held>>

TypeOK ==
    /\ cluster \in Versions
    /\ published \in Versions \cup {NoDb}
    /\ held \in [Txns -> Versions \cup {NoDb, None}]

Init ==
    /\ cluster = 0
    /\ published = NoDb
    /\ held = [t \in Txns |-> None]

(* The cluster changes. *)
Change ==
    /\ cluster < MaxChanges
    /\ cluster' = cluster + 1
    /\ UNCHANGED <<published, held>>

(* A database no older than the published one is published. *)
Publish ==
    /\ \E v \in Versions : published <= v /\ v <= cluster /\ published' = v
    /\ UNCHANGED <<cluster, held>>

(* A reader takes the published database. *)
Get(t) ==
    /\ held[t] = None
    /\ held' = [held EXCEPT ![t] = published]
    /\ UNCHANGED <<cluster, published>>

(* A reader lets its database go. *)
Release(t) ==
    /\ held[t] # None
    /\ held' = [held EXCEPT ![t] = None]
    /\ UNCHANGED <<cluster, published>>

Next ==
    \/ Change
    \/ Publish
    \/ \E t \in Txns : Get(t) \/ Release(t)

(* The slot catches up with the cluster: publishing the current cluster
   cannot stay possible forever without happening. *)
Spec == Init /\ [][Next]_avars /\ WF_avars(Publish /\ published' = cluster)

=============================================================================
