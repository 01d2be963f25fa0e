--------------------------- MODULE MC_SnapshotSlot ---------------------------
(* Model-checking instance of SnapshotSlot: two transactions, one TLS
   connection, a host with a context and TLS 1.2 minimum, a host without
   a context and a host that has no remap_host. *)
EXTENDS SnapshotSlot, TLC

CONSTANTS t1, t2, c1, h1, h2, h3

MCHostTls ==
    (h1 :> [ctx |-> TRUE, minver |-> 3]) @@ (h2 :> [ctx |-> FALSE, minver |-> 1])

=============================================================================
