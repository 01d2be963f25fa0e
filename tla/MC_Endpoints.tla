---------------------------- MODULE MC_Endpoints ----------------------------
EXTENDS Endpoints, TLC


Port(n, pr, po) == [name |-> n, protocol |-> pr, port |-> po]
Addr(ip, nd) == [ip |-> ip, nodename |-> nd]
Subset(hp, ps, ha, as) == [hasPorts |-> hp, ports |-> ps, hasAddrs |-> ha, addrs |-> as]
Obj(m, ns, n, hs, ss) == [meta |-> m, ns |-> ns, name |-> n, hasSubsets |-> hs, subsets |-> ss]

(* Port arrays: named, unnamed, defaulted, two ports in either order, and
   two ports with the same name. *)
MCPortArrays ==
    {<<>>, <<Port("http", "TCP", 80)>>, <<Port(Absent, Absent, 80)>>,
     <<Port("http", "TCP", Absent)>>,
     <<Port("http", "TCP", 80), Port("dns", "UDP", 53)>>,
     <<Port("dns", "UDP", 53), Port("http", "TCP", 80)>>,
     <<Port("http", "UDP", 53), Port("http", "TCP", 80)>>}

MCAddrArrays ==
    {<<>>, <<Addr("10.0.0.1", "node1")>>, <<Addr("10.0.0.1", Absent)>>,
     <<Addr(Absent, "node1")>>, <<Addr("10.0.0.2", "node1")>>,
     <<Addr("10.0.0.1", "node1"), Addr("10.0.0.2", "node1")>>}

MCSubsets ==
    {Subset(TRUE, ps, TRUE, <<Addr("10.0.0.1", "node1")>>) : ps \in MCPortArrays}
    \cup {Subset(TRUE, <<Port("http", "TCP", 80)>>, TRUE, as) : as \in MCAddrArrays}
    \cup {Subset(FALSE, <<>>, FALSE, <<>>)}

MCObjects ==
    {Obj(TRUE, "default", "web", TRUE, <<s>>) : s \in MCSubsets}
    \cup {Obj(TRUE, "default", "web", TRUE, <<>>),
          Obj(TRUE, "default", "web", FALSE, <<>>),
          Obj(TRUE, "default", "api", TRUE, <<>>),
          Obj(TRUE, "other", "web", TRUE, <<>>),
          Obj(TRUE, Absent, "web", TRUE, <<>>),
          Obj(FALSE, Absent, Absent, FALSE, <<>>),
          Obj(TRUE, "default", "web", TRUE,
              <<Subset(FALSE, <<>>, FALSE, <<>>),
                Subset(TRUE, <<Port("http", "TCP", 80), Port("dns", "UDP", 53)>>,
                       TRUE, <<Addr("10.0.0.1", "node1")>>)>>)}
=============================================================================
