-------------------------- MODULE MC_EndpointsMake --------------------------
EXTENDS EndpointsMake, TLC

(* Up to two subsets of up to two ports and two addresses each, with and
   without complete metadata and a subsets array. *)
MCSubsets == [ports : 0..2, addrs : 0..2]

MCShapes ==
    [meta : BOOLEAN, hasSubsets : BOOLEAN,
     subsets : {<<>>} \cup {<<s>> : s \in MCSubsets}
               \cup {<<s, t>> : s, t \in MCSubsets}]

====
