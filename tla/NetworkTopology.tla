---------------------------- MODULE NetworkTopology ----------------------------
(***************************************************************************)
(* The network page: build_network_topology infers from the addresses of   *)
(* the servers' interfaces which servers share a network.  Two servers     *)
(* with an address in the same subnet are neighbours, unless the subnet    *)
(* is used behind several gateways: then it is several networks, and a     *)
(* server that names no gateway belongs to none of them.                   *)
(*                                                                         *)
(* An interface is [host, kind, net, gateway]; net is None where the       *)
(* address is not used (IPv6, loopback, link-local, host route, no mask).  *)
(***************************************************************************)
EXTENDS Integers, Sequences, FiniteSets, FiniteSetsExt

CONSTANT NoNet

is_virtual_interface(kind) == kind \notin {"physical", "bond_master"}

Usable(ifs, i) == ~is_virtual_interface(ifs[i].kind) /\ ifs[i].net # NoNet

\* subnet_members: a server is in a subnet once, with its first address there.
Members(ifs) ==
    {i \in DOMAIN ifs : /\ Usable(ifs, i)
                        /\ \A j \in 1..(i - 1) : Usable(ifs, j) => \/ ifs[j].host # ifs[i].host
                                                                   \/ ifs[j].net # ifs[i].net}

GatewaysOf(ifs, net) == {ifs[i].gateway : i \in {i \in Members(ifs) : ifs[i].net = net}} \ {NoNet}

\* Mutant: a subnet is split only when three gateways are met.
AmbiguousFromThree(ifs, net) == Cardinality(GatewaysOf(ifs, net)) >= 3

Ambiguous(ifs, net) == Cardinality(GatewaysOf(ifs, net)) >= 2

\* The networks: [net, gateway, hosts]; those of fewer than two servers are left out.
Surviving(ifs) ==
    LET Hosts(net, gws) == {ifs[i].host : i \in {i \in Members(ifs) : ifs[i].net = net /\ ifs[i].gateway \in gws}}
        Whole(net) == LET gws == GatewaysOf(ifs, net)
                      IN  [net |-> net, gateway |-> IF gws = {} THEN NoNet ELSE CHOOSE g \in gws : TRUE,
                           hosts |-> Hosts(net, gws \cup {NoNet})]
        Split(net) == {[net |-> net, gateway |-> g, hosts |-> Hosts(net, {g})] : g \in GatewaysOf(ifs, net)}
        All == UNION {IF Ambiguous(ifs, net) THEN Split(net) ELSE {Whole(net)} : net \in {ifs[i].net : i \in Members(ifs)}}
    IN  {g \in All : Cardinality(g.hosts) >= 2}

SharedGateways(ifs) ==
    {g \in {n.gateway : n \in Surviving(ifs)} \ {NoNet} :
        Cardinality({n \in Surviving(ifs) : n.gateway = g}) >= 2}

\* The graph: servers, networks and the gateways several networks share; the figures
\* above it.  servers is the set of all servers.
build_network_topology(ifs, servers) ==
    LET nets == Surviving(ifs)
        Homes(h) == Cardinality({n \in nets : h \in n.hosts})
        graph_hosts == UNION {n.hosts : n \in nets}
    IN  [host_nodes |-> graph_hosts,
         subnet_nodes |-> nets,
         gateway_nodes |-> SharedGateways(ifs),
         members |-> UNION {{<<h, n>> : h \in n.hosts} : n \in nets},
         routes |-> {<<n.gateway, n>> : n \in {n \in nets : n.gateway \in SharedGateways(ifs)}},
         multi_homed |-> {h \in graph_hosts : Homes(h) >= 2},
         isolated_count |-> Cardinality(servers) - Cardinality(graph_hosts)]

-----------------------------------------------------------------------------
(* What the page promises *)

\* Two servers may be taken for neighbours in a subnet.
Neighbours(ifs, h, k, net) ==
    \E i, j \in Members(ifs) :
        /\ ifs[i].host = h /\ ifs[j].host = k /\ ifs[i].net = net /\ ifs[j].net = net
        /\ \/ ifs[i].gateway = ifs[j].gateway /\ ifs[i].gateway # NoNet
           \/ \A g1, g2 \in GatewaysOf(ifs, net) : g1 = g2

\* Two servers are drawn in one network exactly if they share a subnet and nothing
\* speaks against it, and nobody else is drawn; a network has one gateway, and every
\* server that names another one is in another network; a server that has several
\* addresses is one node; and the servers not drawn are counted.
TopologyFits(ifs, servers) ==
    LET t == build_network_topology(ifs, servers)
        nets == {ifs[i].net : i \in DOMAIN ifs} \ {NoNet}
    IN  /\ \A h, k \in servers : h # k =>
              \A net \in nets :
                 Neighbours(ifs, h, k, net) <=> \E n \in t.subnet_nodes : n.net = net /\ {h, k} \subseteq n.hosts
        /\ \A h \in servers : h \in t.host_nodes <=> \E k \in servers \ {h}, net \in nets : Neighbours(ifs, h, k, net)
        /\ \A i \in Members(ifs) : ifs[i].gateway # NoNet =>
              \A n \in t.subnet_nodes : n.net = ifs[i].net /\ ifs[i].host \in n.hosts => n.gateway = ifs[i].gateway
        /\ t.isolated_count = Cardinality({h \in servers : \A e \in t.members : e[1] # h})
        /\ \A e \in t.routes : Cardinality({f \in t.routes : f[1] = e[1]}) >= 2

\* An interface that is added takes a server out of the graph only by bringing a
\* second gateway into a subnet of that server.
AddingHidesOnlyByGateway(before, after, servers) ==
    \A h \in build_network_topology(before, servers).host_nodes :
        \/ h \in build_network_topology(after, servers).host_nodes
        \/ \E i \in Members(before) : /\ before[i].host = h
                                      /\ ~Ambiguous(before, before[i].net)
                                      /\ Ambiguous(after, before[i].net)
=============================================================================
