------------------------- MODULE InventoryViews_proofs -------------------------
(***************************************************************************)
(* Proofs for InventoryViews: the network page, for any number of servers, *)
(* interfaces, subnets and gateways.                                       *)
(***************************************************************************)
EXTENDS InventoryViews, FiniteSetTheorems, TLAPS

-----------------------------------------------------------------------------
(* Finite sets *)

\* A finite set has two members exactly if its cardinality is at least two.
LEMMA TwoMembers ==
    ASSUME NEW S, IsFiniteSet(S)
    PROVE  Cardinality(S) >= 2 <=> \E x, y \in S : x # y
<1>0. Cardinality(S) \in Nat
  BY FS_CardinalityType
<1>1. ASSUME NEW x \in S, NEW y \in S, x # y PROVE Cardinality(S) >= 2
  <2>1. IsFiniteSet({x}) /\ Cardinality({x}) = 1
    BY FS_Singleton
  <2>2. Cardinality({x} \cup {y}) = 2
    BY <1>1, <2>1, FS_AddElement
  <2>3. Cardinality({x} \cup {y}) <= Cardinality(S)
    <3>1. {x} \cup {y} \in SUBSET S
      OBVIOUS
    <3> QED
      BY <3>1, FS_Subset
  <2> QED
    BY <1>0, <2>2, <2>3
<1>2. ASSUME \A x, y \in S : x = y PROVE ~(Cardinality(S) >= 2)
  <2>1. CASE S = {}
    <3>1. Cardinality({}) = 0
      BY FS_EmptySet
    <3> QED
      BY <2>1, <3>1
  <2>2. CASE S # {}
    <3>1. PICK x \in S : TRUE
      BY <2>2
    <3>2. S = {x}
      BY <1>2, <3>1
    <3>3. Cardinality({x}) = 1
      BY FS_Singleton
    <3> QED
      BY <3>2, <3>3
  <2> QED
    BY <2>1, <2>2
<1> QED
  BY <1>1, <1>2

\* What a function makes of a finite set is finite.
LEMMA FiniteImage ==
    ASSUME NEW S, IsFiniteSet(S), NEW f, DOMAIN f = S
    PROVE  IsFiniteSet({f[x] : x \in S})
<1> DEFINE T == {f[x] : x \in S}
           g == [x \in S |-> f[x]]
<1>1. g \in Surjection(S, T)
  BY DEF Surjection
<1> HIDE DEF g, T
<1>2. IsFiniteSet(T)
  BY <1>1, FS_Surjection
<1> QED
  BY <1>2 DEF T

-----------------------------------------------------------------------------
(* Networks *)

\* The servers that are in a subnet with one of these gateways.
HostsOf(ifs, net, gws) ==
    {ifs[i].host : i \in {i \in Members(ifs) : ifs[i].net = net /\ ifs[i].gateway \in gws}}

\* The one gateway of a subnet that is not split, if there is any.
OnlyGateway(ifs, net) ==
    LET gws == GatewaysOf(ifs, net) IN IF gws = {} THEN NoNet ELSE CHOOSE g \in gws : TRUE

WholeNet(ifs, net) ==
    [net |-> net, gateway |-> OnlyGateway(ifs, net), hosts |-> HostsOf(ifs, net, GatewaysOf(ifs, net) \cup {NoNet})]

SplitNet(ifs, net, g) == [net |-> net, gateway |-> g, hosts |-> HostsOf(ifs, net, {g})]

(* What a drawn subnet is: two hosts at least, whole or split by gateway. *)
LEMMA SurvivingIs ==
    ASSUME NEW ifs
    PROVE  \A n : n \in Surviving(ifs) <=>
              /\ Cardinality(n.hosts) >= 2
              /\ \E net \in {ifs[i].net : i \in Members(ifs)} :
                    \/ Ambiguous(ifs, net) /\ \E g \in GatewaysOf(ifs, net) : n = SplitNet(ifs, net, g)
                    \/ ~Ambiguous(ifs, net) /\ n = WholeNet(ifs, net)
<1> DEFINE A == {ifs[i].net : i \in Members(ifs)}
           Parts(net) == IF Ambiguous(ifs, net) THEN {SplitNet(ifs, net, g) : g \in GatewaysOf(ifs, net)}
                         ELSE {WholeNet(ifs, net)}
           All == UNION {Parts(net) : net \in A}
<1>1. Surviving(ifs) = {n \in All : Cardinality(n.hosts) >= 2}
  BY DEF Surviving, SplitNet, WholeNet, HostsOf, OnlyGateway
<1>2. \A n : n \in All <=> \E net \in A : n \in Parts(net)
  OBVIOUS
<1>3. \A n, net : n \in Parts(net) <=>
         \/ Ambiguous(ifs, net) /\ \E g \in GatewaysOf(ifs, net) : n = SplitNet(ifs, net, g)
         \/ ~Ambiguous(ifs, net) /\ n = WholeNet(ifs, net)
  OBVIOUS
<1> HIDE DEF All, Parts
<1> QED
  BY <1>1, <1>2, <1>3

(* The addresses that count are finitely many, one per host and subnet. *)
LEMMA MembersFinite ==
    ASSUME NEW R, NEW ifs \in Seq(R)
    PROVE  /\ IsFiniteSet(Members(ifs)) /\ Members(ifs) \subseteq 1..Len(ifs)
           /\ \A i \in Members(ifs) : ifs[i] \in R /\ ifs[i].net # NoNet
           /\ \A i, j \in Members(ifs) : ifs[i].host = ifs[j].host /\ ifs[i].net = ifs[j].net => i = j
<1>1. Members(ifs) \in SUBSET (1..Len(ifs)) /\ Len(ifs) \in Nat
  BY DEF Members
<1>2. IsFiniteSet(1..Len(ifs))
  BY <1>1, FS_Interval
<1>3. IsFiniteSet(Members(ifs))
  BY <1>1, <1>2, FS_Subset
<1>4. \A i \in Members(ifs) : ifs[i] \in R /\ ifs[i].net # NoNet
  BY <1>1 DEF Members, Usable
<1>5. ASSUME NEW i \in Members(ifs), NEW j \in Members(ifs), i < j
      PROVE  ~(ifs[i].host = ifs[j].host /\ ifs[i].net = ifs[j].net)
  <2>1. i \in Nat /\ j \in Nat /\ 1 <= i
    BY <1>1
  <2>2. i \in 1..(j - 1)
    BY <1>5, <2>1
  <2> QED
    BY <2>2 DEF Members
<1>6. \A i, j \in Members(ifs) : i < j \/ j < i \/ i = j
  BY <1>1
<1> QED
  BY <1>1, <1>3, <1>4, <1>5, <1>6

(* A subnet has finitely many hosts. *)
LEMMA HostsFinite ==
    ASSUME NEW R, NEW ifs \in Seq(R), NEW net, NEW gws
    PROVE  IsFiniteSet(HostsOf(ifs, net, gws))
<1> DEFINE S == {i \in Members(ifs) : ifs[i].net = net /\ ifs[i].gateway \in gws}
           f == [i \in S |-> ifs[i].host]
<1>1. IsFiniteSet(S)
  <2>1. S \in SUBSET Members(ifs)
    OBVIOUS
  <2> QED
    BY <2>1, MembersFinite, FS_Subset
<1>2. DOMAIN f = S /\ HostsOf(ifs, net, gws) = {f[i] : i \in S}
  BY DEF HostsOf
<1> HIDE DEF S, f
<1> QED
  BY <1>1, <1>2, FiniteImage

(* A subnet has finitely many gateways. *)
LEMMA GatewaysFinite ==
    ASSUME NEW R, NEW ifs \in Seq(R), NEW net
    PROVE  IsFiniteSet(GatewaysOf(ifs, net))
<1> DEFINE S == {i \in Members(ifs) : ifs[i].net = net}
           f == [i \in S |-> ifs[i].gateway]
           T == {f[i] : i \in S}
<1>1. IsFiniteSet(S)
  <2>1. S \in SUBSET Members(ifs)
    OBVIOUS
  <2> QED
    BY <2>1, MembersFinite, FS_Subset
<1>2. DOMAIN f = S /\ GatewaysOf(ifs, net) = T \ {NoNet}
  BY DEF GatewaysOf
<1>3. IsFiniteSet(T)
  <2> HIDE DEF S, f
  <2> QED
    BY <1>1, <1>2, FiniteImage
<1>4. T \ {NoNet} \in SUBSET T
  OBVIOUS
<1> HIDE DEF T
<1> QED
  BY <1>2, <1>3, <1>4, FS_Subset

\* A subnet is split exactly if it has two gateways.
LEMMA AmbiguousIs ==
    ASSUME NEW R, NEW ifs \in Seq(R), NEW net
    PROVE  Ambiguous(ifs, net) <=> \E g, h \in GatewaysOf(ifs, net) : g # h
BY GatewaysFinite, TwoMembers DEF Ambiguous

(* A member's gateway is one of its subnet's, or none. *)
LEMMA GatewayMember ==
    ASSUME NEW ifs, NEW i \in Members(ifs)
    PROVE  ifs[i].gateway \in GatewaysOf(ifs, ifs[i].net) \cup {NoNet}
BY DEF GatewaysOf

(* A host of a subnet is the host of one of its members. *)
LEMMA HostMember ==
    ASSUME NEW ifs, NEW net, NEW gws, NEW h
    PROVE  h \in HostsOf(ifs, net, gws) <=>
              \E i \in Members(ifs) : ifs[i].host = h /\ ifs[i].net = net /\ ifs[i].gateway \in gws
BY DEF HostsOf

\* Two members are in one network exactly if nothing speaks against it.
LEMMA DrawnTogether ==
    ASSUME NEW R, NEW ifs \in Seq(R), NEW h, NEW k, h # k, NEW net
    PROVE  Neighbours(ifs, h, k, net) <=> \E n \in Surviving(ifs) : n.net = net /\ {h, k} \subseteq n.hosts
<1>1. ASSUME Neighbours(ifs, h, k, net)
      PROVE  \E n \in Surviving(ifs) : n.net = net /\ {h, k} \subseteq n.hosts
  <2>1. PICK i, j \in Members(ifs) :
           /\ ifs[i].host = h /\ ifs[j].host = k /\ ifs[i].net = net /\ ifs[j].net = net
           /\ \/ ifs[i].gateway = ifs[j].gateway /\ ifs[i].gateway # NoNet
              \/ \A g1, g2 \in GatewaysOf(ifs, net) : g1 = g2
    BY <1>1 DEF Neighbours
  <2>2. /\ ifs[i].gateway \in GatewaysOf(ifs, net) \cup {NoNet}
        /\ ifs[j].gateway \in GatewaysOf(ifs, net) \cup {NoNet}
    BY <2>1, GatewayMember
  <2>3. net \in {ifs[m].net : m \in Members(ifs)}
    BY <2>1
  <2>4. CASE Ambiguous(ifs, net)
    <3>1. ifs[i].gateway = ifs[j].gateway /\ ifs[i].gateway \in GatewaysOf(ifs, net)
      BY <2>1, <2>2, <2>4, AmbiguousIs
    <3>2. PICK n : n = SplitNet(ifs, net, ifs[i].gateway)
      OBVIOUS
    <3>3. n.net = net /\ n.hosts = HostsOf(ifs, net, {ifs[i].gateway})
      BY <3>2 DEF SplitNet
    <3>4. h \in n.hosts /\ k \in n.hosts /\ IsFiniteSet(n.hosts)
      BY <2>1, <3>1, <3>3, HostMember, HostsFinite
    <3>5. Cardinality(n.hosts) >= 2
      BY <3>4, TwoMembers
    <3>6. n \in Surviving(ifs)
      BY <2>3, <2>4, <3>1, <3>2, <3>5, SurvivingIs
    <3> QED
      BY <3>3, <3>4, <3>6
  <2>5. CASE ~Ambiguous(ifs, net)
    <3>1. PICK n : n = WholeNet(ifs, net)
      OBVIOUS
    <3>2. n.net = net /\ n.hosts = HostsOf(ifs, net, GatewaysOf(ifs, net) \cup {NoNet})
      BY <3>1 DEF WholeNet
    <3>3. h \in n.hosts /\ k \in n.hosts /\ IsFiniteSet(n.hosts)
      BY <2>1, <2>2, <3>2, HostMember, HostsFinite
    <3>4. Cardinality(n.hosts) >= 2
      BY <3>3, TwoMembers
    <3>5. n \in Surviving(ifs)
      BY <2>3, <2>5, <3>1, <3>4, SurvivingIs
    <3> QED
      BY <3>2, <3>3, <3>5
  <2> QED
    BY <2>4, <2>5
<1>2. ASSUME NEW n \in Surviving(ifs), n.net = net, {h, k} \subseteq n.hosts
      PROVE  Neighbours(ifs, h, k, net)
  <2>1. PICK m \in {ifs[i].net : i \in Members(ifs)} :
           \/ Ambiguous(ifs, m) /\ \E g \in GatewaysOf(ifs, m) : n = SplitNet(ifs, m, g)
           \/ ~Ambiguous(ifs, m) /\ n = WholeNet(ifs, m)
    BY SurvivingIs
  <2>2. m = net
    <3>1. \A g : SplitNet(ifs, m, g).net = m
      BY DEF SplitNet
    <3>2. WholeNet(ifs, m).net = m
      BY DEF WholeNet
    <3> QED
      BY <1>2, <2>1, <3>1, <3>2
  <2>3. CASE Ambiguous(ifs, m) /\ \E g \in GatewaysOf(ifs, m) : n = SplitNet(ifs, m, g)
    <3>1. PICK g \in GatewaysOf(ifs, net) : n = SplitNet(ifs, net, g)
      BY <2>2, <2>3
    <3>2. g # NoNet
      BY DEF GatewaysOf
    <3>3. n.hosts = HostsOf(ifs, net, {g})
      BY <3>1 DEF SplitNet
    <3>4. PICK i \in Members(ifs) : ifs[i].host = h /\ ifs[i].net = net /\ ifs[i].gateway = g
      BY <1>2, <3>3, HostMember
    <3>5. PICK j \in Members(ifs) : ifs[j].host = k /\ ifs[j].net = net /\ ifs[j].gateway = g
      BY <1>2, <3>3, HostMember
    <3> QED
      BY <3>2, <3>4, <3>5 DEF Neighbours
  <2>4. CASE ~Ambiguous(ifs, m) /\ n = WholeNet(ifs, m)
    <3>1. n.hosts = HostsOf(ifs, net, GatewaysOf(ifs, net) \cup {NoNet})
      BY <2>2, <2>4 DEF WholeNet
    <3>2. PICK i \in Members(ifs) : ifs[i].host = h /\ ifs[i].net = net
      BY <1>2, <3>1, HostMember
    <3>3. PICK j \in Members(ifs) : ifs[j].host = k /\ ifs[j].net = net
      BY <1>2, <3>1, HostMember
    <3>4. \A g1, g2 \in GatewaysOf(ifs, net) : g1 = g2
      BY <2>2, <2>4, AmbiguousIs
    <3> QED
      BY <3>2, <3>3, <3>4 DEF Neighbours
  <2> QED
    BY <2>1, <2>3, <2>4
<1> QED
  BY <1>1, <1>2

\* What is known of a network that is drawn.
LEMMA NetFacts ==
    ASSUME NEW R, NEW ifs \in Seq(R), NEW n \in Surviving(ifs)
    PROVE  /\ IsFiniteSet(n.hosts) /\ \E h, k \in n.hosts : h # k
           /\ n.net # NoNet
           /\ \A h \in n.hosts : \E i \in Members(ifs) :
                 ifs[i].host = h /\ ifs[i].net = n.net /\ (Ambiguous(ifs, n.net) => ifs[i].gateway = n.gateway)
           /\ n = SplitNet(ifs, n.net, n.gateway) \/ n = WholeNet(ifs, n.net)
           /\ ~Ambiguous(ifs, n.net) => n.gateway = OnlyGateway(ifs, n.net)
<1>1. PICK m \in {ifs[i].net : i \in Members(ifs)} :
         \/ Ambiguous(ifs, m) /\ \E g \in GatewaysOf(ifs, m) : n = SplitNet(ifs, m, g)
         \/ ~Ambiguous(ifs, m) /\ n = WholeNet(ifs, m)
  BY SurvivingIs
<1>2. Cardinality(n.hosts) >= 2
  BY SurvivingIs
<1>3. m # NoNet
  BY <1>1, MembersFinite
<1>4. CASE Ambiguous(ifs, m) /\ \E g \in GatewaysOf(ifs, m) : n = SplitNet(ifs, m, g)
  <2>1. PICK g : n = SplitNet(ifs, m, g)
    BY <1>4
  <2>2. n.net = m /\ n.gateway = g /\ n.hosts = HostsOf(ifs, m, {g})
    BY <2>1 DEF SplitNet
  <2>3. IsFiniteSet(n.hosts)
    BY <2>2, HostsFinite
  <2>4. \A h \in n.hosts : \E i \in Members(ifs) : ifs[i].host = h /\ ifs[i].net = m /\ ifs[i].gateway = g
    BY <2>2, HostMember
  <2>5. \E h, k \in n.hosts : h # k
    BY <1>2, <2>3, TwoMembers
  <2>6. Ambiguous(ifs, n.net) /\ n = SplitNet(ifs, n.net, n.gateway)
    BY <1>4, <2>1, <2>2
  <2>7. \A h \in n.hosts : \E i \in Members(ifs) :
           ifs[i].host = h /\ ifs[i].net = n.net /\ (Ambiguous(ifs, n.net) => ifs[i].gateway = n.gateway)
    BY <2>2, <2>4
  <2> QED
    BY <1>3, <2>2, <2>3, <2>5, <2>6, <2>7
<1>5. CASE ~Ambiguous(ifs, m) /\ n = WholeNet(ifs, m)
  <2>2. n.net = m /\ n.gateway = OnlyGateway(ifs, m) /\ n.hosts = HostsOf(ifs, m, GatewaysOf(ifs, m) \cup {NoNet})
    BY <1>5 DEF WholeNet
  <2>3. IsFiniteSet(n.hosts)
    BY <2>2, HostsFinite
  <2>4. \A h \in n.hosts : \E i \in Members(ifs) : ifs[i].host = h /\ ifs[i].net = m
    BY <2>2, HostMember
  <2> QED
    BY <1>2, <1>3, <1>5, <2>2, <2>3, <2>4, TwoMembers
<1> QED
  BY <1>1, <1>4, <1>5

(* Finitely many subnets are drawn. *)
LEMMA SurvivingFinite ==
    ASSUME NEW R, NEW ifs \in Seq(R)
    PROVE  IsFiniteSet(Surviving(ifs))
<1> DEFINE M == Members(ifs)
           fn == [i \in M |-> WholeNet(ifs, ifs[i].net)]
           W == {fn[i] : i \in M}
           P == [i \in M |-> SplitNet(ifs, ifs[i].net, ifs[i].gateway)]
           S == {P[i] : i \in M}
<1>1. IsFiniteSet(M)
  BY MembersFinite
<1>2. IsFiniteSet(W) /\ IsFiniteSet(S)
  <2>1. DOMAIN fn = M /\ DOMAIN P = M
    OBVIOUS
  <2> HIDE DEF fn, P, M
  <2> QED
    BY <1>1, <2>1, FiniteImage
<1>3. Surviving(ifs) \subseteq W \cup S
  <2> SUFFICES ASSUME NEW n \in Surviving(ifs) PROVE n \in W \cup S
    OBVIOUS
  <2>1. PICK m \in {ifs[i].net : i \in Members(ifs)} :
           \/ \E g \in GatewaysOf(ifs, m) : n = SplitNet(ifs, m, g)
           \/ n = WholeNet(ifs, m)
    BY SurvivingIs
  <2>2. CASE \E g \in GatewaysOf(ifs, m) : n = SplitNet(ifs, m, g)
    <3>1. PICK g \in GatewaysOf(ifs, m) : n = SplitNet(ifs, m, g)
      BY <2>2
    <3>2. PICK i \in M : ifs[i].net = m /\ ifs[i].gateway = g
      BY DEF GatewaysOf
    <3>3. n = P[i]
      BY <3>1, <3>2
    <3> QED
      BY <3>3
  <2>3. CASE n = WholeNet(ifs, m)
    <3>1. PICK i \in M : ifs[i].net = m
      BY <2>1
    <3>2. n = fn[i]
      BY <2>3, <3>1
    <3> QED
      BY <3>2
  <2> QED
    BY <2>1, <2>2, <2>3
<1> HIDE DEF W, S
<1>4. IsFiniteSet(W \cup S)
  BY <1>2, FS_Union
<1> QED
  BY <1>3, <1>4, FS_Subset

-----------------------------------------------------------------------------
(* The page *)

(* The fields of build_network_topology, in terms of the drawn subnets. *)
LEMMA TopologyFields ==
    ASSUME NEW ifs, NEW servers
    PROVE  LET t == build_network_topology(ifs, servers)
           IN  /\ t.host_nodes = UNION {n.hosts : n \in Surviving(ifs)}
               /\ t.subnet_nodes = Surviving(ifs)
               /\ t.members = UNION {{<<h, n>> : h \in n.hosts} : n \in Surviving(ifs)}
               /\ t.routes = {<<n.gateway, n>> : n \in {n \in Surviving(ifs) : n.gateway \in SharedGateways(ifs)}}
               /\ t.isolated_count = Cardinality(servers) - Cardinality(UNION {n.hosts : n \in Surviving(ifs)})
BY DEF build_network_topology

\* A server is drawn exactly if it has a neighbour.
LEMMA DrawnHosts ==
    ASSUME NEW R, NEW ifs \in Seq(R), NEW servers, \A r \in R : r.host \in servers, NEW h
    PROVE  (\E n \in Surviving(ifs) : h \in n.hosts) <=>
              \E k \in servers \ {h}, net \in {ifs[i].net : i \in DOMAIN ifs} \ {NoNet} : Neighbours(ifs, h, k, net)
<1>1. ASSUME NEW n \in Surviving(ifs), h \in n.hosts
      PROVE  \E k \in servers \ {h}, net \in {ifs[i].net : i \in DOMAIN ifs} \ {NoNet} : Neighbours(ifs, h, k, net)
  <2>1. PICK k \in n.hosts : k # h
    BY NetFacts
  <2>2. PICK j \in Members(ifs) : ifs[j].host = k /\ ifs[j].net = n.net
    BY NetFacts
  <2>3. k \in servers
    BY <2>2, MembersFinite
  <2>4. j \in DOMAIN ifs /\ n.net # NoNet
    BY NetFacts DEF Members
  <2>5. Neighbours(ifs, h, k, n.net)
    BY <1>1, <2>1, DrawnTogether
  <2> QED
    BY <2>1, <2>2, <2>3, <2>4, <2>5
<1>2. ASSUME NEW k \in servers \ {h}, NEW net, Neighbours(ifs, h, k, net)
      PROVE  \E n \in Surviving(ifs) : h \in n.hosts
  BY <1>2, DrawnTogether
<1> QED
  BY <1>1, <1>2

\* A server that names a gateway is only in networks behind that gateway.
LEMMA BehindGateway ==
    ASSUME NEW R, NEW ifs \in Seq(R), NEW i \in Members(ifs), ifs[i].gateway # NoNet,
           NEW n \in Surviving(ifs), n.net = ifs[i].net, ifs[i].host \in n.hosts
    PROVE  n.gateway = ifs[i].gateway
<1>1. ifs[i].gateway \in GatewaysOf(ifs, n.net)
  BY GatewayMember
<1>2. CASE Ambiguous(ifs, n.net)
  <2>1. PICK j \in Members(ifs) : ifs[j].host = ifs[i].host /\ ifs[j].net = n.net /\ ifs[j].gateway = n.gateway
    BY <1>2, NetFacts
  <2>2. i = j
    BY <2>1, MembersFinite
  <2> QED
    BY <2>1, <2>2
<1>3. CASE ~Ambiguous(ifs, n.net)
  <2>1. \A g \in GatewaysOf(ifs, n.net) : g = ifs[i].gateway
    BY <1>1, <1>3, AmbiguousIs
  <2>2. n.gateway = OnlyGateway(ifs, n.net)
    BY <1>3, NetFacts
  <2>3. OnlyGateway(ifs, n.net) \in GatewaysOf(ifs, n.net)
    BY <1>1 DEF OnlyGateway
  <2> QED
    BY <2>1, <2>2, <2>3
<1> QED
  BY <1>2, <1>3

\* The servers that are not drawn are counted.
LEMMA IsolatedCounted ==
    ASSUME NEW R, NEW ifs \in Seq(R), NEW servers, \A r \in R : r.host \in servers, IsFiniteSet(servers)
    PROVE  LET t == build_network_topology(ifs, servers)
           IN  t.isolated_count = Cardinality({h \in servers : \A e \in t.members : e[1] # h})
<1> DEFINE drawn == UNION {n.hosts : n \in Surviving(ifs)}
<1>1. PICK t : t = build_network_topology(ifs, servers)
  OBVIOUS
<1>2. /\ t.members = UNION {{<<h, n>> : h \in n.hosts} : n \in Surviving(ifs)}
      /\ t.isolated_count = Cardinality(servers) - Cardinality(drawn)
  BY <1>1, TopologyFields
<1>3. drawn \subseteq servers
  <2> SUFFICES ASSUME NEW n \in Surviving(ifs), NEW h \in n.hosts PROVE h \in servers
    OBVIOUS
  <2>1. PICK i \in Members(ifs) : ifs[i].host = h
    BY NetFacts
  <2> QED
    BY <2>1, MembersFinite
<1>4. {h \in servers : \A e \in t.members : e[1] # h} = servers \ drawn
  <2>1. \A h : (\E e \in t.members : e[1] = h) <=> h \in drawn
    <3>1. ASSUME NEW e \in t.members PROVE e[1] \in drawn
      <4>1. PICK n \in Surviving(ifs) : e \in {<<h, n>> : h \in n.hosts}
        BY <1>2
      <4>2. PICK h \in n.hosts : e = <<h, n>>
        BY <4>1
      <4> QED
        BY <4>2
    <3>2. ASSUME NEW n \in Surviving(ifs), NEW h \in n.hosts PROVE \E e \in t.members : e[1] = h
      <4>1. <<h, n>> \in t.members
        BY <1>2
      <4> QED
        BY <4>1
    <3> QED
      BY <3>1, <3>2
  <2> HIDE DEF drawn
  <2> QED
    BY <2>1
<1> HIDE DEF drawn
<1>5. Cardinality(servers \ drawn) = Cardinality(servers) - Cardinality(drawn)
  <2>1. servers \cap drawn = drawn
    BY <1>3
  <2> QED
    BY <2>1, FS_Difference
<1> QED
  BY <1>1, <1>2, <1>4, <1>5

\* A gateway that is drawn routes between at least two networks.
LEMMA RoutesAreShared ==
    ASSUME NEW R, NEW ifs \in Seq(R), NEW servers,
           NEW e \in build_network_topology(ifs, servers).routes
    PROVE  Cardinality({f \in build_network_topology(ifs, servers).routes : f[1] = e[1]}) >= 2
<1>1. PICK routes : routes = build_network_topology(ifs, servers).routes
  OBVIOUS
<1> DEFINE S == {n \in Surviving(ifs) : n.gateway \in SharedGateways(ifs)}
           mk == [n \in S |-> <<n.gateway, n>>]
<1>2. routes = {mk[n] : n \in S}
  <2>1. routes = {<<n.gateway, n>> : n \in S}
    BY <1>1, TopologyFields
  <2>2. \A n \in S : mk[n] = <<n.gateway, n>>
    OBVIOUS
  <2> HIDE DEF S, mk
  <2> QED
    BY <2>1, <2>2
<1>3. IsFiniteSet(routes)
  <2>1. S \in SUBSET Surviving(ifs)
    OBVIOUS
  <2>2. IsFiniteSet(S) /\ DOMAIN mk = S
    BY <2>1, SurvivingFinite, FS_Subset
  <2> HIDE DEF S, mk
  <2> QED
    BY <1>2, <2>2, FiniteImage
<1>4. PICK n \in S : e = <<n.gateway, n>>
  BY <1>1, <1>2
<1>5. PICK g : g = n.gateway
  OBVIOUS
<1>6. g \in SharedGateways(ifs) /\ e[1] = g
  BY <1>4, <1>5
<1>7. \E x, y \in {m \in Surviving(ifs) : m.gateway = g} : x # y
  <2>1. Cardinality({m \in Surviving(ifs) : m.gateway = g}) >= 2
    BY <1>6 DEF SharedGateways
  <2>2. {m \in Surviving(ifs) : m.gateway = g} \in SUBSET Surviving(ifs)
    OBVIOUS
  <2>3. IsFiniteSet({m \in Surviving(ifs) : m.gateway = g})
    BY <2>2, SurvivingFinite, FS_Subset
  <2> QED
    BY <2>1, <2>3, TwoMembers
<1>8. PICK x, y \in Surviving(ifs) : x # y /\ x.gateway = g /\ y.gateway = g
  BY <1>7
<1>9. x \in S /\ y \in S
  BY <1>6, <1>8
<1>10. <<g, x>> \in routes /\ <<g, y>> \in routes
  <2>1. mk[x] = <<g, x>> /\ mk[y] = <<g, y>>
    BY <1>8, <1>9
  <2> HIDE DEF S, mk
  <2> QED
    BY <1>2, <1>9, <2>1
<1>11. PICK F : F = {f \in routes : f[1] = e[1]}
  OBVIOUS
<1>12. <<g, x>> \in F /\ <<g, y>> \in F /\ <<g, x>> # <<g, y>>
  BY <1>6, <1>8, <1>10, <1>11
<1>13. IsFiniteSet(F)
  <2>1. F \in SUBSET routes
    BY <1>11
  <2> QED
    BY <1>3, <2>1, FS_Subset
<1>14. Cardinality(F) >= 2
  BY <1>12, <1>13, TwoMembers
<1> QED
  BY <1>1, <1>11, <1>14

(* The network page is right for any finite inventory. *)
LEMMA TopologyIsRight ==
    ASSUME NEW R, NEW ifs \in Seq(R), NEW servers, \A r \in R : r.host \in servers, IsFiniteSet(servers)
    PROVE  TopologyFits(ifs, servers)
<1> DEFINE nets == {ifs[i].net : i \in DOMAIN ifs} \ {NoNet}
<1>1. PICK t : t = build_network_topology(ifs, servers)
  OBVIOUS
<1>2. t.subnet_nodes = Surviving(ifs) /\ t.host_nodes = UNION {n.hosts : n \in Surviving(ifs)}
  BY <1>1, TopologyFields
<1>3. \A h, k \in servers : h # k =>
         \A net \in nets :
            Neighbours(ifs, h, k, net) <=> \E n \in t.subnet_nodes : n.net = net /\ {h, k} \subseteq n.hosts
  <2> TAKE h, k \in servers
  <2> SUFFICES ASSUME h # k, NEW net \in nets
               PROVE  Neighbours(ifs, h, k, net) <=> \E n \in t.subnet_nodes : n.net = net /\ {h, k} \subseteq n.hosts
    OBVIOUS
  <2> HIDE DEF nets
  <2>1. Neighbours(ifs, h, k, net) <=> \E n \in Surviving(ifs) : n.net = net /\ {h, k} \subseteq n.hosts
    <3>1. ASSUME Neighbours(ifs, h, k, net)
          PROVE  \E n \in Surviving(ifs) : n.net = net /\ {h, k} \subseteq n.hosts
      <4>1. PICK n \in Surviving(ifs) : n.net = net /\ h \in n.hosts /\ k \in n.hosts
        BY <3>1, DrawnTogether
      <4> QED
        BY <4>1
    <3>2. ASSUME NEW n \in Surviving(ifs), n.net = net, {h, k} \subseteq n.hosts
          PROVE  Neighbours(ifs, h, k, net)
      BY <3>2, DrawnTogether
    <3>3. Neighbours(ifs, h, k, net) \in BOOLEAN
      BY DEF Neighbours
    <3> QED
      BY <3>1, <3>2, <3>3
  <2> QED
    BY <1>2, <2>1
<1>4. \A h \in servers : h \in t.host_nodes <=> \E k \in servers \ {h}, net \in nets : Neighbours(ifs, h, k, net)
  <2> TAKE h \in servers
  <2>1. h \in t.host_nodes <=> \E n \in Surviving(ifs) : h \in n.hosts
    BY <1>2
  <2>2. (\E n \in Surviving(ifs) : h \in n.hosts) <=>
           \E k \in servers \ {h}, net \in {ifs[i].net : i \in DOMAIN ifs} \ {NoNet} : Neighbours(ifs, h, k, net)
    BY DrawnHosts
  <2> QED
    BY <2>1, <2>2
<1>5. \A i \in Members(ifs) : ifs[i].gateway # NoNet =>
         \A n \in t.subnet_nodes : n.net = ifs[i].net /\ ifs[i].host \in n.hosts => n.gateway = ifs[i].gateway
  BY <1>2, BehindGateway
<1>6. t.isolated_count = Cardinality({h \in servers : \A e \in t.members : e[1] # h})
  BY <1>1, IsolatedCounted
<1>7. \A e \in t.routes : Cardinality({f \in t.routes : f[1] = e[1]}) >= 2
  <2> TAKE e \in t.routes
  <2>1. e \in build_network_topology(ifs, servers).routes
    BY <1>1
  <2>2. Cardinality({f \in build_network_topology(ifs, servers).routes : f[1] = e[1]}) >= 2
    BY <2>1, RoutesAreShared
  <2> QED
    BY <1>1, <2>2
<1> QED
  BY <1>1, <1>3, <1>4, <1>5, <1>6, <1>7 DEF TopologyFits

-----------------------------------------------------------------------------
(* A server that is added *)

(* A member stays one when interfaces are added. *)
LEMMA MembersGrow ==
    ASSUME NEW R, NEW a \in Seq(R), NEW b \in Seq(R), Len(b) <= Len(a), \A i \in 1..Len(b) : b[i] = a[i]
    PROVE  Members(b) \subseteq Members(a) /\ \A i \in Members(b) : b[i] = a[i]
<1>1. Len(a) \in Nat /\ Len(b) \in Nat /\ DOMAIN a = 1..Len(a) /\ DOMAIN b = 1..Len(b)
  OBVIOUS
<1> SUFFICES ASSUME NEW i \in Members(b) PROVE i \in Members(a) /\ b[i] = a[i]
  OBVIOUS
<1>2. i \in 1..Len(b) /\ i \in 1..Len(a)
  BY <1>1 DEF Members
<1>3. Usable(b, i) /\ \A j \in 1..(i - 1) : Usable(b, j) => b[j].host # b[i].host \/ b[j].net # b[i].net
  BY DEF Members
<1>4. \A j \in 1..(i - 1) : b[j] = a[j]
  BY <1>1, <1>2
<1>5. b[i] = a[i]
  BY <1>2
<1>6. Usable(a, i) /\ \A j \in 1..(i - 1) : Usable(a, j) => a[j].host # a[i].host \/ a[j].net # a[i].net
  BY <1>3, <1>4, <1>5 DEF Usable
<1> QED
  BY <1>1, <1>2, <1>5, <1>6 DEF Members

(* An added interface hides a server only by splitting a subnet. *)
LEMMA HiddenByGateway ==
    ASSUME NEW R, NEW a \in Seq(R), NEW b \in Seq(R), Len(b) <= Len(a), \A i \in 1..Len(b) : b[i] = a[i],
           NEW servers
    PROVE  AddingHidesOnlyByGateway(b, a, servers)
<1>0. Members(b) \subseteq Members(a) /\ \A i \in Members(b) : b[i] = a[i]
  BY MembersGrow
<1> SUFFICES ASSUME NEW h \in build_network_topology(b, servers).host_nodes,
                    \A i \in Members(b) : b[i].host = h /\ ~Ambiguous(b, b[i].net) => ~Ambiguous(a, b[i].net)
             PROVE  h \in build_network_topology(a, servers).host_nodes
  BY DEF AddingHidesOnlyByGateway
<1>1. PICK n \in Surviving(b) : h \in n.hosts
  <2>1. build_network_topology(b, servers).host_nodes = UNION {n.hosts : n \in Surviving(b)}
    BY TopologyFields
  <2> QED
    BY <2>1
<1>2. PICK k \in n.hosts : k # h
  BY NetFacts
<1>3. PICK net : net = n.net
  OBVIOUS
<1>4. Neighbours(b, h, k, net)
  BY <1>1, <1>2, <1>3, DrawnTogether
<1>5. PICK i, j \in Members(b) :
         /\ b[i].host = h /\ b[j].host = k /\ b[i].net = net /\ b[j].net = net
         /\ \/ b[i].gateway = b[j].gateway /\ b[i].gateway # NoNet
            \/ \A g1, g2 \in GatewaysOf(b, net) : g1 = g2
  BY <1>4 DEF Neighbours
<1>6. i \in Members(a) /\ j \in Members(a) /\ a[i] = b[i] /\ a[j] = b[j]
  BY <1>0
<1>7. \/ a[i].gateway = a[j].gateway /\ a[i].gateway # NoNet
      \/ \A g1, g2 \in GatewaysOf(a, net) : g1 = g2
  <2>1. CASE \A g1, g2 \in GatewaysOf(b, net) : g1 = g2
    <3>1. ~Ambiguous(b, net)
      BY <2>1, AmbiguousIs
    <3>2. ~Ambiguous(a, net)
      BY <1>5, <3>1
    <3> QED
      BY <3>2, AmbiguousIs
  <2> QED
    BY <1>5, <1>6, <2>1
<1>8. Neighbours(a, h, k, net)
  BY <1>5, <1>6, <1>7 DEF Neighbours
<1>9. PICK m \in Surviving(a) : {h, k} \subseteq m.hosts
  BY <1>2, <1>8, DrawnTogether
<1>10. build_network_topology(a, servers).host_nodes = UNION {q.hosts : q \in Surviving(a)}
  BY TopologyFields
<1> QED
  BY <1>9, <1>10

-----------------------------------------------------------------------------
(* Theorems *)

\* What has been collected is of the part of the inventory that is looked at.
Collected == part \in DOMAIN RowsOf /\ rows \in Seq(RowsOf[part])

(* Whatever has been collected is a sequence of the agents' rows. *)
THEOREM RowsAreCollected == Spec => []Collected
<1>1. Init => Collected
  BY DEF Init, Collected
<1>2. Collected /\ [Next]_vars => Collected'
  BY DEF Collected, Next, Collect, NextDay, vars
<1> QED
  BY <1>1, <1>2, PTL DEF Spec

\* The network page puts servers together exactly where their addresses say so,
\* counts the others, and a server that is added hides another one only by
\* bringing a second gateway into its subnet, for any inventory.
THEOREM TopologyHangs == Spec => []TopologyHangsTogether
<1>1. Collected => TopologyHangsTogether
  <2> SUFFICES ASSUME Collected, part = "network" PROVE TopologyHangsTogether
    BY DEF TopologyHangsTogether
  <2>1. rows \in Seq(NetworkRows)
    BY DEF Collected, RowsOf
  <2>2. \A r \in NetworkRows : r.host \in Servers
    BY DEF Servers
  <2>3. IsFiniteSet(Servers)
    <3> DEFINE f == [r \in NetworkRows |-> r.host]
    <3>1. DOMAIN f = NetworkRows /\ Servers = {f[r] : r \in NetworkRows}
      BY DEF Servers
    <3> HIDE DEF f
    <3> QED
      BY <3>1, NetworkAssumption, FiniteImage
  <2>4. TopologyFits(rows, Servers)
    BY <2>1, <2>2, <2>3, TopologyIsRight
  <2>5. ASSUME rows # <<>> PROVE AddingHidesOnlyByGateway(Front(rows), rows, Servers)
    <3>1. Len(rows) \in Nat /\ Len(rows) > 0
      BY <2>1, <2>5
    <3>2. /\ Front(rows) \in Seq(NetworkRows) /\ Len(Front(rows)) = Len(rows) - 1
          /\ \A i \in 1..(Len(rows) - 1) : Front(rows)[i] = rows[i]
      <4>1. PICK n \in Nat : n = Len(rows) - 1
        BY <3>1
      <4>2. Front(rows) = SubSeq(rows, 1, n)
        BY <4>1 DEF Front
      <4>3. SubSeq(rows, 1, n) = [i \in 1..n |-> rows[i]]
        BY <2>1, <3>1, <4>1
      <4>4. \A i \in 1..n : rows[i] \in NetworkRows
        BY <2>1, <3>1, <4>1
      <4>5. [i \in 1..n |-> rows[i]] \in Seq(NetworkRows) /\ Len([i \in 1..n |-> rows[i]]) = n
        BY <4>1, <4>4
      <4> QED
        BY <4>1, <4>2, <4>3, <4>5
    <3> QED
      BY <2>1, <3>1, <3>2, HiddenByGateway
  <2> QED
    BY <2>4, <2>5 DEF TopologyHangsTogether
<1> QED
  BY <1>1, RowsAreCollected, PTL
=============================================================================
