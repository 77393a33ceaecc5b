----------------------------- MODULE ServiceCatalog -----------------------------
(***************************************************************************)
(* Which workloads a server runs, told from its service units and from the *)
(* sockets it listens on.  The consumer stores the categories with the     *)
(* inventory (the server list and its filter read them), the server page   *)
(* and the reports classify again when they are shown.                     *)
(*                                                                         *)
(* A text is the set of the fragments it contains, so that "a in b" is     *)
(* inclusion; a unit name has lost its case and its .service.  A service   *)
(* is [unit, pid], a socket is [port, proto, pid, comm].                   *)
(***************************************************************************)
EXTENDS Integers, Sequences, FiniteSets, SequencesExt, FiniteSetsExt

CONSTANTS
    NoPid,              \* no pid was collected
    SERVICE_CATALOG,    \* sequence of [key, keywords, ports : name -> set of ports, single]
    SIGNATURE_CATEGORIES,
    BaselineKeywords,
    BaselinePorts,
    DYNAMIC_PORT_MIN

Systemd == {"systemd"}

\* The first category of those that fit, if any; `fit` are places in the catalogue.
FirstCategory(fit) == IF fit = {} THEN "unknown" ELSE SERVICE_CATALOG[Min(fit)].key

_match_keyword(text) ==
    FirstCategory({k \in DOMAIN SERVICE_CATALOG : SERVICE_CATALOG[k].keywords \cap text # {}})

_PORT_INDEX(port) ==
    FirstCategory({k \in DOMAIN SERVICE_CATALOG :
                      \E name \in DOMAIN SERVICE_CATALOG[k].ports : port \in SERVICE_CATALOG[k].ports[name]})

_NAME_PORTS(name) ==
    UNION {d.ports[name] : d \in {d \in Range(SERVICE_CATALOG) : name \in DOMAIN d.ports}}

SINGLE_INSTANCE_CATEGORIES == {d.key : d \in {d \in Range(SERVICE_CATALOG) : d.single}}

Endpoint(p) == <<p.port, p.proto>>

\* The sockets by port and protocol; equal ones stay in the agent's order.
Sorted(ports) ==
    LET Before(i, j) == \/ ports[i].port < ports[j].port
                        \/ ports[i].port = ports[j].port /\ ports[i].proto < ports[j].proto
                        \/ Endpoint(ports[i]) = Endpoint(ports[j]) /\ i < j
        order == SetToSortSeq(DOMAIN ports, Before)
    IN  [k \in DOMAIN ports |-> ports[order[k]]]

\* The first socket of each endpoint in a sequence of sockets.
FirstPerEndpoint(s) ==
    LET first == {k \in DOMAIN s : \A j \in 1..(k - 1) : Endpoint(s[j]) # Endpoint(s[k])}
    IN  [n \in 1..Cardinality(first) |-> s[SetToSortSeq(first, <)[n]]]

-----------------------------------------------------------------------------
(* Units *)

\* The sockets of a unit: those of its pid; without a pid those whose process has
\* a similar name, or that have the port the name is known for.
_attributed_ports(unit, ports, pid) ==
    LET Similar(p) == p.comm # {} /\ p.comm # Systemd /\ (unit \subseteq p.comm \/ p.comm \subseteq unit)
        Own(p) == IF pid # NoPid THEN p.pid = pid ELSE Similar(p) \/ p.port \in _NAME_PORTS(unit)
    IN  FirstPerEndpoint(SelectSeq(Sorted(ports), Own))

\* The name of a unit says most, then the processes of its sockets, then the ports.
Signals(unit, own) == <<_match_keyword(unit)>> \o [k \in DOMAIN own |-> _match_keyword(own[k].comm)]
                                              \o [k \in DOMAIN own |-> _PORT_INDEX(own[k].port)]

FirstKnown(signals) ==
    LET known == {k \in DOMAIN signals : signals[k] # "unknown"}
    IN  IF known = {} THEN "unknown" ELSE signals[Min(known)]

classify(unit, ports, pid) == FirstKnown(Signals(unit, _attributed_ports(unit, ports, pid)))

\* The endpoints shown with a unit: those it owns, and of those nobody owns the ones
\* of its category, which is told without its pid.
matched_ports(unit, ports, pid) ==
    LET cat == classify(unit, ports, NoPid)
        Matches(p) == \/ p.pid # NoPid /\ p.pid = pid
                      \/ p.pid = NoPid /\ cat # "unknown" /\ _PORT_INDEX(p.port) = cat
    IN  {Endpoint(p) : p \in {p \in Range(ports) : Matches(p)}}

-----------------------------------------------------------------------------
(* Sockets *)

SocketCategory(p) == LET cat == _match_keyword(p.comm) IN IF cat = "unknown" THEN _PORT_INDEX(p.port) ELSE cat

\* Category -> endpoints, each under the first socket that tells something.
ByCategory(told) ==
    [c \in {SocketCategory(p) : p \in told} |-> {Endpoint(p) : p \in {p \in told : SocketCategory(p) = c}}]

detect_listen_categories(ports) ==
    ByCategory(Range(FirstPerEndpoint(SelectSeq(Sorted(ports), LAMBDA p : SocketCategory(p) # "unknown"))))

is_baseline_service(text) == BaselineKeywords \cap text # {}

is_baseline_socket(p) == is_baseline_service(p.comm) \/ p.port \in BaselinePorts

NonBaseline(ports) == SelectSeq(ports, LAMBDA p : ~is_baseline_socket(p))

-----------------------------------------------------------------------------
(* What is stored, counted and broken down *)

\* The units that say something of the server, with their categories.
UnitCategory(services, ports, i) ==
    IF is_baseline_service(services[i].unit) THEN "unknown"
    ELSE classify(services[i].unit, ports, services[i].pid)

UnitsOf(services, ports, cat) == {i \in DOMAIN services : UnitCategory(services, ports, i) = cat}

UnitCategories(services, ports) == {UnitCategory(services, ports, i) : i \in DOMAIN services} \ {"unknown"}

\* Mutant: the sockets of the operating system count too.
CategoriesOfAllSockets(services, ports) ==
    UnitCategories(services, ports) \cup DOMAIN detect_listen_categories(ports)

compute_service_categories(services, ports) ==
    UnitCategories(services, ports) \cup DOMAIN detect_listen_categories(NonBaseline(ports))

workload_category_counter(services, ports) ==
    LET named == UnitCategories(services, ports)
        heard == DOMAIN detect_listen_categories(NonBaseline(ports))
    IN  [c \in named \cup heard |->
            IF c \in named /\ c \notin SINGLE_INSTANCE_CATEGORIES
            THEN Cardinality(UnitsOf(services, ports, c)) ELSE 1]

\* Category -> the units (their indices stand for their names).
workload_services_by_category(services, ports) ==
    [c \in UnitCategories(services, ports) |-> UnitsOf(services, ports, c)]

\* The role of a server is its most frequent category, the first one met when
\* several are.
infer_role(services, ports) ==
    LET counter == workload_category_counter(services, ports)
        most == {c \in DOMAIN counter : \A d \in DOMAIN counter : counter[d] <= counter[c]}
        met == SelectInSeq(services, LAMBDA s : classify(s.unit, ports, s.pid) \in most /\ ~is_baseline_service(s.unit))
        heard == SelectInSeq(Sorted(NonBaseline(ports)), LAMBDA p : SocketCategory(p) \in most)
    IN  CASE DOMAIN counter = {} -> "unknown"
          [] DOMAIN counter # {} /\ met # 0 -> classify(services[met].unit, ports, services[met].pid)
          [] OTHER -> SocketCategory(Sorted(NonBaseline(ports))[heard])

-----------------------------------------------------------------------------
(* The server page *)

\* One badge per category: those of the units in the units' order, then those that
\* only sockets tell of.
BadgeOrder(cat, listen) ==
    LET units == {i \in DOMAIN cat : cat[i] # "unknown"}
        firsts == {i \in units : \A j \in units : cat[j] = cat[i] => i <= j}
        heard == DOMAIN listen \ Range(cat)
        Earlier(c, d) == \E p \in listen[c] : \A q \in listen[d] :
                             p[1] < q[1] \/ (p[1] = q[1] /\ p[2] < q[2])
    IN  [k \in 1..Cardinality(firsts) |-> cat[SetToSortSeq(firsts, <)[k]]] \o SetToSortSeq(heard, Earlier)

\* The endpoints a badge wants, and those it gets: a chip goes to the first badge.
\* In the end the badges are sorted by category, so that they are a set here.
Wanted(services, ports, cat, listen) ==
    [c \in Range(cat) \cup DOMAIN listen |->
        UNION {matched_ports(services[i].unit, ports, services[i].pid) : i \in {i \in DOMAIN cat : cat[i] = c}}
        \cup UNION {listen[d] : d \in DOMAIN listen \cap {c}}]

Badges(order, wanted) ==
    {[category |-> order[k], ports |-> wanted[order[k]] \ UNION {wanted[order[j]] : j \in 1..(k - 1)}] :
        k \in DOMAIN order}

\* A port is shown once, whatever its protocol.
Page(services, ports, known) ==
    LET shown == {e[1] : e \in UNION {badge.ports : badge \in known}}
    IN  [known |-> known, unknown |-> services # <<>> /\ known = {},
         key_ports |-> {p \in Range(ports) : p.port < DYNAMIC_PORT_MIN /\ p.port \notin shown}]

enrich_server_detail(services, ports) ==
    LET cat == [i \in DOMAIN services |-> classify(services[i].unit, ports, services[i].pid)]
        listen == detect_listen_categories(ports)
    IN  Page(services, ports, Badges(BadgeOrder(cat, listen), Wanted(services, ports, cat, listen)))

-----------------------------------------------------------------------------
(* The service section of the environment report *)

\* Per signature category: the servers that have it, and lines of [name, count].
\* hosts is a sequence of [services, ports]; a unit's text is its name.
_aggregate_service_catalog(hosts) ==
    LET Has(c) == {h \in DOMAIN hosts : c \in DOMAIN workload_category_counter(hosts[h].services, hosts[h].ports)}
        Units(h, c) == UnitsOf(hosts[h].services, hosts[h].ports, c)
        named(c) == {h \in DOMAIN hosts : Units(h, c) # {}}
        Runs(n, h, c) == Cardinality({i \in Units(h, c) : hosts[h].services[i].unit = n})
        names(c) == UNION {{hosts[h].services[i].unit : i \in Units(h, c)} : h \in DOMAIN hosts}
        Lines(c) == IF c \in SINGLE_INSTANCE_CATEGORIES
                    THEN IF named(c) = {} THEN {} ELSE {[name |-> UNION names(c), count |-> Cardinality(named(c))]}
                    ELSE {[name |-> n, count |-> MapThenSumSet(LAMBDA h : Runs(n, h, c), DOMAIN hosts)] : n \in names(c)}
        only(c) == Has(c) \ named(c)
    IN  [c \in SIGNATURE_CATEGORIES |->
            [total |-> Cardinality(Has(c)),
             lines |-> Lines(c) \cup IF only(c) = {} THEN {} ELSE {[name |-> {}, count |-> Cardinality(only(c))]}]]

-----------------------------------------------------------------------------
(* What the screens promise each other *)

\* The server page shows all stored categories: it adds only what baseline units and
\* sockets tell, and lacks a category only where a baseline socket has the same
\* endpoint as another one.  No endpoint is a chip twice, and none of a known port
\* is lost.
PageFits(services, ports, page, stored) ==
    LET shown == {badge.category : badge \in page.known}
        baseline == {classify(services[i].unit, ports, services[i].pid) :
                        i \in {i \in DOMAIN services : is_baseline_service(services[i].unit)}}
                    \cup {SocketCategory(p) : p \in {p \in Range(ports) : is_baseline_socket(p)}}
    IN  /\ shown \ stored \subseteq baseline
        /\ stored \ shown # {} =>
              \E p, q \in Range(ports) : Endpoint(p) = Endpoint(q) /\ is_baseline_socket(p) /\ ~is_baseline_socket(q)
        /\ \A a, b \in page.known : a # b => a.ports \cap b.ports = {} /\ a.category # b.category
        /\ \A p \in Range(ports) : p.port < DYNAMIC_PORT_MIN =>
              p \in page.key_ports \/ \E badge \in page.known : \E e \in badge.ports : e[1] = p.port

\* The stored categories are the ones counted and reported, and the page fits them.
\* Where a unit has no pid the endpoints nobody owns fit the category it is shown with.
WorkloadsFit(services, ports) ==
    LET stored == compute_service_categories(services, ports)
        counter == workload_category_counter(services, ports)
        names == workload_services_by_category(services, ports)
    IN  /\ DOMAIN counter = stored
        /\ \A c \in DOMAIN names \ SINGLE_INSTANCE_CATEGORIES : counter[c] = Cardinality(names[c])
        /\ PageFits(services, ports, enrich_server_detail(services, ports), stored)
        /\ infer_role(services, ports) \in stored \cup {"unknown"}
        /\ \A i \in DOMAIN services : \A p \in Range(ports) :
              /\ services[i].pid = NoPid /\ Endpoint(p) \in matched_ports(services[i].unit, ports, NoPid)
              => \E q \in Range(ports) : Endpoint(q) = Endpoint(p)
                    /\ _PORT_INDEX(q.port) = classify(services[i].unit, ports, NoPid)

\* A category's lines count each of its servers, once more for every further unit of
\* it the server runs; container runtimes are counted once per server.
CatalogAddsUp(hosts) ==
    LET catalog == _aggregate_service_catalog(hosts)
        Further(h, c) == LET n == Cardinality(UnitsOf(hosts[h].services, hosts[h].ports, c))
                         IN  IF n = 0 \/ c \in SINGLE_INSTANCE_CATEGORIES THEN 0 ELSE n - 1
    IN  \A c \in SIGNATURE_CATEGORIES :
            MapThenSumSet(LAMBDA l : l.count, catalog[c].lines)
              = catalog[c].total + MapThenSumSet(LAMBDA h : Further(h, c), DOMAIN hosts)
=============================================================================
