----------------------------- MODULE InventoryViews -----------------------------
(***************************************************************************)
(* What the web process shows of the inventory: the storage tree, the      *)
(* workloads, the network and the pages about all servers.  The agents'    *)
(* rows arrive one after the other, in any order; each page is a function  *)
(* of the rows that are there.  The pages read different parts of the      *)
(* inventory, so that a behaviour grows one part.                          *)
(***************************************************************************)
EXTENDS StorageTree, ServiceCatalog, NetworkTopology, FleetReports

CONSTANTS
    StorageRows,       \* block devices an agent may report
    ServiceRows,       \* service units and sockets
    NetworkRows,       \* interfaces of the servers
    FleetRows,         \* servers
    SelectionFilters,  \* filters of the assessment API
    MaxRows,           \* part -> number of rows
    MaxDay

ASSUME NetworkAssumption == IsFiniteSet(NetworkRows)

VARIABLES
    part,      \* the part of the inventory
    rows,      \* what has been collected of it
    today

vars == <<part, rows, today>>

RowsOf == [storage |-> StorageRows, services |-> ServiceRows, network |-> NetworkRows, fleet |-> FleetRows]

Init == part \in DOMAIN RowsOf /\ rows = <<>> /\ today = 0

\* An agent lists a device once; units, sockets, interfaces and servers may be alike.
\* Units and sockets are two lists, of which the units come first here.
Collect(r) ==
    /\ Len(rows) < MaxRows[part]
    /\ part = "storage" => r \notin Range(rows)
    /\ part = "services" /\ "unit" \in DOMAIN r => \A k \in DOMAIN rows : "unit" \in DOMAIN rows[k]
    /\ rows' = Append(rows, r)
    /\ UNCHANGED <<part, today>>

NextDay ==
    /\ part = "fleet" /\ today < MaxDay
    /\ today' = today + 1
    /\ UNCHANGED <<part, rows>>

Next == (\E r \in RowsOf[part] : Collect(r)) \/ NextDay

Spec == Init /\ [][Next]_vars

-----------------------------------------------------------------------------
(* Properties *)

\* The storage page shows every block device once, in its place, and nothing of a
\* disk is lost or counted twice (build_storage_tree); where an old agent leaves out
\* ids the disks at least are there.
TreeShowsDevices ==
    part = "storage" =>
        IF \E i \in DOMAIN rows : rows[i].id = None THEN TreeKeepsDisks(rows)
        ELSE TreeIsComplete(rows) /\ CardFits(rows)

Services == SelectSeq(rows, LAMBDA r : "unit" \in DOMAIN r)
Sockets == SelectSeq(rows, LAMBDA r : "port" \in DOMAIN r)

\* The stored categories of a server, its badges, its page and the report's service
\* section tell the same workloads (service_classifier, enrich_server_detail,
\* _aggregate_service_catalog), whatever units and sockets there are.
WorkloadsAgree ==
    part = "services" =>
        /\ WorkloadsFit(Services, Sockets)
        /\ \A k \in 0..Len(Services) :
              CatalogAddsUp(<<[services |-> SubSeq(Services, 1, k), ports |-> Sockets],
                              [services |-> SubSeq(Services, k + 1, Len(Services)), ports |-> <<>>]>>)

Servers == {r.host : r \in NetworkRows}

\* The network page puts servers together exactly where their addresses say so, and
\* a server that is added hides another one only by contradicting its gateway
\* (build_network_topology).
TopologyHangsTogether ==
    part = "network" =>
        /\ TopologyFits(rows, Servers)
        /\ rows # <<>> => AddingHidesOnlyByGateway(Front(rows), rows, Servers)

\* The list, the overview, the live page, the cards, the report and the API agree
\* about the servers, and where they cannot (shared names, more servers than a page
\* reads, servers without inventory, an earlier anchor, disk activity that the list and
\* the tables do not look at) they differ only for that reason.
FleetPagesAgree ==
    part = "fleet" =>
        /\ \A s \in Range(rows) : SupportFits(s, today)
        /\ LiveFits(rows)
        /\ \A redis \in BOOLEAN :
              /\ OverviewMatchesList(rows, today, redis)
              /\ ListIsComplete(rows, 2, [NoFilter EXCEPT !.online = TRUE], today, redis)
              /\ ListIsComplete(rows, 1, [NoFilter EXCEPT !.eol = "eol", !.os = "lts"], today, redis)
              /\ \A w \in Windows : FiguresFit(rows, w, today, redis) /\ ReportsAddUp(rows, w, today, redis)
              /\ \A f \in SelectionFilters : SelectionFits(rows, f, redis)
        /\ \A w \in Windows : AttentionFits(rows, w, today, 1)
=============================================================================
