------------------------------- MODULE FleetPages -------------------------------
(***************************************************************************)
(* The pages about all servers: the server list with its filters, the      *)
(* environment overview, the live page, the attention cards and the        *)
(* selection of the assessment API.  Each of them reads the same tables    *)
(* through another path.                                                   *)
(*                                                                         *)
(* servers is the sequence of the inventory rows by id.  A server has      *)
(*   name, addr      host name (names are shared), address                 *)
(*   os              the key of its entries in the support catalogue       *)
(*   counter         workload category -> instances                        *)
(*   flag, silent    its online key; the days its last inventory is older  *)
(*                   than the key lives (0 if it is not)                   *)
(*   age, cpu, mem, live   age of its last sample, its load, its signals   *)
(*   cores, ram      what it has                                           *)
(*   load            what its samples say of a window, a record with       *)
(*     class, sat    the verdict without the disks, the saturated axes     *)
(*     busy, awake   the disks were active, which rules out idleness; the  *)
(*                   verdict in its place                                  *)
(*     causes, swap, peak, p95   what the verdict rests on, the highest    *)
(*                   load and that of the CPU                              *)
(*     sampled       there are samples in the raw table                    *)
(*     restarts      agent restarts since an hour before its end           *)
(*     runway, mount days until the mount that decides is full, that mount *)
(* A window is a record of its length and of the days it ends before now;  *)
(* the report on it is anchored at its end.                                *)
(***************************************************************************)
EXTENDS Integers, Sequences, FiniteSets, SequencesExt, FiniteSetsExt

CONSTANTS
    Unset,            \* a date, a filter or a limit that is not given
    EolCatalog,       \* os -> [windows, releases: what fits it, in the catalogue's order]
    Windows,          \* DIAGNOSTIC_RANGE_DAYS with an anchor: [span, back]
    Standard,         \* the last WINDOW_DAYS
    SignatureSet,     \* SIGNATURE_CATEGORIES
    ListLimit,        \* the limit of list_server_ids
    UnderMax,         \* _UNDER_PROVISIONED_DISPLAY_MAX
    TtlOnline,        \* redis_ttl_online
    GapMinutes, GapRecent,
    RestartThreshold,
    RunwayDays

\* The catalogue's dates are in order.
ASSUME CatalogAssumption ==
    \A os \in DOMAIN EolCatalog : \A e \in Range(EolCatalog[os].releases) :
        /\ e.eol \in Nat
        /\ e.support # Unset => e.support \in Nat /\ e.support <= e.eol
        /\ e.extended # Unset => e.extended \in Nat /\ e.eol <= e.extended

\* The anchor of a page is now.
ASSUME WindowAssumption ==
    Standard \in Windows /\ Standard.back = 0 /\ \A w \in Windows : w.back \in Nat

Ids(servers) == DOMAIN servers

Count(servers, P(_)) == Cardinality({i \in Ids(servers) : P(servers[i])})

Least(a, b) == IF a <= b THEN a ELSE b

\* Some sequence of a set in the order of a key; ties fall by id.
OrderedBy(S, Before(_, _)) == SetToSortSeq(S, LAMBDA i, j : Before(i, j) \/ (~Before(j, i) /\ i < j))

-----------------------------------------------------------------------------
(* Support of the operating systems *)

_EOL_SEVERITY == <<"full", "security_only", "paid_only", "ended">>

Severity(status) == CHOOSE k \in DOMAIN _EOL_SEVERITY : _EOL_SEVERITY[k] = status

_classify_eol(e, today) ==
    CASE e.extended # Unset /\ e.extended <= today -> "ended"
      [] (e.extended = Unset \/ e.extended > today) /\ e.eol <= today ->
             IF e.extended # Unset THEN "paid_only" ELSE "ended"
      [] e.eol > today /\ e.support # Unset /\ e.support <= today -> "security_only"
      [] OTHER -> "full"

\* Mutant: the entry shown decides.
StatusOfRep(es, today) ==
    LET rep == CHOOSE e \in es : \A f \in es : e.eol <= f.eol IN _classify_eol(rep, today)

\* Several releases share a kernel build: the mildest of them counts.
StatusOf(es, today) ==
    _EOL_SEVERITY[Min({Severity(_classify_eol(e, today)) : e \in es})]

\* Of a Windows build all releases count, and the date shown is the latest end of
\* support; of another system the first entry that fits; nothing where nothing fits.
_eol_info(os, today) ==
    IF os \notin DOMAIN EolCatalog \/ EolCatalog[os].releases = <<>> THEN [status |-> "unknown", eol |-> Unset]
    ELSE LET all == EolCatalog[os].releases
             es == IF EolCatalog[os].windows THEN Range(all) ELSE {all[1]}
         IN  [status |-> StatusOf(es, today), eol |-> Max({e.eol : e \in es})]

FreePatchesEnded(status) == status \in {"paid_only", "ended"}

resolve_os_eol(os, today) == FreePatchesEnded(_eol_info(os, today).status)

os_eol_sort(status) ==
    CASE status = "ended" -> 4 [] status = "paid_only" -> 3 [] status = "security_only" -> 2
      [] status = "full" -> 0 [] OTHER -> 1

-----------------------------------------------------------------------------
(* The server list *)

\* The last inventory came after the anchor, or less than a key's life before it.
Seen(s, back) == s.silent # Unset /\ s.silent <= back

\* Without Redis the inventory's time decides.
_online_map(servers, redis, back) ==
    [i \in Ids(servers) |-> IF redis THEN servers[i].flag ELSE Seen(servers[i], back)]

\* The verdict on a window.  report_aggregate measures the disks' activity for all;
\* the overviews and the reports use it, and then a server with active disks is not
\* idle, while the list, the tables and the APIs pass none.
classify_host(s, w, disk) ==
    IF disk /\ s.load[w].class = "idle" /\ s.load[w].busy THEN s.load[w].awake ELSE s.load[w].class

to_server_list_item(servers, i, today, redis) ==
    [id |-> i, name |-> servers[i].name, online |-> _online_map(servers, redis, 0)[i],
     status |-> _eol_info(servers[i].os, today).status, class |-> classify_host(servers[i], Standard, FALSE),
     known |-> DOMAIN servers[i].counter \cap SignatureSet]

\* The orders in which the database may return the rows: by name only.
RowOrders(servers) ==
    {o \in [1..Len(servers) -> Ids(servers)] :
        /\ \A j, k \in DOMAIN o : j # k => o[j] # o[k]
        /\ \A j, k \in DOMAIN o : j < k => servers[o[j]].name <= servers[o[k]].name}

\* A page of rows, filtered after it was cut; those online come first.
list_servers(servers, order, page, limit, filter, today, redis) ==
    LET first == (page - 1) * limit + 1
        rows == {order[k] : k \in {k \in DOMAIN order : first <= k /\ k < first + limit}}
        Item(i) == to_server_list_item(servers, i, today, redis)
        Kept(i) == /\ filter.online = Unset \/ Item(i).online = filter.online
                   /\ filter.service = Unset \/ filter.service \in Item(i).known
                   /\ filter.os = Unset \/ servers[i].os = filter.os
                   /\ filter.class = Unset \/ Item(i).class = filter.class
                   /\ \/ filter.eol = Unset
                      \/ filter.eol = "unknown" /\ Item(i).status = "unknown"
                      \/ filter.eol = "eol" /\ FreePatchesEnded(Item(i).status)
                      \/ filter.eol = "supported" /\ Item(i).status \in {"full", "security_only"}
    IN  OrderedBy({i \in rows : Kept(i)},
                  LAMBDA i, j : \/ Item(i).online /\ ~Item(j).online
                                \/ Item(i).online = Item(j).online /\ servers[i].name < servers[j].name)

-----------------------------------------------------------------------------
(* The environment overview.  A scope is the set of servers a page is about. *)

\* list_server_ids: the rows by id, up to a limit.
Listed(servers) == {i \in Ids(servers) : i <= ListLimit}

Among(servers, scope, P(_)) == Cardinality({i \in scope : P(servers[i])})

Total(servers, scope, F(_)) == MapThenSumSet(LAMBDA i : F(servers[i]), scope)

_os_eol_summary(servers, scope, today) ==
    LET In(S) == Among(servers, scope, LAMBDA s : s.os # Unset /\ _eol_info(s.os, today).status \in S)
    IN  [passed |-> In({"paid_only", "ended"}), security_only |-> In({"security_only"}),
         unknown |-> In({"unknown"}), supported |-> In({"full"})]

\* The line of a table; its verdict never knows the disks' activity.  Its place rests
\* on swapping, then the number of causes, then the load; among the others the least
\* loaded come first.
to_capacity_warning_item(s, w) ==
    LET l == s.load[w]
        class == classify_host(s, w, FALSE)
    IN  [class |-> class,
         severity |-> IF class = "under_provisioned"
                      THEN (IF l.swap THEN 10000 ELSE 0) + 100 * Cardinality(l.causes) + l.peak
                      ELSE 100 - l.peak]

Severer(servers, w, i, j) ==
    LET x == to_capacity_warning_item(servers[i], w).severity
        y == to_capacity_warning_item(servers[j], w).severity
    IN  x > y \/ (x = y /\ servers[i].name < servers[j].name)

Axes == {"cpu", "mem", "disk_io", "net"}

CLASSIFICATION_ORDER == <<"under_provisioned", "over_provisioned", "idle", "optimal", "insufficient_data">>

ClassRank(class) == CHOOSE k \in DOMAIN CLASSIFICATION_ORDER : CLASSIFICATION_ORDER[k] = class

\* The distribution of the verdicts, what it sums to and the servers short of resources.
build_risk_donut_segments(risk) ==
    [segments |-> [c \in Range(CLASSIFICATION_ORDER) |-> IF c \in DOMAIN risk THEN risk[c] ELSE 0],
     total |-> MapThenSumSet(LAMBDA c : risk[c], DOMAIN risk),
     under |-> IF "under_provisioned" \in DOMAIN risk THEN risk["under_provisioned"] ELSE 0]

\* The card names the first few of the servers that are short of resources.
under_provisioned_hosts(servers, scope, w, full) ==
    LET all == OrderedBy({i \in scope : classify_host(servers[i], w, TRUE) = "under_provisioned"},
                         LAMBDA i, j : Severer(servers, w, i, j))
    IN  IF full THEN all ELSE SubSeq(all, 1, Least(UnderMax, Len(all)))

\* Instances of the signature workloads; servers without any workload are counted apart.
build_environment_overview(servers, scope, online, risk, under, sat, sat_total, today) ==
    [total |-> Cardinality(scope), online |-> online, offline |-> Cardinality(scope) - online,
     vcpus |-> Total(servers, scope, LAMBDA s : s.cores),
     risk |-> build_risk_donut_segments(risk),
     under |-> under,
     roles |-> [c \in SignatureSet |->
                   Total(servers, scope, LAMBDA s : IF c \in DOMAIN s.counter THEN s.counter[c] ELSE 0)],
     role_unknown |-> Among(servers, scope, LAMBDA s : DOMAIN s.counter = {}),
     saturated |-> sat, sat_total |-> sat_total,
     eol |-> _os_eol_summary(servers, scope, today)]

\* The denominator of the saturation donuts, the servers with samples among those
\* measured, is at least each numerator.  Systems are judged by the date of today.
assemble_overview(servers, scope, measured, w, today, redis) ==
    LET sat == [a \in Axes |-> Among(servers, scope, LAMBDA s : a \in s.load[w].sat)]
        sample == Among(servers, measured, LAMBDA s : s.load[w].sampled)
        Class(i) == classify_host(servers[i], w, TRUE)
        risk == [c \in {Class(i) : i \in scope} |-> Cardinality({i \in scope : Class(i) = c})]
    IN  build_environment_overview(servers, scope,
            Cardinality({i \in scope : _online_map(servers, redis, w.back)[i]}), risk,
            under_provisioned_hosts(servers, scope, w, FALSE),
            sat, Max({sample} \cup {sat[a] : a \in Axes}), today)

get_dashboard_overview(servers, today, redis) ==
    assemble_overview(servers, Listed(servers), Ids(servers), Standard, today, redis)

\* The bar at the top of every page.
get_fleet_status(servers, redis) ==
    [online |-> Cardinality({i \in Listed(servers) : _online_map(servers, redis, 0)[i]}),
     total |-> Cardinality(Listed(servers))]

\* The table of all servers, and what the over-sized and idle ones hold.
build_action_targets(servers, scope, w) ==
    LET Class(i) == to_capacity_warning_item(servers[i], w).class
        Rank(i) == ClassRank(Class(i))
        idle == {i \in scope : Class(i) \in {"over_provisioned", "idle"}}
    IN  [hosts |-> OrderedBy(scope, LAMBDA i, j : \/ Rank(i) < Rank(j)
                                                  \/ Rank(i) = Rank(j) /\ Severer(servers, w, i, j)),
         under_count |-> Cardinality({i \in scope : Class(i) = "under_provisioned"}),
         efficiency_count |-> Cardinality(idle),
         efficiency_vcpus |-> Total(servers, idle, LAMBDA s : s.cores)]

\* The page of the verdicts, for a window that is chosen.
get_environment_assessment(servers, w, today, redis) ==
    [overview |-> assemble_overview(servers, Listed(servers), Ids(servers), w, today, redis),
     action |-> build_action_targets(servers, Listed(servers), w)]

-----------------------------------------------------------------------------
(* The live page *)

Fresh(s) == s.age # Unset /\ s.age <= TtlOnline

\* The load is weighted with the cores, the memory is a share of all of it; a row per
\* server, with the cells whose signal is over its threshold.
build_environment_realtime(servers, total, fresh) ==
    LET loaded == {i \in fresh : servers[i].cpu # Unset /\ servers[i].cores # 0}
        cores == Total(servers, loaded, LAMBDA s : s.cores)
        sized == {i \in fresh : servers[i].mem # Unset /\ servers[i].ram # 0}
        ram == Total(servers, sized, LAMBDA s : s.ram)
    IN  [total |-> total, online |-> Cardinality(fresh), offline |-> total - Cardinality(fresh),
         cpu |-> IF cores = 0 THEN Unset ELSE Total(servers, loaded, LAMBDA s : s.cpu * s.cores) \div cores,
         mem |-> IF ram = 0 THEN Unset ELSE (100 * Total(servers, sized, LAMBDA s : s.mem)) \div ram,
         signals |-> [a \in Axes |-> Among(servers, fresh, LAMBDA s : a \in s.live)],
         rows |-> [i \in fresh |-> servers[i].live]]

_assemble_realtime(servers, scope) ==
    build_environment_realtime(servers, Cardinality(scope), {i \in scope : Fresh(servers[i])})

-----------------------------------------------------------------------------
(* The attention cards *)

\* A server that sent samples lately and has stopped; from the oldest, up to a limit.
metric_gap_warnings(servers, limit) ==
    LET gaps == {i \in Ids(servers) : servers[i].age # Unset /\ servers[i].age > GapMinutes /\ servers[i].age < GapRecent}
        all == OrderedBy(gaps, LAMBDA i, j : servers[i].age > servers[j].age)
    IN  IF limit = Unset THEN all ELSE SubSeq(all, 1, Least(limit, Len(all)))

\* The days a server is past the end of its free patches; Unset where it is not.
to_os_eol_warning_item(s, today) ==
    IF resolve_os_eol(s.os, today) THEN today - _eol_info(s.os, today).eol ELSE Unset

\* Support and restarts of the servers of a scope, as of the end of a window, and the
\* gaps of all servers, as of now.  The rows of report_aggregate come by name, the
\* restart counts in no order.
attention_signals(servers, scope, w, today, limit) ==
    LET Cut(S) == LET all == OrderedBy(S, LAMBDA i, j : servers[i].name < servers[j].name)
                  IN  IF limit = Unset THEN all ELSE SubSeq(all, 1, Least(limit, Len(all)))
    IN  [gap |-> metric_gap_warnings(servers, limit),
         eol |-> Cut({i \in scope : to_os_eol_warning_item(servers[i], today - w.back) # Unset}),
         unstable |-> LET all == SetToSeq({i \in scope : servers[i].load[w].restarts >= RestartThreshold})
                      IN  IF limit = Unset THEN all ELSE SubSeq(all, 1, Least(limit, Len(all)))]

\* The cards of some servers are told by their names.
_filter_attention(servers, attention, names) ==
    [card \in DOMAIN attention |-> SelectSeq(attention[card], LAMBDA i : servers[i].name \in names)]

NamesOf(servers, scope) == {servers[i].name : i \in scope}

get_selection_attention(servers, w, today, selected) ==
    _filter_attention(servers, attention_signals(servers, Listed(servers), w, today, Unset), NamesOf(servers, selected))

-----------------------------------------------------------------------------
(* The selection of the assessment API *)

\* A filter is [names, addrs, ids, pairs], a pair is a name and an address or id.
_resolve_matches(servers, f) ==
    LET Is(i, d) == d = i \/ d = servers[i].addr
        Pair(i, p) == servers[i].name = p[1] /\ Is(i, p[2])
        Match(i) == \/ f.names = {} /\ f.addrs = {} /\ f.ids = {} /\ f.pairs = {}
                    \/ servers[i].name \in f.names \/ i \in f.ids \/ servers[i].addr \in f.addrs
                    \/ \E p \in f.pairs : Pair(i, p)
        ambiguous == {n \in {s.name : s \in Range(servers)} : Count(servers, LAMBDA s : s.name = n) > 1}
    IN  [matched |-> {i \in Ids(servers) : Match(i)},
         ambiguous |-> ambiguous,
         ambiguous_in_filter |-> f.names \cap ambiguous,
         unresolved |-> IF servers = <<>> THEN {} ELSE {p \in f.pairs : \A i \in Ids(servers) : ~Pair(i, p)},
         unmatched |-> IF servers = <<>> THEN {}
                       ELSE (f.names \ {s.name : s \in Range(servers)})
                            \cup (f.addrs \ {s.addr : s \in Range(servers)}) \cup (f.ids \ Ids(servers))]

\* The assessment of the servers a filter selects, with what went wrong in it.
get_assessment(servers, f, redis) ==
    LET r == _resolve_matches(servers, f)
    IN  [servers |-> {[id |-> i, online |-> _online_map(servers, redis, 0)[i],
                       ambiguous |-> servers[i].name \in r.ambiguous] : i \in r.matched},
         ambiguous_hostnames |-> r.ambiguous_in_filter, unresolved_pairs |-> r.unresolved,
         unmatched_filters |-> r.unmatched]

\* The right-sizing call does not tell the tokens that select nothing.
get_right_sizing(servers, f, redis) ==
    LET a == get_assessment(servers, f, redis)
    IN  [servers |-> a.servers, ambiguous_hostnames |-> a.ambiguous_hostnames, unresolved_pairs |-> a.unresolved_pairs]

-----------------------------------------------------------------------------
(* What the pages promise each other *)

NoFilter == [online |-> Unset, service |-> Unset, os |-> Unset, class |-> Unset, eol |-> Unset]

\* A server whose name is its own is on exactly one page of the list, whatever else
\* is on it, and under a filter it is there exactly if the filter fits it; servers
\* that share a name may be passed over or shown twice.
ListIsComplete(servers, limit, filter, today, redis) ==
    LET orders == RowOrders(servers)
        Pages(i, f) == {p \in 1..Len(servers) : \E o \in orders : i \in Range(list_servers(servers, o, p, limit, f, today, redis))}
        whole == CHOOSE o \in orders : TRUE
        all == Range(list_servers(servers, whole, 1, Len(servers), filter, today, redis))
    IN  \A i \in Ids(servers) :
            (\A j \in Ids(servers) \ {i} : servers[j].name # servers[i].name) =>
                /\ Cardinality(Pages(i, NoFilter)) = 1
                /\ Pages(i, filter) = IF i \in all THEN Pages(i, NoFilter) ELSE {}

\* The servers that are idle only to those who do not look at the disks.
Woken(servers, scope, w) ==
    {i \in scope : classify_host(servers[i], w, FALSE) # classify_host(servers[i], w, TRUE)}

\* The overview counts what the list shows under the filter of the same name, as long
\* as the servers are not more than it reads; a server of which no inventory has come
\* is unknown to the list and not counted, and one whose disks are active is idle on
\* the list only.  The bar above the page agrees with it.
OverviewMatchesList(servers, today, redis) ==
    LET o == get_dashboard_overview(servers, today, redis)
        whole == CHOOSE w \in RowOrders(servers) : TRUE
        Shown(f) == Len(list_servers(servers, whole, 1, Len(servers), f, today, redis))
        woken == Woken(servers, Ids(servers), Standard)
    IN  /\ get_fleet_status(servers, redis) = [online |-> o.online, total |-> o.total]
        /\ Len(servers) <= ListLimit =>
              /\ o.online = Shown([NoFilter EXCEPT !.online = TRUE])
              /\ o.offline = Shown([NoFilter EXCEPT !.online = FALSE])
              /\ \A c \in DOMAIN o.risk.segments : 
                    o.risk.segments[c] + (IF c = "idle" THEN Cardinality(woken) ELSE 0)
                      = Shown([NoFilter EXCEPT !.class = c]) + Cardinality({i \in woken : servers[i].load[Standard].awake = c})
              /\ \A c \in SignatureSet : o.roles[c] > 0 <=> Shown([NoFilter EXCEPT !.service = c]) > 0
              /\ o.eol.passed = Shown([NoFilter EXCEPT !.eol = "eol"])
              /\ o.eol.security_only + o.eol.supported = Shown([NoFilter EXCEPT !.eol = "supported"])
              /\ o.eol.unknown + Count(servers, LAMBDA s : s.os = Unset) = Shown([NoFilter EXCEPT !.eol = "unknown"])

\* The figures of the live page fit together: no signal is counted more often than
\* there are servers, and an average lies between the values it is made of.
LiveFits(servers) ==
    LET live == _assemble_realtime(servers, Listed(servers))
        fresh == DOMAIN live.rows
        cpus == {servers[i].cpu : i \in fresh} \ {Unset}
    IN  /\ live.online <= live.total /\ \A a \in Axes : live.signals[a] <= live.online
        /\ live.cpu # Unset => Min(cpus) <= live.cpu /\ live.cpu <= Max(cpus)
        /\ live.mem # Unset => /\ \E i \in fresh : 100 * servers[i].mem <= (live.mem + 1) * servers[i].ram
                               /\ \E i \in fresh : servers[i].mem # Unset /\ 100 * servers[i].mem >= live.mem * servers[i].ram

\* The figures of the page of the verdicts fit together: no donut is more than full,
\* the card is the head of the table, and a table of all servers counts each of them
\* once, by the verdicts of the donut beside it but for servers with active disks.
FiguresFit(servers, w, today, redis) ==
    LET page == get_environment_assessment(servers, w, today, redis)
        o == page.overview
        table == page.action
        under == under_provisioned_hosts(servers, Listed(servers), w, TRUE)
    IN  /\ \A a \in Axes : o.saturated[a] <= o.sat_total
        /\ SubSeq(table.hosts, 1, table.under_count) = under
        /\ IsPrefix(o.under, under) /\ o.risk.under = Len(under)
        /\ o.risk.total = o.total
        /\ table.efficiency_count = o.risk.segments["over_provisioned"] + o.risk.segments["idle"]
              + Cardinality({i \in Woken(servers, Listed(servers), w) : servers[i].load[w].awake = "optimal"})
        /\ table.efficiency_vcpus <= o.vcpus
        /\ o.role_unknown + MapThenSumSet(LAMBDA c : o.roles[c], SignatureSet) >= Among(servers, Listed(servers),
              LAMBDA s : DOMAIN s.counter \subseteq SignatureSet)

\* The date shown for a system fits its status, so that the days past it are never
\* negative, and a system never becomes better supported as time goes by; its place
\* in the sorted list follows.
SupportFits(s, today) ==
    LET now == _eol_info(s.os, today)
        next == _eol_info(s.os, today + 1)
    IN  now.status # "unknown" =>
            /\ FreePatchesEnded(now.status) <=> now.eol <= today
            /\ to_os_eol_warning_item(s, today) # Unset => to_os_eol_warning_item(s, today) >= 0
            /\ Severity(now.status) <= Severity(next.status)
            /\ os_eol_sort(now.status) <= os_eol_sort(next.status)

\* The cards hold what the overview counts, those of an earlier anchor no more than
\* that, cut to the limit; those of a selection
\* hold every signal of the selected servers, and of another server only where it
\* has the name of a selected one.
AttentionFits(servers, w, today, limit) ==
    LET all == attention_signals(servers, Listed(servers), w, today, Unset)
        cut == attention_signals(servers, Listed(servers), w, today, limit)
        passed == _os_eol_summary(servers, Listed(servers), today).passed
    IN  /\ Len(all.eol) <= passed /\ (w.back = 0 => Len(all.eol) = passed)
        /\ \A c \in DOMAIN all : Len(cut[c]) = Least(limit, Len(all[c]))
        /\ \A selected \in SUBSET Ids(servers) : \A c \in DOMAIN all :
              LET got == Range(get_selection_attention(servers, w, today, selected)[c])
              IN  /\ Range(all[c]) \cap selected \subseteq got
                  /\ \A i \in got \ selected : \E j \in selected : servers[i].name = servers[j].name

\* Every token of a filter selects a server or is reported, a pair selects only
\* servers of its name, and a name that selects several servers is reported, with the
\* filter and with each of them; the right-sizing call is silent only about the
\* tokens that select nothing.
SelectionFits(servers, f, redis) ==
    LET a == get_assessment(servers, f, redis)
        r == get_right_sizing(servers, f, redis)
        Of(e) == servers[e.id].name
    IN  /\ servers # <<>> => \A n \in f.names :
              n \in a.unmatched_filters \/ n \in a.ambiguous_hostnames
                \/ Cardinality({e \in a.servers : Of(e) = n}) = 1
        /\ f.names = {} /\ f.addrs = {} /\ f.ids = {} /\ f.pairs # {} =>
              \A e \in a.servers : \E p \in f.pairs : Of(e) = p[1] /\ p[2] \in {e.id, servers[e.id].addr}
        /\ servers # <<>> => \A p \in f.pairs : p \in a.unresolved_pairs \/ \E e \in a.servers : Of(e) = p[1]
        /\ \A d, e \in a.servers : d # e /\ Of(d) = Of(e) => d.ambiguous /\ e.ambiguous
        /\ servers # <<>> => r.servers # {} \/ r.unresolved_pairs # {} \/ a.unmatched_filters # {}
=============================================================================
