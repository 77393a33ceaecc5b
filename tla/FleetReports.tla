------------------------------ MODULE FleetReports ------------------------------
(***************************************************************************)
(* The reports: of the environment, of a selection of servers and of one   *)
(* server.  All three fill the same form from the same rows; the worker    *)
(* publishes them as snapshots.  Servers and windows are those of          *)
(* FleetPages.  The verdicts know the activity of the disks, which         *)
(* _with_report_baselines measures once more; the table of actions and the *)
(* lines of causes beneath it do not.                                      *)
(***************************************************************************)
EXTENDS FleetPages

\* RISK_LEVEL_ORDER of the verdict's risk.
RiskRank(class) ==
    CASE class = "under_provisioned" -> 0 [] class \in {"idle", "over_provisioned"} -> 1 [] OTHER -> 2

\* The rows of a report: those at risk first, then by load and name.
sort_rows_for_report(servers, scope, w) ==
    LET Risk(i) == RiskRank(classify_host(servers[i], w, TRUE))
        P95(i) == servers[i].load[w].p95
    IN  OrderedBy(scope, LAMBDA i, j : \/ Risk(i) < Risk(j)
                                       \/ Risk(i) = Risk(j) /\ P95(i) > P95(j)
                                       \/ Risk(i) = Risk(j) /\ P95(i) = P95(j) /\ servers[i].name < servers[j].name)

get_report(servers, scope, w, redis) ==
    [rows |-> sort_rows_for_report(servers, scope, w), total |-> Cardinality(scope),
     online |-> Cardinality({i \in scope : _online_map(servers, redis, w.back)[i]}),
     risk_high |-> Among(servers, scope, LAMBDA s : RiskRank(classify_host(s, w, TRUE)) = 0),
     risk_attention |-> Among(servers, scope, LAMBDA s : RiskRank(classify_host(s, w, TRUE)) = 1),
     vcpus |-> Total(servers, scope, LAMBDA s : s.cores)]

-----------------------------------------------------------------------------
(* The parts of the form *)

_count_classifications(servers, rows, w) ==
    [c \in Range(CLASSIFICATION_ORDER) |-> Among(servers, Range(rows), LAMBDA s : classify_host(s, w, TRUE) = c)]

_count_os(servers, scope) ==
    [os \in {servers[i].os : i \in scope} |-> Among(servers, scope, LAMBDA s : s.os = os)]

\* The customer is shown the servers at risk, the engineer all of them; the order of
\* the rows is kept among equals.
_select_top_risks(servers, rows, w, view) ==
    SelectSeq(rows, LAMBDA i : view = "customer" => RiskRank(classify_host(servers[i], w, TRUE)) = 0)

_under_cause_summary(servers, hosts, w) ==
    [c \in UNION {servers[i].load[w].causes : i \in Range(hosts)} |->
        Among(servers, Range(hosts), LAMBDA s : c \in s.load[w].causes)]

\* The mounts that fill up soon; a row that does not name its mount is left out.
_extract_capacity_imminent(servers, rows, w) ==
    LET Runway(i) == servers[i].load[w].runway
    IN  OrderedBy({i \in Range(rows) : Runway(i) # Unset /\ Runway(i) < RunwayDays /\ servers[i].load[w].mount # Unset},
                  LAMBDA i, j : Runway(i) < Runway(j) \/ (Runway(i) = Runway(j) /\ servers[i].name < servers[j].name))

\* One line per name; its link is that of the first card.
_extract_attention_hosts(servers, attention) ==
    LET cards == attention.gap \o attention.eol \o attention.unstable
        First(n) == cards[SelectInSeq(cards, LAMBDA i : servers[i].name = n)]
        On(n) == {c \in DOMAIN attention : \E i \in Range(attention[c]) : servers[i].name = n}
    IN  {[name |-> n, id |-> First(n), signals |-> On(n)] : n \in {servers[i].name : i \in Range(cards)}}

\* What the summary dwells on: what the servers lack; only if none lacks anything what
\* they have to spare; and the systems without patches.
_env_summary_bullets(attention, dist, causes) ==
    LET short == dist["under_provisioned"] > 0
        spare == dist["over_provisioned"] + dist["idle"] > 0
    IN  {b \in {"causes", "short", "spare", "eol"} :
            CASE b = "causes" -> short /\ DOMAIN causes # {}
              [] b = "short" -> short /\ DOMAIN causes = {}
              [] b = "spare" -> ~short /\ spare
              [] OTHER -> attention.eol # <<>>}

to_environment_report(servers, scope, w, overview, attention, base, view) ==
    LET dist == _count_classifications(servers, base.rows, w)
        action == build_action_targets(servers, scope, w)
        under == SelectSeq(action.hosts, LAMBDA i : to_capacity_warning_item(servers[i], w).class = "under_provisioned")
        causes == _under_cause_summary(servers, under, w)
    IN  [overview |-> overview, attention |-> attention, base |-> base, dist |-> dist, action |-> action,
         os |-> _count_os(servers, scope), top_risks |-> _select_top_risks(servers, base.rows, w, view),
         causes |-> causes, bullets |-> _env_summary_bullets(attention, dist, causes),
         attention_hosts |-> _extract_attention_hosts(servers, attention),
         capacity_imminent |-> _extract_capacity_imminent(servers, base.rows, w),
         os_eol_count |-> Len(attention.eol)]

-----------------------------------------------------------------------------
(* The three reports *)

\* All servers, without the limit of the pages.
get_environment_report(servers, w, view, today, redis) ==
    LET all == Ids(servers)
    IN  to_environment_report(servers, all, w, assemble_overview(servers, all, all, w, today, redis),
                              attention_signals(servers, all, w, today, Unset), get_report(servers, all, w, redis), view)

\* The signals are worked out for the selected servers and then told by name.
get_selection_report(servers, selected, w, view, today, redis) ==
    to_environment_report(servers, selected, w, assemble_overview(servers, selected, selected, w, today, redis),
        _filter_attention(servers, attention_signals(servers, selected, w, today, Unset), NamesOf(servers, selected)),
        get_report(servers, selected, w, redis), view)

\* A key that is missing is taken for Redis being away.
SingleOnline(s, redis, back) == (redis /\ s.flag) \/ Seen(s, back)

\* One server; the signals are those of all servers, which the worker hands over.
get_single_server_report(servers, i, w, view, today, redis) ==
    LET online == IF SingleOnline(servers[i], redis, w.back) THEN 1 ELSE 0
        overview == [total |-> 1, online |-> online, offline |-> 1 - online, vcpus |-> servers[i].cores]
    IN  to_environment_report(servers, {i}, w, overview, attention_signals(servers, Listed(servers), w, today, Unset),
                              get_report(servers, {i}, w, redis), view)

\* The signals shown beside a server, looked up by its name.
attention_for_host(servers, name, attention) ==
    {c \in DOMAIN attention : \E i \in Range(attention[c]) : servers[i].name = name}

-----------------------------------------------------------------------------
(* What the reports promise *)

\* A report's sections count the same servers, and its figures are those of the
\* overview; the customer's table is the head of the engineer's.  The table of
\* actions holds beside the servers at medium risk those whose disks were active.
SectionsFit(servers, r, w, view) ==
    LET short == r.dist["under_provisioned"]
    IN  /\ MapThenSumSet(LAMBDA c : r.dist[c], DOMAIN r.dist) = r.overview.total
        /\ MapThenSumSet(LAMBDA os : r.os[os], DOMAIN r.os) = r.overview.total
        /\ r.base.vcpus = r.overview.vcpus
        /\ short = r.action.under_count /\ short = r.base.risk_high
        /\ r.action.efficiency_count = r.base.risk_attention + 
              Cardinality({i \in Woken(servers, Range(r.base.rows), w) : servers[i].load[w].awake = "optimal"})
        /\ view = "customer" => Range(r.top_risks) = Range(SubSeq(r.action.hosts, 1, short))
        /\ view = "engineer" => r.top_risks = r.base.rows
        /\ \A c \in DOMAIN r.causes : r.causes[c] <= short
        /\ Cardinality({l.name : l \in r.attention_hosts}) = Cardinality(r.attention_hosts)
        /\ \A l \in r.attention_hosts : \A c \in l.signals :
              l.id \notin Range(r.attention[c]) => Count(servers, LAMBDA s : s.name = l.name) > 1

\* Today's date decides the overview's support, the anchor the cards'.
SupportCounted(r, w) ==
    /\ r.os_eol_count <= r.overview.eol.passed
    /\ w.back = 0 => r.os_eol_count = r.overview.eol.passed

\* Where the pages read all servers the environment report has the table and the
\* overview of the page for its window; over the last two weeks that page is the
\* environment overview.  The report on a selection of all servers
\* is the environment report.  A report on a selection adds up the reports on its
\* servers, but for the servers whose key is missing while their inventory is recent,
\* which the report on one server calls online; and its cards are those of the live
\* page, unless one of its servers shares its name with another one or is beyond what
\* the page reads.
ReportsAddUp(servers, w, today, redis) ==
    LET env == get_environment_report(servers, w, "engineer", today, redis)
        page == get_environment_assessment(servers, w, today, redis)
        Single(i) == get_single_server_report(servers, i, w, "engineer", today, redis)
        OnBoth(sel) == sel \subseteq Listed(servers) /\ NamesOf(servers, sel) \cap NamesOf(servers, Ids(servers) \ sel) = {}
    IN  /\ SectionsFit(servers, env, w, "engineer")
        /\ SectionsFit(servers, get_environment_report(servers, w, "customer", today, redis), w, "customer")
        /\ env.overview.risk.segments = env.dist /\ env.overview.online = env.base.online
        /\ SupportCounted(env, w)
        /\ Len(servers) <= ListLimit => env.action = page.action /\ env.overview = page.overview
        /\ w = Standard => page.overview = get_dashboard_overview(servers, today, redis)
        /\ get_selection_report(servers, Ids(servers), w, "engineer", today, redis) = env
        /\ \A sel \in SUBSET Ids(servers) \ {{}} :
              LET r == get_selection_report(servers, sel, w, "engineer", today, redis)
                  live == get_selection_attention(servers, w, today, sel)
              IN  /\ SectionsFit(servers, r, w, "engineer")
                  /\ SupportCounted(r, w)
                  /\ OnBoth(sel) => \A c \in DOMAIN live : Range(live[c]) = Range(r.attention[c])
                  /\ \A c \in DOMAIN r.dist : r.dist[c] = MapThenSumSet(LAMBDA i : Single(i).dist[c], sel)
                  /\ MapThenSumSet(LAMBDA i : Single(i).overview.online, sel)
                       = r.overview.online + Cardinality({i \in sel : redis /\ ~servers[i].flag /\ Seen(servers[i], w.back)})
        /\ \A i \in Listed(servers) : \A c \in DOMAIN env.attention :
              i \in Range(env.attention[c]) => c \in attention_for_host(servers, servers[i].name, Single(i).attention)
=============================================================================
