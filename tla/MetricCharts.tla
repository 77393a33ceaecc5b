------------------------------ MODULE MetricCharts ------------------------------
(***************************************************************************)
(* The chart queries of metric_sql.py over the stored time series.         *)
(*                                                                         *)
(* db[s] is what the database knows of server s: os, cores, the physical   *)
(* disks and interfaces of its inventory (nothing for a server that has    *)
(* sent metrics only), and rows, its samples by collected_at.  A sample holds   *)
(* the kernel's counters and gauges; disk, net and fs are functions on the *)
(* devices, interfaces and mounts it reports.  Times are counted in        *)
(* reporting intervals, kernel times in milliseconds, bytes in KB.         *)
(*                                                                         *)
(* A chart is a function on the buckets that have a value.                 *)
(***************************************************************************)
EXTENDS RightSizing

CONSTANT Interval          \* seconds in a reporting interval

ASSUME IntervalAssumption == Interval \in Nat \ {0}

RS_DISKIO_UTIL_MIN_PCT == 50

-----------------------------------------------------------------------------
(* Buckets, LAG and GREATEST *)

\* win = [start, end, width]; one bucket before start is read for LAG.
Bucket(t, win) == t - (t % win.width)

InWindow(T, win) == {t \in T : win.start <= t /\ t <= win.end}

WithLead(T, win) == {t \in T : win.start - win.width <= t /\ t <= win.end}

\* <<LAG(collected_at), collected_at>> of the rows that have a predecessor.
Steps(T, win) ==
    LET seen == WithLead(T, win)
    IN  {st \in seen \X InWindow(T, win) :
            st[1] < st[2] /\ \A v \in seen : v <= st[1] \/ v >= st[2]}

Seconds(step) == Interval * (step[2] - step[1])

OrNull(x) == IF x = None THEN 0 ELSE x

\* Mutant: a decrease counts like an increase.
RiseEitherWay(prev, cur) == IF None \in {prev, cur} THEN 0 ELSE Max({cur - prev, prev - cur})

\* GREATEST(cur - prev, 0): PostgreSQL's GREATEST skips a NULL, so an unmeasured
\* counter rises by 0.
Rise(prev, cur) == IF None \in {prev, cur} THEN 0 ELSE Max({cur - prev, 0})

Total(f) == MapThenSumSet(LAMBDA x : f[x], DOMAIN f)

\* The k-th smallest value of f.
Ranked(f, k) ==
    CHOOSE v \in {f[x] : x \in DOMAIN f} :
        /\ Cardinality({x \in DOMAIN f : f[x] < v}) < k
        /\ Cardinality({x \in DOMAIN f : f[x] <= v}) >= k

\* percentile_cont(0.95) interpolates between neighbours.
Percentile95(f) ==
    LET n   == Cardinality(DOMAIN f)
        lo  == 1 + (19 * (n - 1)) \div 20
        hi  == IF lo < n THEN lo + 1 ELSE lo
    IN  Ranked(f, lo) + (((19 * (n - 1)) % 20) * (Ranked(f, hi) - Ranked(f, lo))) \div 20

Agg(agg, f) ==
    CASE agg = "avg" -> Total(f) \div Cardinality(DOMAIN f)
      [] agg = "max" -> Max({f[x] : x \in DOMAIN f})
      [] agg = "p95" -> Percentile95(f)

Measured(f) == [x \in {y \in DOMAIN f : f[y] # None} |-> f[x]]

\* One value per instant, folded into buckets.
Trend(points, win, agg) ==
    LET f == Measured(points)
        In(b) == [t \in {u \in DOMAIN f : Bucket(u, win) = b} |-> f[t]]
    IN  [b \in {Bucket(t, win) : t \in DOMAIN f} |-> Agg(agg, In(b))]

\* Flags per server and instant: whether a server crossed at all in the bucket.
Ever(flags, win) ==
    [b \in {Bucket(x[2], win) : x \in DOMAIN flags} |->
        IF \E x \in DOMAIN flags : Bucket(x[2], win) = b /\ flags[x] THEN 1 ELSE 0]

\* Mutant: counts the instants instead of the servers.
HostsByInstant(flags, win) ==
    [b \in {Bucket(x[2], win) : x \in DOMAIN flags} |->
        Cardinality({x \in DOMAIN flags : Bucket(x[2], win) = b /\ flags[x]})]

\* The same, counting servers.
Hosts(flags, win) ==
    [b \in {Bucket(x[2], win) : x \in DOMAIN flags} |->
        Cardinality({x[1] : x \in {y \in DOMAIN flags : Bucket(y[2], win) = b /\ flags[y]}})]

Percent(num, den) == IF den = 0 THEN None ELSE (100 * num) \div den

\* SUM(num) / SUM(den) of the rows of an instant, in percent; at[x] is the instant
\* of row x.
RatioTrend(num, den, at, win, agg) ==
    LET At(t) == {x \in DOMAIN at : at[x] = t}
    IN  Trend([t \in {at[x] : x \in DOMAIN at} |->
                  Percent(Total([x \in At(t) |-> num[x]]), Total([x \in At(t) |-> den[x]]))], win, agg)

Times(db, s) == DOMAIN db[s].rows

TimesOf(db, s, part, dim) == {t \in Times(db, s) : dim \in DOMAIN db[s].rows[t][part]}

Row(db, s, t) == db[s].rows[t]

\* <<server, predecessor, instant>> of every server's samples.
HostSteps(db, S, win) ==
    UNION {{<<s, st[1], st[2]>> : st \in Steps(Times(db, s), win)} : s \in S}

-----------------------------------------------------------------------------
(* CPU *)

\* Mutant: time spent waiting is not part of the total.
CpuTotalWithoutIowait(r) == r.user + r.idle

CpuTotal(r) == r.user + OrNull(r.iowait) + r.idle

\* Unlike the total, a component Windows does not have stays NULL.
CpuNumerator(metric, r) ==
    CASE metric = "usage"  -> r.user + OrNull(r.iowait)
      [] metric = "user"   -> r.user
      [] metric = "iowait" -> r.iowait

\* The rise of the numerator and of the total in one step.
CpuRise(db, metric, x) ==
    LET p == CpuNumerator(metric, Row(db, x[1], x[2]))
        c == CpuNumerator(metric, Row(db, x[1], x[3]))
    IN  IF None \in {p, c} THEN None ELSE c - p

CpuTotalRise(db, x) == CpuTotal(Row(db, x[1], x[3])) - CpuTotal(Row(db, x[1], x[2]))

CpuSteps(db, S, metric, win) ==
    {x \in HostSteps(db, S, win) :
        /\ CpuTotalRise(db, x) > 0
        /\ CpuRise(db, metric, x) # None /\ CpuRise(db, metric, x) >= 0}

_trend_cpu_utilization(db, S, metric, win, agg) ==
    LET valid == CpuSteps(db, S, metric, win)
    IN  RatioTrend([x \in valid |-> CpuRise(db, metric, x)], [x \in valid |-> CpuTotalRise(db, x)],
                   [x \in valid |-> x[3]], win, agg)

CpuSaturated(db, s, t) ==
    100 * Row(db, s, t).queue >= 100 * SatLine(db[s].os) * db[s].cores

CpuFlags(db, S, win) ==
    LET rows == UNION {{<<s, t>> : t \in {u \in InWindow(Times(db, s), win) :
                           Row(db, s, u).queue # None /\ Above(db[s].cores, 0)}} : s \in S}
    IN  [x \in rows |-> CpuSaturated(db, x[1], x[2])]

_trend_cpu_saturation(db, S, win)       == Ever(CpuFlags(db, S, win), win)
_trend_cpu_saturation_hosts(db, S, win) == Hosts(CpuFlags(db, S, win), win)

\* One line per operating system, weighted by cores.
_trend_cpu_run_queue(db, S, os, win, agg) ==
    LET rows == {x \in DOMAIN CpuFlags(db, S, win) : db[x[1]].os = os}
    IN  RatioTrend([x \in rows |-> Row(db, x[1], x[2]).queue], [x \in rows |-> db[x[1]].cores],
                   [x \in rows |-> x[2]], win, agg)

-----------------------------------------------------------------------------
(* Memory: paging pressure, weighted usage, stall time *)

\* Windows publishes Pages Input only, Linux is judged by refaults.
PagingOf(db, s, t) ==
    IF Windows(db[s].os) THEN Row(db, s, t).paging_in ELSE Row(db, s, t).paging_major

PagingSteps(db, S, win) ==
    UNION {{<<s, st[1], st[2]>> :
               st \in Steps({t \in Times(db, s) : PagingOf(db, s, t) # None}, win)} : s \in S}

PagingFlags(db, S, win) ==
    LET Crossed(x) ==
            LET pages == Rise(PagingOf(db, x[1], x[2]), PagingOf(db, x[1], x[3]))
            IN  IF Windows(db[x[1]].os)
                THEN pages >= WIN_PAGES_INPUT * Interval * (x[3] - x[2])
                ELSE pages > 0
        steps == PagingSteps(db, S, win)
    IN  [y \in {<<x[1], x[3]>> : x \in steps} |->
            \E x \in steps : <<x[1], x[3]>> = y /\ Crossed(x)]

_trend_mem_paging_pressure(db, S, win)       == Ever(PagingFlags(db, S, win), win)
_trend_mem_paging_pressure_hosts(db, S, win) == Hosts(PagingFlags(db, S, win), win)

\* Used memory of all servers that reported at an instant over their memory.
_trend_env_scalar_weighted(db, S, win, agg) ==
    LET rows == UNION {{<<s, t>> : t \in {u \in InWindow(Times(db, s), win) :
                           LET m == Row(db, s, u).mem IN Above(m.limit, 0) /\ m.available # None}}
                       : s \in S}
        Mem(x) == Row(db, x[1], x[2]).mem
    IN  RatioTrend([x \in rows |-> Mem(x).limit - Mem(x).available], [x \in rows |-> Mem(x).limit],
                   [x \in rows |-> x[2]], win, agg)

\* PSI: stall time over wall time; a server without PSI has no rows.
_trend_psi(db, S, win, agg) ==
    LET With(s) == {t \in Times(db, s) : Row(db, s, t).stall # None}
        steps == UNION {{<<s, st[1], st[2]>> : st \in Steps(With(s), win)} : s \in S}
    IN  RatioTrend([x \in steps |-> Rise(Row(db, x[1], x[2]).stall, Row(db, x[1], x[3]).stall)],
                   [x \in steps |-> 1000 * Interval * (x[3] - x[2])],
                   [x \in steps |-> x[3]], win, agg)

-----------------------------------------------------------------------------
(* Disk I/O *)

PhysDisks(db, s, t) == DOMAIN Row(db, s, t).disk \cap db[s].disks

DiskSteps(db, s, d, win) == Steps(TimesOf(db, s, "disk", d), win)

DiskBusy(iot, st) == 100 * iot >= RS_DISKIO_UTIL_MIN_PCT * 1000 * Seconds(st)

\* Milliseconds per operation of a device that was busy, resets taken as 0.
AwaitClamped(db, s, d, st) ==
    LET p == Row(db, s, st[1]).disk[d]
        c == Row(db, s, st[2]).disk[d]
        ops == Rise(p.ops, c.ops)
    IN  IF ops > 0 /\ DiskBusy(Rise(p.iot, c.iot), st) THEN Rise(p.t, c.t) \div ops ELSE None

\* The worst physical device of all servers at an instant.
_trend_disk_io_saturation(db, S, win, agg) ==
    LET At(t) == UNION {UNION {{AwaitClamped(db, s, d, st) :
                            st \in {x \in DiskSteps(db, s, d, win) : x[2] = t}}
                        : d \in db[s].disks} : s \in S}
        times == UNION {InWindow(Times(db, s), win) : s \in S}
    IN  Trend([t \in times |-> IF Known(At(t)) = {} THEN None ELSE Max(Known(At(t)))], win, agg)

\* Mutant: any amount of busy time is believed.
DiskTrustedAlways(p, c, st) == c.ops > p.ops /\ c.iot >= p.iot

\* A device's counters are believed if it did operations and was busy for at
\* most the time that passed.
DiskTrusted(p, c, st) ==
    /\ c.ops > p.ops
    /\ 0 <= c.iot - p.iot /\ c.iot - p.iot <= 1000 * Seconds(st)

DiskCrossed(p, c, st) ==
    /\ DiskTrusted(p, c, st) /\ DiskBusy(c.iot - p.iot, st)
    /\ c.t - p.t > RS_DISKIO_AWAIT_MS * (c.ops - p.ops)

DiskFlags(db, S, win) ==
    LET rows == UNION {{<<s, t>> : t \in {u \in InWindow(Times(db, s), win) :
                                            PhysDisks(db, s, u) # {}}} : s \in S}
    IN  [x \in rows |->
            \E d \in PhysDisks(db, x[1], x[2]) : \E st \in DiskSteps(db, x[1], d, win) :
                st[2] = x[2] /\ DiskCrossed(Row(db, x[1], st[1]).disk[d],
                                            Row(db, x[1], st[2]).disk[d], st)]

_trend_disk_saturation(db, S, win)       == Ever(DiskFlags(db, S, win), win)
_trend_disk_saturation_hosts(db, S, win) == Hosts(DiskFlags(db, S, win), win)

-----------------------------------------------------------------------------
(* Network *)

PhysIfaces(db, s, t) == DOMAIN Row(db, s, t).net \cap db[s].ifaces

\* The rise of some counters at instant t, each interface clamped by itself.
NetRise(db, s, t, win, fields) ==
    LET steps == UNION {UNION {{<<i, st[1], st[2], f>> :
                            st \in {y \in Steps(TimesOf(db, s, "net", i), win) : y[2] = t}}
                        : i \in PhysIfaces(db, s, t)} : f \in fields}
    IN  Total([x \in steps |->
                  Rise(Row(db, s, x[2]).net[x[1]][x[4]], Row(db, s, x[3]).net[x[1]][x[4]])])

RetransRise(db, s, t, win) ==
    LET st == {x \in Steps(Times(db, s), win) : x[2] = t}
    IN  IF st = {} THEN 0
        ELSE LET x == CHOOSE y \in st : TRUE IN Rise(Row(db, s, x[1]).retrans, Row(db, s, t).retrans)

NetTimes(db, S, win) ==
    UNION {{t \in InWindow(Times(db, s), win) : PhysIfaces(db, s, t) # {}} : s \in S}

\* <<server, instant>> of the samples at those times, whatever interfaces they have.
NetSamples(db, S, win) == {x \in S \X NetTimes(db, S, win) : x[2] \in Times(db, x[1])}

_trend_net_retrans_percent(db, S, win, agg) ==
    LET rows == NetSamples(db, S, win)
    IN  RatioTrend([x \in rows |-> RetransRise(db, x[1], x[2], win)],
                   [x \in rows |-> NetRise(db, x[1], x[2], win, {"txp"})],
                   [x \in rows |-> x[2]], win, agg)

_trend_net_drop_percent(db, S, win, agg) ==
    LET rows == NetSamples(db, S, win)
    IN  RatioTrend([x \in rows |-> NetRise(db, x[1], x[2], win, {"rxd", "txd"})],
                   [x \in rows |-> NetRise(db, x[1], x[2], win, {"rxp", "txp"})],
                   [x \in rows |-> x[2]], win, agg)

\* per mille exceeds a line in tenths of a percent
Exceeds(num, den, tenths) == den > 0 /\ 1000 * num > tenths * den

\* A first sample has no elapsed time, and then traffic is assumed.
EnoughTraffic(db, s, t, win) ==
    LET gaps == UNION {{Seconds(st) : st \in {x \in Steps(TimesOf(db, s, "net", i), win) : x[2] = t}}
                       : i \in PhysIfaces(db, s, t)}
    IN  gaps = {} \/ NetRise(db, s, t, win, {"rxb", "txb"}) >= RS_NET_MIN_TRAFFIC_KBPS * Max(gaps)

Congested(db, s, t, win) ==
    \/ /\ EnoughTraffic(db, s, t, win)
       /\ \/ Exceeds(RetransRise(db, s, t, win), NetRise(db, s, t, win, {"txp"}),
                     RS_NET_RETRANS_TENTHS)
          \/ Exceeds(NetRise(db, s, t, win, {"rxd", "txd"}),
                     NetRise(db, s, t, win, {"rxp", "txp"}), RS_NET_DROP_TENTHS)
    \/ AtLeast(Row(db, s, t).conntrack, RS_CONNTRACK_PCT)

NetFlags(db, S, win) ==
    [x \in UNION {{<<s, t>> : t \in NetTimes(db, {s}, win)} : s \in S} |->
        Congested(db, x[1], x[2], win)]

_trend_net_congested(db, S, win)       == Ever(NetFlags(db, S, win), win)
_trend_net_congested_hosts(db, S, win) == Hosts(NetFlags(db, S, win), win)

-----------------------------------------------------------------------------
(* Throughput of disks and interfaces *)

\* KB per interval of one device in one step.
RateOf(db, s, part, d, field, st) ==
    Rise(Row(db, s, st[1])[part][d][field], Row(db, s, st[2])[part][d][field])
        \div (st[2] - st[1])

\* The sum over all physical devices of each one's mean rate in the bucket.
_trend_rate_per_dim(db, S, part, field, win) ==
    LET phys(s) == IF part = "disk" THEN db[s].disks ELSE db[s].ifaces
        rates == UNION {UNION {{<<s, d, st>> : st \in Steps(TimesOf(db, s, part, d), win)}
                               : d \in phys(s)} : s \in S}
        Mean(s, d, b) ==
            LET mine == {x \in rates : x[1] = s /\ x[2] = d /\ Bucket(x[3][2], win) = b}
            IN  Agg("avg", [x \in mine |-> RateOf(db, s, part, d, field, x[3])])
        Active(b) == {<<x[1], x[2]>> : x \in {z \in rates : Bucket(z[3][2], win) = b}}
    IN  [b \in {Bucket(x[3][2], win) : x \in rates} |-> Total([y \in Active(b) |-> Mean(y[1], y[2], b)])]

-----------------------------------------------------------------------------
(* File systems *)

\* The reports of a mount that the value of bucket b is taken from, newest first.
\* Only the end of the bucket bounds them, which is later than that of the window.
FsReportsUpto(db, x, b, win) ==
    {t \in TimesOf(db, x[1], "fs", x[2]) : win.start - win.width <= t /\ t < b + win.width}

\* Every mount keeps its last value of the window until it reports again.
_trend_fs_usage_percent(db, S, win) ==
    LET targets == UNION {{<<s, m>> : m \in UNION {DOMAIN Row(db, s, t).fs :
                              t \in WithLead(Times(db, s), win)}} : s \in S}
        Upto(x, b) == FsReportsUpto(db, x, b, win)
        LastOf(x, b) == Row(db, x[1], Max(Upto(x, b))).fs[x[2]]
        Found(b) == {x \in targets : Upto(x, b) # {}}
        Used(b) == Total([x \in Found(b) |-> LastOf(x, b).used])
        Cap(b) == Total([x \in Found(b) |-> LastOf(x, b).used + LastOf(x, b).free])
        buckets == {b \in Bucket(win.start, win)..Bucket(win.end, win) : b % win.width = 0}
    IN  [b \in {c \in buckets : Cap(c) > 0} |-> Percent(Used(b), Cap(b))]
=============================================================================
