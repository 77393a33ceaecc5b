----------------------------- MODULE MetricSnapshot -----------------------------
(***************************************************************************)
(* What the pages show of the present: latest_saturation, the dashboard    *)
(* that metrics_calculator.py computes from the two newest samples, the    *)
(* error counters, and the cursor pages over the samples.                  *)
(***************************************************************************)
EXTENDS MetricCharts

CONSTANTS
    Skew,              \* rows more than this ahead of the database's clock are ignored
    SnapshotWindow,    \* span of one page query, 30 days
    LatestWindow,      \* how far back the newest row of a device is looked for
    LiveWindow         \* how far back the live signals look: ten minutes on a server's
                       \* page, redis_ttl_online for the fleet

\* NULL is not a rate or a ratio either.
ASSUME SnapshotAssumption ==
    /\ {Skew, SnapshotWindow, LatestWindow, LiveWindow} \subseteq Nat
    /\ None \notin [rise : Int, secs : Int] /\ None \notin Int \X Int

-----------------------------------------------------------------------------
(* The newest rows *)

Recent(T, since, now) == {t \in T : since <= t /\ t <= now + Skew}

\* row_number() = 1 and = 2.
\* Mutant: the oldest row of the window instead of the second newest.
OldestRow(T) == IF Cardinality(T) < 2 THEN None ELSE Min(T)

First(T)  == IF T = {} THEN None ELSE Max(T)
Second(T) == IF T = {} THEN None ELSE First(T \ {Max(T)})

\* Value of a counter in the row, NULL if there is no such row.
HostValue(db, s, t, field) == IF t = None THEN None ELSE Row(db, s, t)[field]

Minus(a, b) == IF None \in {a, b} THEN None ELSE a - b

\* The samples latest_dashboard looks at, however old they are.
DashboardTimes(db, s, now) == {t \in Times(db, s) : t <= now + Skew}

-----------------------------------------------------------------------------
(* latest_saturation *)

\* The rise of a counter and its time need two rows and no decrease.
LiveRate(T, Value(_)) ==
    LET t == First(T)
        u == Second(T)
    IN  IF u = None \/ None \in {Value(t), Value(u)} THEN None
        ELSE IF Value(t) < Value(u) THEN None
        ELSE [rise |-> Value(t) - Value(u), secs |-> Interval * (t - u)]

\* Hard faults, of the column the operating system publishes.
LivePaging(db, s, T) == LiveRate(T, LAMBDA t : PagingOf(db, s, t))

\* Stall time; only Linux kernels that measure it have rows.
LiveStall(db, s, T) ==
    LiveRate({t \in T : Row(db, s, t).stall # None}, LAMBDA t : Row(db, s, t).stall)

\* <<time, operations>> of each physical device whose counters are believed
\* and which was busy.
LiveAwaits(db, s, since, now) ==
    LET Two(d) == Recent(TimesOf(db, s, "disk", d), since, now)
        Step(d) == <<Second(Two(d)), First(Two(d))>>
        Busy(d) == LET p == Row(db, s, Step(d)[1]).disk[d]
                       c == Row(db, s, Step(d)[2]).disk[d]
                   IN  /\ c.ops > p.ops /\ c.t >= p.t
                       /\ DiskBusy(c.iot - p.iot, Step(d))
                       /\ c.iot - p.iot <= 1000 * Seconds(Step(d))
        usable == {d \in db[s].disks : Second(Two(d)) # None}
    IN  {<<Row(db, s, Step(d)[2]).disk[d].t - Row(db, s, Step(d)[1]).disk[d].t,
           Row(db, s, Step(d)[2]).disk[d].ops - Row(db, s, Step(d)[1]).disk[d].ops>>
            : d \in {e \in usable : Busy(e)}}

\* The queue of each device whose busy time is believed, however idle it was.
LivePending(db, s, since, now) ==
    LET Two(d) == Recent(TimesOf(db, s, "disk", d), since, now)
        Step(d) == <<Second(Two(d)), First(Two(d))>>
        trusted == {d \in db[s].disks :
                      /\ Second(Two(d)) # None
                      /\ DiskTrusted(Row(db, s, Step(d)[1]).disk[d], Row(db, s, Step(d)[2]).disk[d], Step(d))}
    IN  Known({Row(db, s, First(Two(d))).pending[d] : d \in trusted})

\* Packets and drops are summed over the interfaces before the difference is
\* taken, and virtual interfaces are summed too.
LiveNetDelta(db, s, since, now, fields) ==
    LET ifaces == UNION {DOMAIN Row(db, s, t).net : t \in Recent(Times(db, s), since, now)}
        Two(i) == Recent(TimesOf(db, s, "net", i), since, now)
        Value(i, t) == Total([f \in fields |-> Row(db, s, t).net[i][f]])
        pairs == {i \in ifaces : Second(Two(i)) # None}
    IN  IF pairs = {} THEN None
        ELSE Total([i \in ifaces |-> Value(i, First(Two(i)))])
             - Total([i \in pairs |-> Value(i, Second(Two(i)))])

\* A ratio is a pair, NULL if nothing was sent or the numerator decreased.
Ratio(num, den) == IF Above(den, 0) /\ AtLeast(num, 0) THEN <<num, den>> ELSE None

latest_saturation(db, s, since, now) ==
    LET T == Recent(Times(db, s), since, now)
        t == First(T)
        u == Second(T)
    IN  [paging    |-> LivePaging(db, s, T),
         psi       |-> LiveStall(db, s, T),
         awaits    |-> LiveAwaits(db, s, since, now),
         pending   |-> LivePending(db, s, since, now),
         conntrack |-> HostValue(db, s, t, "conntrack"),
         retrans   |-> Ratio(Minus(HostValue(db, s, t, "retrans"), HostValue(db, s, u, "retrans")),
                             LiveNetDelta(db, s, since, now, {"txp"})),
         drop      |-> Ratio(LiveNetDelta(db, s, since, now, {"rxd", "txd"}),
                             LiveNetDelta(db, s, since, now, {"rxp", "txp"}))]

\* The state of a signal on the card.
Signal(value, saturated) == IF value = None THEN "no_data" ELSE IF saturated THEN "saturated" ELSE "ok"

_ratio_signal(ratio, tenths) ==
    Signal(ratio, ratio # None /\ 1000 * ratio[1] >= tenths * ratio[2])

PSI_STALL_DISPLAY_PCT == 10

_psi_signal(psi, os) ==
    IF Windows(os) THEN "not_applicable"
    ELSE Signal(psi, psi # None /\ psi.rise >= 10 * PSI_STALL_DISPLAY_PCT * psi.secs)

\* The worst device decides; only where no device was busy, Windows falls back on
\* the longest queue.
disk_await_signal(os, sat) ==
    IF sat.awaits # {} THEN Signal(0, \E a \in sat.awaits : a[1] >= RS_DISKIO_AWAIT_MS * a[2])
    ELSE IF Windows(os) /\ sat.pending # {}
         THEN Signal(0, \E q \in sat.pending : q >= DISK_QUEUE_PER_DISK)
         ELSE "no_data"

\* cur is the newest sample: it says how long the run queue is and how many cores
\* there are, whatever the inventory says.
build_saturation_signals(os, cur, sat) ==
    LET index == cpu_saturation_index(cur.queue, cur.cores, os)
    IN  [cpu_run_queue |-> Signal(index, AtLeast(index, 100)),
         mem_paging    |-> Signal(sat.paging,
                              /\ sat.paging # None
                              /\ IF Windows(os)
                                 THEN sat.paging.rise >= WIN_PAGES_INPUT * sat.paging.secs
                                 ELSE sat.paging.rise > 0),
         mem_psi       |-> _psi_signal(sat.psi, os),
         disk_await    |-> disk_await_signal(os, sat),
         net_retrans   |-> _ratio_signal(sat.retrans, RS_NET_RETRANS_TENTHS),
         net_drop      |-> _ratio_signal(sat.drop, RS_NET_DROP_TENTHS),
         net_conntrack |-> IF Windows(os) THEN "not_applicable"
                           ELSE Signal(sat.conntrack, AtLeast(sat.conntrack, RS_CONNTRACK_PCT))]

-----------------------------------------------------------------------------
(* The dashboard *)

BOOT_JITTER == 0       \* five seconds, less than a reporting interval

is_counter_reset(cur, prev) ==
    /\ None \notin {cur, prev}
    /\ ~(cur - prev \in (-BOOT_JITTER)..BOOT_JITTER)

\* Shares of the CPU time between two samples, in percent.
compute_cpu(cur, prev) ==
    LET total == CpuTotal(cur) - CpuTotal(prev)
        Share(f) == IF None \in {cur[f], prev[f]} THEN None
                    ELSE Max({0, (100 * (cur[f] - prev[f])) \div total})
    IN  IF is_counter_reset(cur.boot, prev.boot) \/ total <= 0 THEN None
        ELSE [usage |-> Max({0, 100 - Share("idle")}), user |-> Share("user"), iowait |-> Share("iowait")]

Dashboard_cpu(db, s, now) ==
    LET T == DashboardTimes(db, s, now)
    IN  IF Second(T) = None THEN None ELSE compute_cpu(Row(db, s, First(T)), Row(db, s, Second(T)))

\* usage_pct in tenths of a percent.
usage_pct(used, total) == IF used = None \/ total = 0 THEN None ELSE Max({0, (1000 * used) \div total})

_clip_to_remaining(pct, room) == IF pct = None THEN None ELSE Min({Max({0, room}), pct})

\* The stacked bar: used, then cached and buffers as far as there is room, then free.
compute_mem(m) ==
    LET used    == IF m.available = None THEN None ELSE Max({0, m.limit - m.available})
        usedPct == usage_pct(used, m.limit)
        room    == 1000 - OrNull(usedPct)
        cached  == _clip_to_remaining(usage_pct(m.cached, m.limit), room)
        left    == room - OrNull(cached)
        buffers == _clip_to_remaining(usage_pct(m.buffered, m.limit), left)
    IN  IF m.limit = None THEN None
        ELSE [used |-> usedPct, cached |-> cached, buffers |-> buffers,
              free |-> Max({0, left - OrNull(buffers)})]

\* Devices of the I/O tables: the physical ones, or all if the inventory lists
\* none of the kind, physical or not.
DashboardDims(db, s, part, now) ==
    LET phys == IF part = "disk" THEN db[s].disks ELSE db[s].ifaces
        seen == UNION {DOMAIN Row(db, s, t)[part] : t \in Recent(Times(db, s), now - LatestWindow, now)}
    IN  IF part \in db[s].listed THEN seen \cap phys ELSE seen

\* A rate needs two rows, time between them and no decrease; there is no boot
\* time in these rows.
compute_rate(db, s, part, d, field, now) ==
    LET T == Recent(TimesOf(db, s, part, d), now - LatestWindow, now)
        t == First(T)
        u == Second(T)
    IN  IF u = None THEN None
        ELSE LET c == Row(db, s, t)[part][d][field]
                 p == Row(db, s, u)[part][d][field]
             IN  IF c < p THEN None ELSE (c - p) \div (t - u)

-----------------------------------------------------------------------------
(* Errors *)

\* MAX - MIN over the window, 0 without rows.
Spread(values) == IF values = {} THEN 0 ELSE Max(values) - Min(values)

Counted(db, s, T, field) == Spread({Row(db, s, t)[field] : t \in T})

NicErrors(db, s, T) ==
    LET ifaces == UNION {DOMAIN Row(db, s, t).net : t \in T}
    IN  MapThenSumSet(LAMBDA i : Spread({Row(db, s, t).net[i].err :
                                            t \in T \cap TimesOf(db, s, "net", i)}), ifaces)

\* Mutant: rows of the future are counted.
ErrorsOfAnyTime(db, s, since, now) ==
    LET any == {t \in Times(db, s) : since <= t}
    IN  [measured |-> any # {}, oom |-> Counted(db, s, any, "oom"), net |-> NicErrors(db, s, any),
         corrupted |-> IF any = {} THEN None ELSE Row(db, s, Max(any)).corrupted]

\* The newest row's damaged memory, rows of the future included.
latest_errors(db, s, since, now) ==
    LET T   == Recent(Times(db, s), since, now)
        any == {t \in Times(db, s) : since <= t}
    IN  [measured |-> T # {}, oom |-> Counted(db, s, T, "oom"), net |-> NicErrors(db, s, T),
         corrupted |-> IF any = {} THEN None ELSE Row(db, s, Max(any)).corrupted]

\* What the indicators of a server's page say has occurred.
build_error_signals(err, os) ==
    Fired([mem_oom       |-> err.measured /\ err.oom > 0,
           net_errors    |-> err.net > 0,
           mem_corrupted |-> ~Windows(os) /\ Above(err.corrupted, 0)])

\* The fleet's columns look at the largest damage of the window instead.
FleetErrors(db, s, since, now) ==
    LET T == Recent(Times(db, s), since, now)
        damage == Known({Row(db, s, t).corrupted : t \in T})
    IN  Fired([mem_oom       |-> Counted(db, s, T, "oom") > 0,
               net_errors    |-> NicErrors(db, s, T) > 0,
               mem_corrupted |-> damage # {} /\ Max(damage) > 0])

fleet_error_summary(db, S, since, now) ==
    [k \in {"mem_oom", "net_errors", "mem_corrupted"} |->
        Cardinality({s \in S : k \in FleetErrors(db, s, since, now)})]

fleet_error_hosts(db, S, since, now) == {s \in S : FleetErrors(db, s, since, now) # {}}

-----------------------------------------------------------------------------
(* Cursor pages *)

\* Mutant: the cursor's own sample is on the next page again.
SnapshotsFromCursor(T, cursor, upper, limit) ==
    LET page == {t \in T : t >= upper - SnapshotWindow /\ (cursor = None \/ t <= cursor)}
    IN  {t \in page : Cardinality({u \in page : u > t}) < limit}

\* The newest `limit` samples before the cursor, within one window of it.
metric_snapshots(T, cursor, upper, limit) ==
    LET page == {t \in T : t >= upper - SnapshotWindow /\ (cursor = None \/ t < cursor)}
    IN  {t \in page : Cardinality({u \in page : u > t}) < limit}
=============================================================================
