------------------------------ MODULE MetricStore ------------------------------
(***************************************************************************)
(* Servers whose kernels count, agents that report the counters, and the   *)
(* charts, snapshots and error columns computed from what was stored.      *)
(* Reboots and reloaded network drivers set counters back to zero, samples *)
(* are lost, and an agent's clock may run ahead.                           *)
(*                                                                         *)
(* `real` counts the same work without ever being reset.  Each sample      *)
(* carries it along, with the number of resets so far, so that the         *)
(* properties can compare what is shown with what happened; no query reads *)
(* those fields.                                                           *)
(***************************************************************************)
EXTENDS MetricSnapshot

CONSTANTS
    Servers,
    Machine,           \* server -> [os, cores, disks, ifaces, listed]; listed: the
                       \* kinds of device of which its inventory lists any
    Inventoried,       \* servers whose inventory arrived before their first sample
    Works,             \* server -> what it may do in one reporting interval
    FirstWork,         \* the gauges of the first sample
    Boot,              \* the counters of a kernel that has just started
    Base,              \* the counters when observation begins
    StartTime,
    MaxTicks,          \* bound: reporting intervals observed
    MaxFaults,         \* bound: resets, lost samples and wrong clocks
    TimeRange, Width       \* span and bucket of the charts

HostFields == {"user", "iowait", "idle", "pages", "stall", "retrans", "oom"}
DiskFields == {"t", "ops", "iot"}
NetFields  == {"rxp", "txp", "rxd", "txd", "rxb", "txb", "err"}

Disks  == DOMAIN Boot.disk
Ifaces == DOMAIN Boot.net

\* The counters of a kernel, and what an interval may add to them and measure.
Tallies ==
    [host : [HostFields -> Nat],
     disk : [Disks -> [DiskFields -> Nat]],
     net  : [Ifaces -> [NetFields -> Nat]]]

Gauge == Nat \cup {None}

Efforts ==
    [host : [HostFields -> Nat], disk : [DiskFields -> Nat], net : [NetFields -> Nat],
     queue : Gauge, cores : Gauge, pending : Gauge, conntrack : Gauge, corrupted : Gauge,
     mem : [limit : Gauge, available : Gauge, cached : Gauge, buffered : Gauge],
     fs : [used : Nat, free : Nat \ {0}]]

\* Observation begins after the kernels have started, and a kernel starts at zero.
ASSUME StoreAssumption ==
    /\ IsFiniteSet(Servers) /\ IsFiniteSet(Disks) /\ IsFiniteSet(Ifaces)
    /\ \A s \in Servers :
          /\ Machine[s].cores \in Gauge
          /\ Machine[s].disks \subseteq Disks /\ Machine[s].ifaces \subseteq Ifaces
          /\ Machine[s].listed \subseteq {"disk", "net"}
          /\ Works[s] \subseteq Efforts
    /\ FirstWork \in Efforts /\ Base \in Tallies /\ Boot \in Tallies
    /\ \A f \in HostFields : Boot.host[f] = 0
    /\ \A d \in Disks, f \in DiskFields : Boot.disk[d][f] = 0
    /\ \A i \in Ifaces, f \in NetFields : Boot.net[i][f] = 0
    /\ StartTime \in Nat \ {0} /\ Width \in Nat \ {0}
    /\ {MaxTicks, MaxFaults, TimeRange} \subseteq Nat

VARIABLES
    now,               \* the database's clock
    kernel,            \* server -> counters of the running kernel
    real,              \* server -> the same work, never reset
    resets,            \* server -> how often counters were set back
    db,                \* server -> what is stored
    faults

vars == <<now, kernel, real, resets, db, faults>>

-----------------------------------------------------------------------------
(* The agents *)

AddAll(c, w) == [f \in DOMAIN c |-> c[f] + w[f]]

\* Counters after one more interval of work w.
Grow(k, w) ==
    [host |-> AddAll(k.host, w.host),
     disk |-> [d \in DOMAIN k.disk |-> AddAll(k.disk[d], w.disk)],
     net  |-> [i \in DOMAIN k.net |-> AddAll(k.net[i], w.net)]]

\* A kernel with these counters that started at the time b.
Started(c, b) == [host |-> c.host, disk |-> c.disk, net |-> c.net, boot |-> b]

\* The sample an agent sends: counters, gauges, the cores it counts now, and the
\* boot time.  Windows does not measure everything.
SampleOf(s, k, w, r, n) ==
    [user |-> k.host.user, idle |-> k.host.idle,
     iowait |-> IF Windows(Machine[s].os) THEN None ELSE k.host.iowait,
     paging_major |-> IF Windows(Machine[s].os) THEN None ELSE k.host.pages,
     paging_in |-> k.host.pages,
     stall |-> IF Windows(Machine[s].os) THEN None ELSE k.host.stall,
     retrans |-> k.host.retrans, oom |-> k.host.oom,
     queue |-> w.queue, cores |-> w.cores, pending |-> [d \in DOMAIN k.disk |-> w.pending],
     conntrack |-> IF Windows(Machine[s].os) THEN None ELSE w.conntrack,
     corrupted |-> w.corrupted, mem |-> w.mem,
     boot |-> k.boot, disk |-> k.disk, net |-> k.net,
     fs |-> [m \in {"data"} |-> w.fs], real |-> r, resets |-> n]

\* What an inventory says, and the placeholder of a server without one.
Inventory(s) ==
    [cores |-> Machine[s].cores, disks |-> Machine[s].disks, ifaces |-> Machine[s].ifaces,
     listed |-> Machine[s].listed]

NoInventory == [cores |-> None, disks |-> {}, ifaces |-> {}, listed |-> {}]

Init ==
    /\ now = StartTime
    /\ kernel = [s \in Servers |-> Started(Base, 0)]
    /\ real = [s \in Servers |-> Base]
    /\ resets = [s \in Servers |-> 0]
    /\ db = [s \in Servers |->
                LET known == IF s \in Inventoried THEN Inventory(s) ELSE NoInventory
                IN  [os |-> Machine[s].os, cores |-> known.cores,
                     disks |-> known.disks, ifaces |-> known.ifaces, listed |-> known.listed,
                     rows |-> [t \in {StartTime} |-> SampleOf(s, kernel[s], FirstWork, real[s], 0)]]]
    /\ faults = 0

\* ON CONFLICT DO NOTHING: a time that has a row already keeps it.
record_metrics(rows, at, r) ==
    [t \in DOMAIN rows \cup {at} |-> IF t \in DOMAIN rows THEN rows[t] ELSE r]

\* One interval of work on s; the sample is stored under `at` unless it is lost.
Worked(s, w, at) ==
    /\ now < StartTime + MaxTicks
    /\ now' = now + 1
    /\ kernel' = [kernel EXCEPT ![s] = Started(Grow(@, w), @.boot)]
    /\ real' = [real EXCEPT ![s] = Grow(@, w)]
    /\ db' = IF at = None THEN db
             ELSE [db EXCEPT ![s].rows =
                      record_metrics(@, at, SampleOf(s, kernel'[s], w, real'[s], resets[s]))]
    /\ UNCHANGED resets

Sampled(s) == \E w \in Works[s] : Worked(s, w, now + 1) /\ UNCHANGED faults

Fault == faults < MaxFaults /\ faults' = faults + 1

LostSample(s) == Fault /\ \E w \in Works[s] : Worked(s, w, None)

\* The agent's clock is ahead by more than the queries tolerate.
WrongClock(s) == Fault /\ \E w \in Works[s] : Worked(s, w, now + Skew + 2)

\* Every counter starts again at zero.
Reboot(s) ==
    /\ Fault
    /\ kernel' = [kernel EXCEPT ![s] = Started(Boot, now)]
    /\ resets' = [resets EXCEPT ![s] = @ + 1]
    /\ UNCHANGED <<now, real, db>>

\* A network driver is reloaded: only that interface starts again at zero.
DriverReload(s, i) ==
    /\ Fault
    /\ kernel' = [kernel EXCEPT ![s].net[i] = Boot.net[i]]
    /\ resets' = [resets EXCEPT ![s] = @ + 1]
    /\ UNCHANGED <<now, real, db>>

\* The first inventory counts the cores and names the physical devices.
Registered(s) ==
    /\ db[s].listed = {}
    /\ db' = [db EXCEPT ![s].cores = Machine[s].cores, ![s].listed = Machine[s].listed,
                        ![s].disks = Machine[s].disks, ![s].ifaces = Machine[s].ifaces]
    /\ UNCHANGED <<now, kernel, real, resets, faults>>

Next ==
    \E s \in Servers :
        \/ Sampled(s) \/ LostSample(s) \/ WrongClock(s) \/ Reboot(s) \/ Registered(s)
        \/ \E i \in DOMAIN Boot.net : DriverReload(s, i)

Spec == Init /\ [][Next]_vars

-----------------------------------------------------------------------------
(* Properties *)

Win == [start |-> now - TimeRange, end |-> now, width |-> Width]

ClockRight(s) == \A t, u \in Times(db, s) :
                     t < u => Row(db, s, t).real.host.idle < Row(db, s, u).real.host.idle

NoReset(s, u, t) == Row(db, s, u).resets = Row(db, s, t).resets

Sane(s) == ClockRight(s) /\ \A t \in Times(db, s) : t <= now

Did(s, u, t, f) == Row(db, s, t).real.host[f] - Row(db, s, u).real.host[f]

DidDisk(s, u, t, d, f) == Row(db, s, t).real.disk[d][f] - Row(db, s, u).real.disk[d][f]

DidNet(s, u, t, i, f) == Row(db, s, t).real.net[i][f] - Row(db, s, u).real.net[i][f]

\* KB that an interface really received per interval.
Moved(s, i, st) == DidNet(s, st[1], st[2], i, "rxb") \div (st[2] - st[1])

\* A flag that is set; an instant without the measurements has none.
Raised(flags, x) == x \in DOMAIN flags /\ flags[x]

LiveSince == now - LiveWindow

Newest(s) == Row(db, s, First(DashboardTimes(db, s, now)))

Live(s) == build_saturation_signals(db[s].os, Newest(s), latest_saturation(db, s, LiveSince, now))

\* What is shown as shares of a whole adds up.  The CPU charts of one or more
\* servers stay between 0 and 100 percent, except across a reset:
\* _trend_cpu_utilization has no boot gate, and a kernel that has by now counted
\* more than the one before it passes both of its conditions.  The live CPU share
\* has the gate and never exceeds 100, and the stacked memory bar is always
\* exactly full, even if the agent reports more cache than there is room for.
SharesAddUp ==
    /\ \A S \in (SUBSET Servers) \ {{}} : \A metric \in {"usage", "user"} :
         LET chart == _trend_cpu_utilization(db, S, metric, Win, "max")
         IN  \A b \in DOMAIN chart :
                chart[b] \in 0..100
                \/ \E x \in HostSteps(db, S, Win) : ~NoReset(x[1], x[2], x[3]) \/ ~Sane(x[1])
    /\ \A s \in Servers : LET cpu == Dashboard_cpu(db, s, now)
                          IN  cpu # None => cpu.usage \in 0..100 /\
                                            (ClockRight(s) => cpu.user \in 0..100)
    /\ \A s \in Servers : \A t \in Times(db, s) :
         LET bar == compute_mem(Row(db, s, t).mem)
             parts == {"used", "cached", "buffers", "free"}
         IN  bar # None => /\ MapThenSumSet(LAMBDA p : OrNull(bar[p]), parts) = 1000
                           /\ \A p \in parts : OrNull(bar[p]) >= 0

\* Charts do not invent load: whatever is reset between two samples, the
\* throughput drawn for a bucket, or shown live, is at most what the devices
\* really moved, paging pressure is drawn only if there were hard faults, and a
\* live stall is one that happened.
ChartsInventNoLoad ==
    \A s \in Servers : Sane(s) =>
        LET chart == _trend_rate_per_dim(db, {s}, "net", "rxb", Win)
            In(b) == {st \in Steps(Times(db, s), Win) : Bucket(st[2], Win) = b}
            Most(i, b) == Max({Moved(s, i, st) : st \in In(b)})
        IN  /\ \A b \in DOMAIN chart : chart[b] <= Total([i \in db[s].ifaces |-> Most(i, b)])
            /\ \A x \in PagingSteps(db, {s}, Win) :
                  Raised(PagingFlags(db, {s}, Win), <<s, x[3]>>) => Did(s, x[2], x[3], "pages") > 0
            /\ \A i \in DashboardDims(db, s, "net", now) : \A st \in Steps(Times(db, s), Win) :
                  st[2] = First(Times(db, s)) =>
                      OrNull(compute_rate(db, s, "net", i, "rxb", now)) <= Moved(s, i, st)
            /\ \A st \in Steps(Times(db, s), Win) :
                  st[2] = First(Times(db, s)) /\ Live(s).mem_psi = "saturated" =>
                      100 * Did(s, st[1], st[2], "stall") >=
                          PSI_STALL_DISPLAY_PCT * 1000 * Seconds(st)

\* Without a reset, a bucket shows pressure, a slow disk or congestion exactly
\* when the server had it between two samples of the window.  The fleet's
\* file-system chart has a value in every bucket since the first report, whoever
\* stays silent.
ChartsShowWhatHappened ==
    /\ LET chart == _trend_fs_usage_percent(db, Servers, Win)
       IN  \A s \in Servers : \A t \in WithLead(Times(db, s), Win) :
               \A b \in Bucket(Max({t, Win.start}), Win)..now :
                   b % Width = 0 => b \in DOMAIN chart /\ chart[b] \in 0..100
    /\ \A s \in Servers : Sane(s) =>
        \A x \in HostSteps(db, {s}, Win) : NoReset(s, x[2], x[3]) =>
            LET u == x[2]
                t == x[3]
                secs == Interval * (t - u)
                pages == Did(s, u, t, "pages")
                Disk(d, f) == DidDisk(s, u, t, d, f)
                Net(F) == Total([y \in db[s].ifaces \X F |-> DidNet(s, u, t, y[1], y[2])])
            IN  /\ Raised(PagingFlags(db, {s}, Win), <<s, t>>) <=>
                      IF Windows(db[s].os) THEN pages >= WIN_PAGES_INPUT * secs ELSE pages > 0
                /\ Raised(DiskFlags(db, {s}, Win), <<s, t>>) <=> \E d \in db[s].disks :
                      /\ Disk(d, "ops") > 0
                      /\ Disk(d, "t") > RS_DISKIO_AWAIT_MS * Disk(d, "ops")
                      /\ 100 * Disk(d, "iot") >= RS_DISKIO_UTIL_MIN_PCT * 1000 * secs
                      /\ Disk(d, "iot") <= 1000 * secs
                /\ db[s].ifaces # {} => (Raised(NetFlags(db, {s}, Win), <<s, t>>) <=>
                      \/ /\ Net({"rxb", "txb"}) >= RS_NET_MIN_TRAFFIC_KBPS * secs
                         /\ \/ Exceeds(Did(s, u, t, "retrans"), Net({"txp"}), RS_NET_RETRANS_TENTHS)
                            \/ Exceeds(Net({"rxd", "txd"}), Net({"rxp", "txp"}), RS_NET_DROP_TENTHS)
                      \/ AtLeast(Row(db, s, t).conntrack, RS_CONNTRACK_PCT))

\* The largest value of the servers' own charts in a bucket.
Worst(own, b) == Max({-1} \cup {own[s][b] : s \in {r \in Servers : b \in DOMAIN own[r]}})

Within(all, own) == \A b \in DOMAIN all : all[b] <= Worst(own, b)

CountsServers(hosts, own) ==
    \A b \in DOMAIN hosts :
        hosts[b] = Cardinality({s \in Servers : b \in DOMAIN own[s] /\ own[s][b] = 1})

\* Whoever lost packets sent or received some, as far as the charts can tell.
PacketsSent == \A s \in Servers : \A t \in Times(db, s) :
    NetRise(db, s, t, Win, {"txp"}) = 0 => RetransRise(db, s, t, Win) = 0
PacketsMoved == \A s \in Servers : \A t \in Times(db, s) :
    NetRise(db, s, t, Win, {"rxp", "txp"}) = 0 => NetRise(db, s, t, Win, {"rxd", "txd"}) = 0

\* A fleet chart is about its servers: it counts those whose own chart shows the
\* condition in that bucket, its slowest disk is the slowest of theirs, and a
\* share of the fleet is at most that of its worst server.  Ratios of packets
\* are the exception: a server whose interfaces are not in the inventory yet, or
\* whose packet counter was set back, counts in the numerator only.
FleetMatchesServers ==
    /\ CountsServers(_trend_cpu_saturation_hosts(db, Servers, Win),
                     [s \in Servers |-> _trend_cpu_saturation(db, {s}, Win)])
    /\ CountsServers(_trend_mem_paging_pressure_hosts(db, Servers, Win),
                     [s \in Servers |-> _trend_mem_paging_pressure(db, {s}, Win)])
    /\ CountsServers(_trend_disk_saturation_hosts(db, Servers, Win),
                     [s \in Servers |-> _trend_disk_saturation(db, {s}, Win)])
    /\ CountsServers(_trend_net_congested_hosts(db, Servers, Win),
                     [s \in Servers |-> _trend_net_congested(db, {s}, Win)])
    /\ LET all == _trend_disk_io_saturation(db, Servers, Win, "max")
           own == [s \in Servers |-> _trend_disk_io_saturation(db, {s}, Win, "max")]
       IN  \A b \in DOMAIN all : all[b] = Worst(own, b)
    /\ Within(_trend_cpu_utilization(db, Servers, "usage", Win, "max"),
              [s \in Servers |-> _trend_cpu_utilization(db, {s}, "usage", Win, "max")])
    /\ Within(_trend_env_scalar_weighted(db, Servers, Win, "max"),
              [s \in Servers |-> _trend_env_scalar_weighted(db, {s}, Win, "max")])
    /\ Within(_trend_psi(db, Servers, Win, "max"),
              [s \in Servers |-> _trend_psi(db, {s}, Win, "max")])
    /\ \A os \in {"linux", "windows"} :
          Within(_trend_cpu_run_queue(db, Servers, os, Win, "max"),
                 [s \in Servers |-> _trend_cpu_run_queue(db, {s}, os, Win, "max")])
    /\ PacketsSent => Within(_trend_net_retrans_percent(db, Servers, Win, "max"),
                             [s \in Servers |-> _trend_net_retrans_percent(db, {s}, Win, "max")])
    /\ PacketsMoved => Within(_trend_net_drop_percent(db, Servers, Win, "max"),
                              [s \in Servers |-> _trend_net_drop_percent(db, {s}, Win, "max")])

\* Judged by the cores of the sample, and by those of the inventory.
CpuMatches(s, t) ==
    LET raised    == Raised(CpuFlags(db, {s}, Win), <<s, t>>)
        saturated == Live(s).cpu_run_queue = "saturated"
        counted   == Row(db, s, t).cores
    IN  /\ saturated /\ Above(db[s].cores, 0) /\ Above(counted, db[s].cores - 1) => raised
        /\ raised /\ Above(counted, 0) /\ ~Above(counted, db[s].cores) => saturated

\* Both see the two newest samples, taken at u and t.
RatesMatch(s, u, t) ==
    LET live == Live(s)
        sat == latest_saturation(db, s, LiveSince, now)
        slow == Raised(DiskFlags(db, {s}, Win), <<s, t>>)
        OnLine(r, tenths) == r # None /\ 1000 * r[1] = tenths * r[2]
    IN  /\ live.mem_paging = "saturated" <=> Raised(PagingFlags(db, {s}, Win), <<s, t>>)
        /\ slow => live.disk_await = "saturated"
        /\ /\ live.disk_await = "saturated" /\ sat.awaits # {}
           /\ \A a \in sat.awaits : a[1] # RS_DISKIO_AWAIT_MS * a[2]
           => slow
        /\ /\ db[s].ifaces = Ifaces /\ Ifaces # {}
           /\ NoReset(s, u, t) /\ EnoughTraffic(db, s, t, Win)
           /\ ~OnLine(sat.retrans, RS_NET_RETRANS_TENTHS) /\ ~OnLine(sat.drop, RS_NET_DROP_TENTHS)
           => ("saturated" \in {live.net_retrans, live.net_drop, live.net_conntrack}
                 <=> Raised(NetFlags(db, {s}, Win), <<s, t>>))

\* What the live signals of a server say of its newest sample is what its charts
\* say of it.  The CPU is judged by the cores of the sample on the card and by
\* those of the inventory in the charts: they agree if the counts do, and if they
\* differ, whoever counts fewer cores is the stricter.  The other signals agree
\* if the sample before the newest is inside the live window, with the exceptions
\* of the code: a value on the line (the card counts it, the charts do not), the
\* queue length that Windows is judged by when no disk was busy (the charts have
\* no such fallback), the network of a server with little traffic (only the
\* charts ignore it) and a reset of one interface (the card does not see it).
SnapshotMatchesCharts ==
    \A s \in Servers : Sane(s) => \A x \in HostSteps(db, {s}, Win) :
        x[3] = Max(Times(db, s)) =>
            CpuMatches(s, x[3]) /\ (x[2] >= LiveSince => RatesMatch(s, x[2], x[3]))

Since == now - TimeRange

\* The error indicators of a server's page and the fleet's columns agree, but for
\* damaged memory, where the page shows the newest value (and believes a sample
\* from the future) and the fleet the largest one.  An OOM kill that is shown
\* happened in the window, unless counters were set back in it.
ErrorsAgree ==
    LET Page(s) == build_error_signals(latest_errors(db, s, Since, now), db[s].os)
        Shown(kinds) == {s \in Servers : Page(s) \cap kinds # {}}
    IN
    /\ \A k \in {"mem_oom", "net_errors"} :
          fleet_error_summary(db, Servers, Since, now)[k] = Cardinality(Shown({k}))
    /\ Shown({"mem_oom", "net_errors"}) \subseteq fleet_error_hosts(db, Servers, Since, now)
    /\ \A s \in Servers :
        LET page  == Page(s)
            fleet == FleetErrors(db, s, Since, now)
            T     == Recent(Times(db, s), Since, now)
        IN  /\ page \ {"mem_corrupted"} = fleet \ {"mem_corrupted"}
            /\ "mem_corrupted" \in page =>
                  "mem_corrupted" \in fleet \/ \E t \in Times(db, s) : t > now + Skew
            /\ "mem_oom" \in page =>
                  \E t, u \in T : Did(s, t, u, "oom") > 0 \/ ~NoReset(s, t, u)

\* The cursors after n pages, None at the end.
CursorAfter(T, limit) ==
    LET cur[n \in Nat] ==
            IF n = 0 THEN now
            ELSE IF cur[n - 1] = None THEN None
            ELSE LET page == metric_snapshots(T, IF n = 1 THEN None ELSE cur[n - 1], cur[n - 1], limit)
                 IN  IF page = {} THEN None ELSE Min(page)
    IN  cur

\* Following the cursor of metric_snapshots reaches every sample, or stops in
\* front of a silence longer than the window of one page.
PagesStopOnlyAtAGap ==
    \A s \in Servers : \A limit \in 1..2 :
        LET T == Times(db, s)
            pages == {n \in 0..(Cardinality(T) + 1) : CursorAfter(T, limit)[n] # None}
            last == CursorAfter(T, limit)[Max(pages)]
        IN  \A t \in T : t < last => last - t > SnapshotWindow
=============================================================================
