------------------------------ MODULE RightSizing ------------------------------
(***************************************************************************)
(* The right-sizing policy of recommendation.py: five resources of a host  *)
(* are judged from the statistics of the observation window, and the five  *)
(* judgements are rolled up into one host status and a root cause.         *)
(*                                                                         *)
(* A host's statistics (class ResourceStats) are a record; None is an axis *)
(* that was not measured.  Percentages, kB/s, days and MB are integers;    *)
(* ratios are percent (conntrack, sample sufficiency) or tenths            *)
(* (retransmission and drop percent, burst ratio).                         *)
(***************************************************************************)
EXTENDS Integers, FiniteSets, FiniteSetsExt

CONSTANT None            \* Python's None: an axis that was not measured

Kinds == {"cpu", "memory", "disk_capacity", "disk_io", "network"}

ASSUME NoneAssumption == None \notin Int \cup BOOLEAN /\ None \notin Kinds

-----------------------------------------------------------------------------
(* Thresholds *)

IDLE_CPU_P95_PCT          == 3
IDLE_NET_MBPS             == 2
IDLE_DISK_IOPS            == 5
RS_CPU_UNDER_PCT          == 70
RS_CPU_SIZING_TARGET_PCT  == 70
RS_CPU_PERCORE_HOLD_PCT   == 85
RS_CPU_STEAL_BIAS_PCT     == 5
RS_MEM_UNDER_PCT          == 90
RS_MEM_SIZING_TARGET_PCT  == 80
RS_MEM_HEADROOM_PCT       == 30
RS_DISK_RUNWAY_DAYS       == 30
RS_DISK_STATIC_GUARD_PCT  == 85
RS_DISKIO_AWAIT_MS        == 20
RS_NET_RETRANS_TENTHS     == 10
RS_NET_DROP_TENTHS        == 5
RS_NET_MIN_TRAFFIC_KBPS   == 10
RS_CONNTRACK_PCT          == 80
RS_CONFIDENCE_MIN_HOURS   == 30
RS_DOWNSIZE_MIN_PCT       == 70
RS_BURST_RATIO_TENTHS     == 20
WIN_PAGES_INPUT           == 20
DISK_QUEUE_PER_DISK       == 2
PROCS_BLOCKED_DSTATE      == 1

Ceil(a, b) == (a + b - 1) \div b

AtLeast(x, line) == x # None /\ x >= line
Above(x, line)   == x # None /\ x > line
Below(x, line)   == x # None /\ x < line

Known(S) == {x \in S : x # None}

-----------------------------------------------------------------------------
(* Saturation *)

Windows(os) == os = "windows"

\* Run queue per core at which a CPU is saturated.
SatLine(os) == IF Windows(os) THEN 2 ELSE 1

RunQueueValue(s) == IF Windows(s.os_family) THEN s.cpu_run_queue ELSE s.procs_running

NoCores(s) == s.cpu_cores = None \/ s.cpu_cores <= 0

\* A busy run queue counts only if the CPU is busy too, or was not measured.
cpu_saturated(s) ==
    IF NoCores(s) \/ RunQueueValue(s) = None
    THEN None
    ELSE /\ RunQueueValue(s) >= SatLine(s.os_family) * s.cpu_cores
         /\ s.cpu_p95 = None \/ s.cpu_p95 >= RS_CPU_UNDER_PCT

disk_io_saturated(s) ==
    IF s.disk_await # None
    THEN s.disk_await > RS_DISKIO_AWAIT_MS
    ELSE IF Windows(s.os_family) /\ s.disk_queue # None
         THEN s.disk_queue >= DISK_QUEUE_PER_DISK
         ELSE None

\* High utilisation and paging together; either alone is normal.
mem_saturated(s) ==
    IF s.mem_p95 = None THEN None
    ELSE IF s.mem_p95 < RS_MEM_UNDER_PCT THEN FALSE
    ELSE IF ~Windows(s.os_family) THEN s.swap_paging
    ELSE IF s.mem_pages_input = None THEN None
    ELSE s.mem_pages_input >= WIN_PAGES_INPUT

\* The live indices of the dashboard, in percent of the line.
cpu_saturation_index(queue, cores, os) ==
    IF queue = None \/ cores = None \/ cores = 0
    THEN None
    ELSE (100 * queue) \div (cores * SatLine(os))

disk_io_saturation_index(await, queue, os) ==
    IF await # None
    THEN (100 * await) \div RS_DISKIO_AWAIT_MS
    ELSE IF Windows(os) /\ queue # None
         THEN (100 * queue) \div DISK_QUEUE_PER_DISK
         ELSE None

mem_pressure_active(rate, os) ==
    rate # None /\ (IF Windows(os) THEN rate >= WIN_PAGES_INPUT ELSE rate > 0)

\* Too little traffic for a retransmission or drop ratio to mean anything.
LowTraffic(net) == Below(net, RS_NET_MIN_TRAFFIC_KBPS)

\* Mutant: little traffic is judged like any.
NetSignalUngated(retrans, drop, conntrack, net) ==
    \/ Above(retrans, RS_NET_RETRANS_TENTHS)
    \/ Above(drop, RS_NET_DROP_TENTHS)
    \/ AtLeast(conntrack, RS_CONNTRACK_PCT)

net_signal_active(retrans, drop, conntrack, net) ==
    \/ ~LowTraffic(net) /\ Above(retrans, RS_NET_RETRANS_TENTHS)
    \/ ~LowTraffic(net) /\ Above(drop, RS_NET_DROP_TENTHS)
    \/ AtLeast(conntrack, RS_CONNTRACK_PCT)

-----------------------------------------------------------------------------
(* Confidence in a judgement, and the judgement of one resource *)

PrecisionLow(s) ==
    \/ Below(s.history, RS_CONFIDENCE_MIN_HOURS)
    \/ Above(s.burst, RS_BURST_RATIO_TENTHS)

\* A utilisation trend says something about cpu and memory only.
BaseConfidence(s, biased, utilBearing) ==
    [low_precision |-> PrecisionLow(s),
     coverage_gap  |-> FALSE,
     biased        |-> biased,
     nonstationary |-> utilBearing /\ s.rising = TRUE]

Gap(conf, missing) == [conf EXCEPT !.coverage_gap = missing]

HighConfidence(conf) == ~(conf.low_precision \/ conf.coverage_gap \/ conf.biased)

Judged(status, triggers, target, floor, conf) ==
    [status |-> status, triggers |-> triggers, target |-> target,
     floor |-> floor, conf |-> conf]

Plain(status, conf) == Judged(status, {}, None, None, conf)

Fired(named) == {t \in DOMAIN named : named[t]}

-----------------------------------------------------------------------------
(* CPU *)

\* Mutant: sized for full utilisation.
CpuTargetFull(s, saturated) ==
    Max({1, Ceil((IF s.cpu_p95 = None THEN 0 ELSE s.cpu_p95) * s.cpu_cores, 100)})

\* 70 % utilisation, and on a saturated host 0.7 of the run-queue line.
CpuTargetCores(s, saturated) ==
    LET util  == IF s.cpu_p95 = None THEN 0 ELSE s.cpu_p95
        queue == RunQueueValue(s)
    IN  Max({1,
             IF util > 0 THEN Ceil(util * s.cpu_cores, RS_CPU_SIZING_TARGET_PCT) ELSE 1,
             IF saturated /\ Above(queue, 0)
             THEN Ceil(10 * queue, 7 * SatLine(s.os_family)) ELSE 0})

PercoreBusy(s) == AtLeast(s.percore_max, RS_CPU_PERCORE_HOLD_PCT)

assess_cpu(s) ==
    LET sat      == cpu_saturated(s)
        conf     == Gap(BaseConfidence(s, AtLeast(s.steal, RS_CPU_STEAL_BIAS_PCT), TRUE),
                        sat = None \/ s.cpu_p95 = None)
        triggers == Fired([cpu_util       |-> AtLeast(s.cpu_p95, RS_CPU_UNDER_PCT),
                           cpu_saturation |-> sat = TRUE])
        target   == CpuTargetCores(s, sat = TRUE)
    IN  IF (s.cpu_p95 = None /\ sat # TRUE) \/ NoCores(s)
        THEN Plain("unmeasured", conf)
        ELSE IF triggers # {} \/ target > s.cpu_cores
        THEN IF target > s.cpu_cores
             THEN Judged("under", triggers, target, None, conf)
             ELSE Judged("under", triggers, None, s.cpu_cores + 1, conf)
        ELSE IF target < s.cpu_cores /\ ~PercoreBusy(s)
        THEN Judged("over", {}, target, None, conf)
        ELSE Judged("optimal", {}, s.cpu_cores, None, conf)

-----------------------------------------------------------------------------
(* Memory *)

MemTargetMb(peak, total) ==
    IF total = None \/ peak <= 0 THEN None
    ELSE Ceil(total * peak, RS_MEM_SIZING_TARGET_PCT)

MemPagingActive(s) == mem_saturated(s) = TRUE

WithHeadroom(total) ==
    IF total = None THEN None ELSE Ceil(total * (100 + RS_MEM_HEADROOM_PCT), 100)

\* Mutant: memory pressure does not count.
MemWithoutHeadroom(utilTarget, s) == utilTarget

\* The larger of the utilisation target and, under pressure, current + 30 %.
MemUnderTarget(utilTarget, s) ==
    LET headroom   == IF MemPagingActive(s) \/ s.oom THEN WithHeadroom(s.mem_total) ELSE None
        candidates == Known({utilTarget, headroom})
    IN  IF candidates = {} THEN None
        ELSE IF s.mem_total = None \/ Max(candidates) > s.mem_total
             THEN Max(candidates) ELSE None

assess_memory(s) ==
    LET conf     == BaseConfidence(s, FALSE, TRUE)
        triggers == Fired([mem_util       |-> AtLeast(s.mem_p95, RS_MEM_UNDER_PCT),
                           mem_saturation |-> MemPagingActive(s),
                           mem_oom        |-> s.oom])
        peak     == IF s.near_peak # None THEN s.near_peak ELSE s.mem_p95
        target   == MemTargetMb(peak, s.mem_total)
        up       == MemUnderTarget(target, s)
    IN  IF s.mem_p95 = None
        THEN IF s.oom
             THEN Judged("under", {"mem_oom"}, None, WithHeadroom(s.mem_total), conf)
             ELSE Plain("unmeasured", Gap(conf, TRUE))
        ELSE IF triggers # {}
        THEN Judged("under", triggers, up, IF up = None THEN WithHeadroom(s.mem_total) ELSE None, conf)
        ELSE IF Above(s.mem_total, 0) /\ Above(target, 0) /\ target < s.mem_total
        THEN Judged("over", {}, target, None, conf)
        ELSE Judged("optimal", {}, s.mem_total, None, conf)

-----------------------------------------------------------------------------
(* Disk capacity, disk I/O, network *)

MinRunway(runways) == IF Known(runways) = {} THEN None ELSE Min(Known(runways))

\* A full file system whose trend gives no date.
StaticallyFull(runway, used) == runway = None /\ AtLeast(used, RS_DISK_STATIC_GUARD_PCT)

assess_disk_capacity(s) ==
    LET conf    == BaseConfidence(s, FALSE, FALSE)
        runway  == MinRunway({s.runway, s.inode_runway})
        target  == IF AtLeast(s.target_gb, 1) THEN s.target_gb ELSE None
        Filling(gb) == Judged("filling", {"disk_capacity"}, gb, None, conf)
    IN  IF Below(runway, RS_DISK_RUNWAY_DAYS)
        THEN Filling(IF runway = s.runway THEN target ELSE None)
        ELSE IF StaticallyFull(s.runway, s.disk_used) THEN Filling(target)
        ELSE IF StaticallyFull(s.inode_runway, s.inode_used) THEN Filling(None)
        ELSE IF runway = None /\ s.disk_used = None /\ s.inode_used = None
        THEN Plain("unmeasured", Gap(conf, TRUE))
        ELSE Plain("capacity_ok", conf)

assess_disk_io(s) ==
    LET conf == BaseConfidence(s, TRUE, FALSE)
        sat  == disk_io_saturated(s)
    IN  CASE sat = TRUE  -> Judged("io_bound", {"disk_io"}, None, None, conf)
          [] sat = FALSE -> Plain("io_ok", conf)
          [] sat = None /\ s.disk_iops # None -> Plain("io_ok", conf)
          [] OTHER -> Plain("unmeasured", Gap(conf, TRUE))

assess_network(s) ==
    LET conf     == BaseConfidence(s, FALSE, FALSE)
        ratios   == ~LowTraffic(s.net_avg)
        triggers == Fired([net_retrans   |-> ratios /\ Above(s.retrans, RS_NET_RETRANS_TENTHS),
                           net_drop      |-> ratios /\ Above(s.drop, RS_NET_DROP_TENTHS),
                           net_conntrack |-> AtLeast(s.conntrack, RS_CONNTRACK_PCT)])
    IN  IF triggers # {} THEN Judged("congested", triggers, None, None, conf)
        ELSE IF Known({s.retrans, s.drop, s.conntrack}) = {}
        THEN Plain("unmeasured", Gap(conf, TRUE))
        ELSE Plain("quality_ok", conf)

-----------------------------------------------------------------------------
(* The host *)

Resources(s) ==
    [cpu |-> assess_cpu(s), memory |-> assess_memory(s),
     disk_capacity |-> assess_disk_capacity(s),
     disk_io |-> assess_disk_io(s), network |-> assess_network(s)]

\* Only what more capacity can fix; io_bound and congested are advice.
UnderKinds(res) == {k \in Kinds : res[k].status \in {"under", "filling"}}

\* No CPU, network or disk activity worth the name; unmeasured disk I/O does not count.
Quiescent(s) ==
    /\ s.cpu_p95 # None /\ s.cpu_p95 <= IDLE_CPU_P95_PCT
    /\ s.net_avg # None /\ s.net_avg * 8 <= IDLE_NET_MBPS * 1000
    /\ ~Above(s.disk_iops, IDLE_DISK_IOPS)

\* Mutant: a disk bottleneck makes the host short of resources.
HostStatusWithIo(s, res) ==
    IF UnderKinds(res) # {} \/ res.disk_io.status = "io_bound" THEN "under"
    ELSE IF res.cpu.status = "unmeasured" /\ res.memory.status = "unmeasured"
    THEN "insufficient"
    ELSE IF Quiescent(s) THEN "idle"
    ELSE IF "over" \in {res.cpu.status, res.memory.status} THEN "over"
    ELSE "optimal"

\* Mutant: a disk bottleneck is blamed for a busy CPU and a full memory.
HostStatusOfCauses(s, res) ==
    IF UnderKinds(res) \ (IF res.disk_io.status = "io_bound" THEN {"cpu", "memory"} ELSE {}) # {}
    THEN "under"
    ELSE IF Quiescent(s) THEN "idle" ELSE "optimal"

HostStatus(s, res) ==
    IF UnderKinds(res) # {} THEN "under"
    ELSE IF res.cpu.status = "unmeasured" /\ res.memory.status = "unmeasured"
    THEN "insufficient"
    ELSE IF Quiescent(s) THEN "idle"
    ELSE IF "over" \in {res.cpu.status, res.memory.status} THEN "over"
    ELSE "optimal"

MemoryDriven(s, res) ==
    /\ res.memory.status = "under" /\ MemPagingActive(s)
    /\ res.disk_io.status = "io_bound" \/ res.cpu.status = "under"

DiskDriven(s, res) ==
    /\ res.disk_io.status = "io_bound" /\ res.cpu.status = "under"
    /\ AtLeast(s.procs_blocked, PROCS_BLOCKED_DSTATE)

RootCause(s, res) ==
    LET under == UnderKinds(res)
    IN  IF MemoryDriven(s, res) THEN "memory"
        ELSE IF DiskDriven(s, res) THEN "disk_io"
        ELSE CASE "memory" \in under -> "memory"
               [] "memory" \notin under /\ "cpu" \in under -> "cpu"
               [] under = {"disk_capacity"} -> "disk_capacity"
               [] OTHER -> None

Symptoms(s, res) ==
    IF MemoryDriven(s, res)
    THEN {k \in {"disk_io", "cpu"} : k \in UnderKinds(res) \/ res[k].status = "io_bound"}
    ELSE IF DiskDriven(s, res) THEN {"cpu"} \cap UnderKinds(res)
    ELSE {}

rollup_host(s) ==
    LET res == Resources(s)
    IN  [resources |-> res, host_status |-> HostStatus(s, res),
         root_cause |-> RootCause(s, res), symptoms |-> Symptoms(s, res),
         network_congested |-> res.network.status = "congested",
         sufficiency |-> s.sufficiency]

\* The root-cause column: what it names first, and what it says that causes.
root_cause_display(host) ==
    LET under == UnderKinds(host.resources)
    IN  IF under = {} THEN [root |-> {}, causes |-> {}]
        ELSE IF host.symptoms # {} /\ host.root_cause # None
        THEN [root |-> {host.root_cause}, causes |-> host.symptoms]
        ELSE [root |-> under, causes |-> {}]

host_saturation_unmeasured(host) ==
    \E k \in {"cpu", "memory", "disk_io"} : host.resources[k].conf.coverage_gap

\* A smaller size is prescribed only on solid, stationary and sufficient data.
downsize_prescribable(a, s) ==
    /\ a.status = "over"
    /\ HighConfidence(a.conf)
    /\ ~a.conf.nonstationary
    /\ AtLeast(s.sufficiency, RS_DOWNSIZE_MIN_PCT)

is_idle_strong(s) ==
    /\ s.cpu_peak # None /\ s.cpu_peak <= 1
    /\ s.net_avg # None /\ s.net_avg <= 1

\* The action column of a host that is not under-provisioned.
recommend_action(status, s) ==
    CASE status = "idle" /\ is_idle_strong(s)  -> "shut down"
      [] status = "idle" /\ ~is_idle_strong(s) -> "consolidate"
      [] status = "over"         -> "downsize"
      [] status = "optimal"      -> "keep"
      [] status = "insufficient" -> "observe"
      [] status = "under"        -> "upsize"
=============================================================================
