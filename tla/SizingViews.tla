------------------------------ MODULE SizingViews ------------------------------
(***************************************************************************)
(* One server's row of the observation window and everything that is said  *)
(* about it: the report row, the single-server card, /api/right-sizing and *)
(* /api/assessment.  All of them go through build_resource_stats and       *)
(* rollup_host; this module checks that they then say the same thing, and  *)
(* that what they prescribe is safe to follow.                             *)
(*                                                                         *)
(* `row` is what report_aggregate returns (ReportRowRaw), `mounts` the     *)
(* history of the server's mounts.  A step is a new window in which one    *)
(* column has changed, or the operator resizing the host as told.          *)
(***************************************************************************)
EXTENDS DiskCapacity, TLC

CONSTANTS
    Columns,        \* column of the row -> the values it may take
    StartRows,      \* rows of hosts that are in some usual condition
    MountNames,     \* the server's mounts
    MountStates,    \* the histories a mount may have
    FirstMount,     \* the history all mounts start with
    MaxChanged      \* bound: columns in which a row differs from its start

Measure == Nat \cup {None}

Counts == {"cpu_p95", "cpu_peak", "cpu_cores", "procs_running", "cpu_run_queue", "percore_max",
           "steal", "mem_p95", "mem_peak", "mem_total", "near_peak", "mem_pages_input",
           "disk_await", "disk_iops", "procs_blocked", "net_rx", "net_tx", "retrans", "drop",
           "conntrack", "history", "burst", "cpu_suff", "mem_suff"}
Slopes == {"cpu_slope", "mem_slope"}
Flags  == {"swap_paging", "oom"}

RowColumns == Counts \cup Slopes \cup Flags \cup {"os_family"}

ColumnType(c) ==
    IF c \in Counts THEN Measure
    ELSE IF c \in Slopes THEN Int \cup {None}
    ELSE IF c \in Flags THEN BOOLEAN ELSE STRING \cup {None}

\* class ReportRowRaw: what was not measured is None.
IsRow(r) == DOMAIN r = RowColumns /\ \A c \in RowColumns : r[c] \in ColumnType(c)

\* 95th percentiles over the same buckets, of their averages and of their maxima.
PeakCovers(r) == r.mem_p95 # None /\ r.near_peak # None => r.near_peak >= r.mem_p95

\* The rows of mount_span and mount_max_raw for one mount.
IsMount(m) ==
    /\ m.total \in Measure /\ m.span \in Nat
    /\ {m.free_first, m.free_last, m.inode_first, m.inode_last} \subseteq Int
    /\ {m.used_max, m.inode_max, m.inode_ever} \subseteq 0..100 \cup {None}

ASSUME SizingAssumption ==
    /\ \A r \in StartRows : IsRow(r) /\ PeakCovers(r)
    /\ \A c \in DOMAIN Columns : c \in RowColumns /\ Columns[c] \subseteq ColumnType(c)
    /\ \A m \in MountStates \cup {FirstMount} : IsMount(m)

VARIABLES
    row,            \* ReportRowRaw, disk capacity apart
    mounts,         \* MountNames -> history
    start,          \* the row the host started from
    resized,        \* whether the operator has followed the prescription
    report,         \* statistics and judgement behind the report
    api             \* statistics and judgement behind the APIs

vars == <<row, mounts, start, resized, report, api>>

-----------------------------------------------------------------------------
(* build_resource_stats *)

OrZero(x) == IF x = None THEN 0 ELSE x

RS_RISING_TENTHS == 2

util_trend_rising_from_slopes(cpu, mem) ==
    IF Known({cpu, mem}) = {} THEN None
    ELSE \E s \in Known({cpu, mem}) : s >= RS_RISING_TENTHS

\* The report passes the disk activity it measured; other callers pass None.
build_resource_stats(r, ms, diskBaseline) ==
    LET disk == HostDisk({ms[m] : m \in DOMAIN ms})
        net  == IF Known({r.net_rx, r.net_tx}) = {} THEN None
                ELSE OrZero(r.net_rx) + OrZero(r.net_tx)
        suff == Least({IF r.cpu_p95 = None THEN None ELSE r.cpu_suff,
                       IF r.mem_p95 = None THEN None ELSE r.mem_suff})
        rise == IF AtLeast(r.history, RS_CONFIDENCE_MIN_HOURS)
                THEN util_trend_rising_from_slopes(r.cpu_slope, r.mem_slope) ELSE None
    IN  [os_family |-> r.os_family, cpu_p95 |-> r.cpu_p95, cpu_peak |-> r.cpu_peak,
         cpu_cores |-> r.cpu_cores, procs_running |-> r.procs_running,
         cpu_run_queue |-> r.cpu_run_queue, percore_max |-> r.percore_max, steal |-> r.steal,
         mem_p95 |-> r.mem_p95, mem_total |-> r.mem_total, near_peak |-> r.near_peak,
         swap_paging |-> r.swap_paging, mem_pages_input |-> r.mem_pages_input, oom |-> r.oom,
         disk_await |-> r.disk_await, disk_iops |-> diskBaseline, disk_queue |-> None,
         procs_blocked |-> r.procs_blocked, retrans |-> r.retrans, drop |-> r.drop,
         conntrack |-> r.conntrack, history |-> r.history, burst |-> r.burst,
         net_avg |-> net, sufficiency |-> suff, rising |-> rise,
         runway |-> disk.runway, inode_runway |-> disk.inode_runway,
         disk_used |-> disk.disk_used, inode_used |-> disk.inode_used,
         target_gb |-> disk.target_gb]

Judge(stats) == [stats |-> stats, host |-> rollup_host(stats)]

ReportJudges(r, ms) == Judge(build_resource_stats(r, ms, r.disk_iops))
ApiJudges(r, ms)    == Judge(build_resource_stats(r, ms, None))

-----------------------------------------------------------------------------
(* shared.py: confidence notes and the saturation blocks *)

build_host_confidence_notes(host) ==
    Fired([saturation_unmeasured |-> host_saturation_unmeasured(host),
           few_samples |-> \E k \in Kinds : host.resources[k].conf.low_precision,
           window_not_covered |-> Below(host.sufficiency, RS_DOWNSIZE_MIN_PCT)])

\* Value and threshold as the API prints them, in hundredths of the unit.
\* The CPU value is cpu_saturation_index, already divided by the threshold.
saturation_block(kind, s) ==
    CASE kind = "cpu" ->
           [value |-> cpu_saturation_index(RunQueueValue(s), s.cpu_cores, s.os_family),
            threshold |-> 100 * SatLine(s.os_family), saturated |-> cpu_saturated(s)]
      [] kind = "memory" /\ Windows(s.os_family) ->
           [value |-> IF s.mem_pages_input = None THEN None ELSE 100 * s.mem_pages_input,
            threshold |-> 100 * WIN_PAGES_INPUT, saturated |-> mem_saturated(s)]
      [] kind = "memory" /\ ~Windows(s.os_family) ->
           [value |-> None, threshold |-> None, saturated |-> mem_saturated(s)]
      [] kind = "disk_io" ->
           [value |-> IF s.disk_await = None THEN None ELSE 100 * s.disk_await,
            threshold |-> 100 * RS_DISKIO_AWAIT_MS, saturated |-> disk_io_saturated(s)]

\* The single gate of the cards: the signal alone, without utilisation.
SignalCrossed(kind, s) ==
    CASE kind = "cpu" -> /\ RunQueueValue(s) # None /\ Above(s.cpu_cores, 0)
                         /\ RunQueueValue(s) >= SatLine(s.os_family) * s.cpu_cores
      [] kind = "memory" -> IF Windows(s.os_family)
                            THEN AtLeast(s.mem_pages_input, WIN_PAGES_INPUT)
                            ELSE s.swap_paging
      [] kind = "disk_io" -> Above(s.disk_await, RS_DISKIO_AWAIT_MS)

-----------------------------------------------------------------------------
(* period_assessment.py: which rows of the card are flagged *)

\* Mutant: the inode rows are never flagged.
FlagsWithoutInodes(s) ==
    Fired([cpu_util      |-> AtLeast(s.cpu_p95, RS_CPU_UNDER_PCT),
           cpu_queue     |-> SignalCrossed("cpu", s),
           mem_util      |-> AtLeast(s.mem_p95, RS_MEM_UNDER_PCT),
           mem_paging    |-> SignalCrossed("memory", s),
           mem_oom_error |-> s.oom,
           disk_used     |-> AtLeast(s.disk_used, RS_DISK_STATIC_GUARD_PCT),
           disk_runway   |-> Below(s.runway, RS_DISK_RUNWAY_DAYS),
           disk_await    |-> SignalCrossed("disk_io", s),
           net_retrans   |-> AtLeast(s.retrans, RS_NET_RETRANS_TENTHS),
           net_drop      |-> AtLeast(s.drop, RS_NET_DROP_TENTHS),
           net_conntrack |-> AtLeast(s.conntrack, RS_CONNTRACK_PCT)])

PeriodFlags(s) ==
    Fired([cpu_util      |-> AtLeast(s.cpu_p95, RS_CPU_UNDER_PCT),
           cpu_queue     |-> SignalCrossed("cpu", s),
           mem_util      |-> AtLeast(s.mem_p95, RS_MEM_UNDER_PCT),
           mem_paging    |-> SignalCrossed("memory", s),
           mem_oom_error |-> s.oom,
           disk_used     |-> AtLeast(s.disk_used, RS_DISK_STATIC_GUARD_PCT),
           disk_runway   |-> Below(s.runway, RS_DISK_RUNWAY_DAYS),
           inode_runway  |-> Below(s.inode_runway, RS_DISK_RUNWAY_DAYS),
           inode_used    |-> AtLeast(s.inode_used, RS_DISK_STATIC_GUARD_PCT),
           disk_await    |-> SignalCrossed("disk_io", s),
           net_retrans   |-> AtLeast(s.retrans, RS_NET_RETRANS_TENTHS),
           net_drop      |-> AtLeast(s.drop, RS_NET_DROP_TENTHS),
           net_conntrack |-> AtLeast(s.conntrack, RS_CONNTRACK_PCT)])

CardRows ==
    [cpu |-> {"cpu_util", "cpu_queue"},
     memory |-> {"mem_util", "mem_paging", "mem_oom_error"},
     disk_capacity |-> {"disk_used", "disk_runway", "inode_runway", "inode_used"},
     disk_io |-> {"disk_await"},
     network |-> {"net_retrans", "net_drop", "net_conntrack"}]

-----------------------------------------------------------------------------
(* report.py: the diagnosis column *)

\* Peak over p95 in tenths; fires only above the low-load floor.
Bursty(peak, p95, floor) == Above(p95, 0) /\ Above(peak, floor) /\ 10 * peak >= 15 * p95

_build_diagnosis(host, r) ==
    LET res == host.resources
    IN  IF res.memory.status = "under" /\ res.memory.triggers \cap {"mem_saturation", "mem_oom"} # {}
        THEN "memory short"
        ELSE IF res.disk_io.status = "io_bound" THEN "disk I/O bottleneck"
        ELSE IF "cpu_saturation" \in res.cpu.triggers THEN "cpu saturated"
        ELSE IF "mem_util" \in res.memory.triggers THEN "memory pressure"
        ELSE IF "cpu_util" \in res.cpu.triggers THEN "cpu pressure"
        ELSE IF res.disk_capacity.status = "filling" THEN "disk filling"
        ELSE IF host.network_congested THEN "network congested"
        ELSE IF Bursty(r.cpu_peak, r.cpu_p95, 30) \/ Bursty(r.mem_peak, r.mem_p95, 50) THEN "bursty"
        ELSE IF host.host_status = "idle" THEN "hardly used"
        ELSE IF host.host_status = "over" THEN "room to spare"
        ELSE "normal"

\* A host without cpu and memory statistics is explained by what is missing.
Diagnosis(host, r) ==
    IF host.host_status = "insufficient" THEN "insufficient" ELSE _build_diagnosis(host, r)

-----------------------------------------------------------------------------
(* right_sizing_api.py *)

Action(kind, op, a) == [resource |-> kind, op |-> op, target |-> a.target]

RightSizingActions(host, s) ==
    LET res == host.resources
        io  == IF res.disk_io.status = "io_bound"
               THEN {Action("disk_io", "tier_up", res.disk_io)} ELSE {}
    IN  io \cup
        CASE host.host_status = "under" ->
               {Action(k, "increase", res[k]) : k \in UnderKinds(res)}
          [] host.host_status = "over" ->
               {Action(k, "decrease", res[k]) :
                   k \in {j \in {"cpu", "memory"} :
                             downsize_prescribable(res[j], s) /\ res[j].target # None}}
          [] OTHER -> {}

\* The network block prints each signal against its line, without the traffic gate.
NetSignalsExceeded(r) ==
    Fired([retransmit |-> Above(r.retrans, RS_NET_RETRANS_TENTHS),
           drop       |-> Above(r.drop, RS_NET_DROP_TENTHS),
           conntrack  |-> AtLeast(r.conntrack, RS_CONNTRACK_PCT)])

-----------------------------------------------------------------------------
(* assessment_api.py *)

\* Mutant: a smaller size is recommended whatever the confidence.
AxisUngated(current, a, s) ==
    [current |-> current,
     recommended |-> IF a.target # None THEN a.target ELSE IF a.floor # None THEN a.floor ELSE current,
     action |-> IF a.status = "under" THEN "increase" ELSE IF a.status = "over" THEN "decrease" ELSE "keep",
     quality |-> "exact"]

AxisSize(current, a, s) ==
    LET Axis(rec, action, quality) ==
            [current |-> current, recommended |-> rec, action |-> action, quality |-> quality]
    IN  CASE a.status = "under" /\ a.target # None -> Axis(a.target, "increase", "exact")
          [] a.status = "under" /\ a.target = None /\ a.floor # None ->
               Axis(a.floor, "increase", "floor")
          [] a.status = "over" /\ downsize_prescribable(a, s) /\ a.target # None ->
               Axis(a.target, "decrease", "exact")
          [] a.status = "unmeasured" \/ (a.status = "under" /\ a.target = None /\ a.floor = None) ->
               Axis(current, "keep", "uncertain")
          [] OTHER -> Axis(current, "keep", "exact")

\* An axis without a known size is left out.
CpuAxis(host, s) ==
    IF s.cpu_cores = None THEN None ELSE AxisSize(s.cpu_cores, host.resources.cpu, s)

MemoryAxis(host, s) ==
    IF s.mem_total = None THEN None ELSE AxisSize(s.mem_total, host.resources.memory, s)

MountAxes(ms) == {assess_mount_capacity(ms[m]) : m \in DOMAIN ms} \ {None}

AssessmentConfidence(host) ==
    IF host.host_status = "insufficient" THEN "low"
    ELSE IF build_host_confidence_notes(host) # {} THEN "medium" ELSE "high"

-----------------------------------------------------------------------------
(* The windows a server goes through *)

Init ==
    /\ row \in StartRows
    /\ start = row
    /\ mounts = [m \in MountNames |-> FirstMount]
    /\ resized = FALSE
    /\ report = ReportJudges(row, mounts)
    /\ api = ApiJudges(row, mounts)

\* Every view is computed from the window it is asked for.
JudgedAnew ==
    /\ report' = ReportJudges(row', mounts')
    /\ api' = ApiJudges(row', mounts')

Distance(r, ms) == Cardinality({c \in DOMAIN Columns : r[c] # start[c]})
                   + Cardinality({m \in MountNames : ms[m] # FirstMount})

\* The window moves: one column is measured anew, or is no longer measured.
Observe(c) ==
    /\ ~resized
    /\ \E v \in Columns[c] \ {row[c]} : row' = [row EXCEPT ![c] = v]
    /\ PeakCovers(row')
    /\ Distance(row', mounts) <= MaxChanged
    /\ UNCHANGED <<mounts, start, resized>>
    /\ JudgedAnew

\* A mount's history goes on: files are written or deleted, or it is resized.
MountChanges(m) ==
    /\ ~resized
    /\ \E h \in MountStates \ {mounts[m]} : mounts' = [mounts EXCEPT ![m] = h]
    /\ Distance(row, mounts') <= MaxChanged
    /\ UNCHANGED <<row, start, resized>>
    /\ JudgedAnew

\* The same load on another size.
Scaled(pct, from, to) == IF pct = None THEN None ELSE Min({100, Ceil(pct * from, to)})

\* The operator gives the host what /api/assessment recommends, and the same
\* load is measured again.
Resize ==
    LET cpu == CpuAxis(api.host, api.stats)
        mem == MemoryAxis(api.host, api.stats)
    IN  /\ ~resized
        /\ cpu # None /\ mem # None /\ cpu.current > 0 /\ mem.current > 0
        /\ "keep" # cpu.action \/ "keep" # mem.action
        /\ row' = [row EXCEPT !.cpu_cores = cpu.recommended,
                              !.cpu_p95   = Scaled(@, cpu.current, cpu.recommended),
                              !.mem_total = mem.recommended,
                              !.mem_p95   = Scaled(@, mem.current, mem.recommended),
                              !.near_peak = Scaled(@, mem.current, mem.recommended)]
        /\ resized' = TRUE
        /\ UNCHANGED <<mounts, start>>
        /\ JudgedAnew

Next ==
    \/ \E c \in DOMAIN Columns : Observe(c)
    \/ \E m \in MountNames : MountChanges(m)
    \/ Resize

Spec == Init /\ [][Next]_vars

-----------------------------------------------------------------------------
(* Properties *)

Axes == {CpuAxis(api.host, api.stats), MemoryAxis(api.host, api.stats)} \ {None}

\* Every sizing axis of /api/assessment has a size, and the size fits its
\* action: a deficit is always answered by more than there is (a target or a
\* floor), "decrease" by less but at least one, "keep" by what there is.  (An
\* inventory may say that there are no cores or no memory: nothing fits that.)
AxesFitTheirAction ==
    \A a \in Axes \cup MountAxes(mounts) : a.current > 0 =>
        /\ a.recommended \in Nat \ {0}
        /\ a.action = "increase" => a.recommended > a.current
        /\ a.action = "decrease" => a.recommended < a.current
        /\ a.action = "keep"     => a.recommended = a.current

\* A host is listed as short of resources exactly when a root cause is named,
\* and every resource the root-cause column names is one in trouble.
RootCauseExplains ==
    \A host \in {report.host, api.host} :
        LET shown == root_cause_display(host)
        IN  /\ host.host_status = "under" <=> host.root_cause # None
            /\ host.host_status = "under" <=> shown.root # {}
            /\ \A k \in shown.root \cup shown.causes :
                  host.resources[k].status \in {"under", "filling", "io_bound"}

\* The report and the APIs classify a host alike.  They differ in one case: the
\* APIs do not look at disk activity, so a host that only its disks keep
\* from being idle is idle to them.
ClassesAgree ==
    report.host.host_status # api.host.host_status =>
        api.host.host_status = "idle" /\ Above(row.disk_iops, IDLE_DISK_IOPS)

\* /api/right-sizing and /api/assessment prescribe the same.  Deficits agree
\* always; a smaller size is missing from /api/right-sizing when the host as a
\* whole is short of something else or idle.  Nothing is prescribed at low
\* confidence, and at high confidence the report's "downsize" comes with a size,
\* unless stolen time or a rising trend speaks against it, or the window is so
\* short that no sample is expected in it.
PrescriptionsAgree ==
    LET actions == RightSizingActions(api.host, api.stats)
        Agree(kind, axis) ==
            LET mine == {a \in actions : a.resource = kind}
            IN  /\ axis.action = "increase" <=> \E a \in mine : a.op = "increase"
                /\ \A a \in mine : a.target \in {None, axis.recommended}
                /\ (\E a \in mine : a.op = "decrease") => axis.action = "decrease"
                /\ axis.action = "decrease" =>
                      \/ \E a \in mine : a.op = "decrease"
                      \/ api.host.host_status \in {"under", "idle"}
        cpu == CpuAxis(api.host, api.stats)
        mem == MemoryAxis(api.host, api.stats)
    IN  /\ cpu # None => Agree("cpu", cpu)
        /\ mem # None => Agree("memory", mem)
        /\ AssessmentConfidence(api.host) = "low" => \A a \in Axes : a.action = "keep"
        /\ /\ AssessmentConfidence(api.host) = "high"
           /\ recommend_action(api.host.host_status, api.stats) = "downsize"
           => \/ \E a \in actions : a.op = "decrease"
              \/ AtLeast(row.steal, RS_CPU_STEAL_BIAS_PCT) \/ api.stats.rising = TRUE
              \/ api.stats.sufficiency = None

\* The report and the two APIs tell the same of a host (ClassesAgree), and the two
\* APIs prescribe the same for it (PrescriptionsAgree).
ViewsAgree == ClassesAgree /\ PrescriptionsAgree

Shortage == {"memory short", "cpu saturated", "memory pressure", "cpu pressure", "disk filling"}

\* Every verdict is explained where it is shown.  A resource the card marks as in
\* trouble has a flagged row on the same card; the diagnosis column names a
\* shortage exactly for hosts whose badge says so, and only the disk bottleneck
\* whatever the badge says.
VerdictsAreExplained ==
    LET d == Diagnosis(report.host, row)
    IN  /\ \A view \in {report, api} : \A k \in Kinds :
              view.host.resources[k].status \in {"under", "filling", "io_bound", "congested"}
                  => PeriodFlags(view.stats) \cap CardRows[k] # {}
        /\ d \in Shortage => report.host.host_status = "under"
        /\ report.host.host_status = "under" => d \in Shortage \cup {"disk I/O bottleneck"}

\* The network's judgement, the live signal of the dashboard and the signals the
\* API prints agree, but for the gate on hosts with little traffic.
NetworkSignalsAgree ==
    LET live == net_signal_active(row.retrans, row.drop, row.conntrack, api.stats.net_avg)
        printed == NetSignalsExceeded(row) # {}
    IN  /\ api.host.network_congested <=> live
        /\ live => printed
        /\ printed /\ ~live => LowTraffic(api.stats.net_avg)

\* The live index reaches 1 exactly where the judgement sees a saturated signal
\* (on the disk they differ at exactly 20 ms), and a block that says "saturated"
\* prints a value beyond its threshold, except for a Windows CPU, whose printed
\* value has already been divided by the printed threshold.
SaturationSignalsAgree ==
    LET s    == api.stats
        cpu  == cpu_saturation_index(RunQueueValue(s), s.cpu_cores, s.os_family)
        disk == disk_io_saturation_index(s.disk_await, s.disk_queue, s.os_family)
    IN  /\ AtLeast(cpu, 100) <=> SignalCrossed("cpu", s)
        /\ cpu_saturated(s) = TRUE => AtLeast(cpu, 100)
        /\ AtLeast(disk, 100) <=> disk_io_saturated(s) = TRUE \/ s.disk_await = RS_DISKIO_AWAIT_MS
        /\ \A k \in {"cpu", "memory", "disk_io"} :
              LET b == saturation_block(k, s)
              IN  /\ b.saturated = TRUE /\ b.threshold # None =>
                        AtLeast(b.value, b.threshold) \/ (k = "cpu" /\ Windows(s.os_family))
                  /\ k # "cpu" /\ b.saturated = FALSE /\ AtLeast(b.value, b.threshold) =>
                        b.value = b.threshold \/ Below(s.mem_p95, RS_MEM_UNDER_PCT)

\* What is shown live is what is judged: network and saturation signals.
SignalsAgree == NetworkSignalsAgree /\ SaturationSignalsAgree

\* A mount that /api/assessment takes for full makes its host short of disk
\* (report_aggregate, assess_mount_capacity), unless it has no date and either the
\* window does not show it full (the mount is gone, was larger once, or ran out of
\* inodes earlier) or another mount's date hides it: the host row folds each column
\* by itself.
FullMountsSeen ==
    api.host.resources.disk_capacity.status # "filling" =>
        \A m \in MountNames : LET h == mounts[m] IN
            /\ FillsUp(ByteRunway(h), UsedPct(h)) =>
                  /\ ByteRunway(h) = None
                  /\ AtLeast(h.used_max, RS_DISK_STATIC_GUARD_PCT) => \E n \in MountNames : ByteRunway(mounts[n]) # None
            /\ FillsUp(InodeRunway(h), h.inode_ever) =>
                  /\ InodeRunway(h) = None
                  /\ AtLeast(h.inode_max, RS_DISK_STATIC_GUARD_PCT) => \E n \in MountNames : InodeRunway(mounts[n]) # None

Loads == {"cpu_p95", "procs_running", "cpu_run_queue", "mem_p95", "mem_pages_input",
          "procs_blocked", "disk_await", "disk_iops", "net_rx", "net_tx", "percore_max"}

\* More load on one axis never takes a host off the list of those short of
\* resources.
MoreLoadStaysShort ==
    [][\A c \in Loads \cap DOMAIN Columns :
          /\ ~resized'
          /\ row[c] # None /\ row'[c] # None /\ row'[c] > row[c]
          /\ report.host.host_status = "under"
          => report'.host.host_status = "under"]_vars

\* Following the sizing axes settles: under the same load the CPU is short again
\* only at exactly the 70 % line, the memory only because of an OOM kill the
\* window still remembers, and the CPU has room to spare only if it was sized
\* for its run queue or stood on the line.
FollowingSettles ==
    [][resized' /\ ~resized =>
         LET cpu == api'.host.resources.cpu
             mem == api'.host.resources.memory
         IN  /\ cpu.status = "under" => row.cpu_p95 # None /\ row'.cpu_p95 = RS_CPU_UNDER_PCT
             /\ mem.status = "under" => row.oom
             /\ cpu.status = "over" /\ row'.cpu_cores > row.cpu_cores =>
                   \/ cpu_saturated(api.stats) = TRUE
                   \/ row.cpu_p95 = RS_CPU_UNDER_PCT]_vars
=============================================================================
