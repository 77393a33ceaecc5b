-------------------------- MODULE SizingViews_proofs --------------------------
(***************************************************************************)
(* Proofs for SizingViews: what is said of a server, whatever its window   *)
(* and its mounts look like.  The model-checked instance has a few values  *)
(* per column; here every column is any number, or was not measured.       *)
(***************************************************************************)
EXTENDS SizingViews, WellFoundedInduction, TLAPS

-----------------------------------------------------------------------------
(* Numbers *)

(* Rounding up gives a natural number. *)
LEMMA CeilType ==
    ASSUME NEW a \in Nat, NEW b \in Nat \ {0} PROVE Ceil(a, b) \in Nat
BY DEF Ceil

(* The maximum of two numbers. *)
LEMMA MaxOfTwo ==
    ASSUME NEW a \in Int, NEW b \in Int
    PROVE  Max({a, b}) = IF a >= b THEN a ELSE b
<1>1. \E x \in {a, b} : \A y \in {a, b} : x >= y
  BY SMT
<1>2. Max({a, b}) \in {a, b} /\ \A y \in {a, b} : Max({a, b}) >= y
  BY <1>1 DEF Max
<1> QED
  BY <1>2

(* The minimum of two numbers. *)
LEMMA MinOfTwo ==
    ASSUME NEW a \in Int, NEW b \in Int
    PROVE  Min({a, b}) = IF a <= b THEN a ELSE b
<1>1. \E x \in {a, b} : \A y \in {a, b} : x =< y
  BY SMT
<1>2. Min({a, b}) \in {a, b} /\ \A y \in {a, b} : Min({a, b}) =< y
  BY <1>1 DEF Min
<1> QED
  BY <1>2

(* The maximum of three numbers is one of them and not below any. *)
LEMMA MaxOfThree ==
    ASSUME NEW a \in Int, NEW b \in Int, NEW c \in Int
    PROVE  /\ Max({a, b, c}) \in {a, b, c}
           /\ Max({a, b, c}) >= a /\ Max({a, b, c}) >= b /\ Max({a, b, c}) >= c
<1>1. \E x \in {a, b, c} : \A y \in {a, b, c} : x >= y
  <2>1. CASE a >= b /\ a >= c
    BY <2>1
  <2>2. CASE b >= a /\ b >= c
    BY <2>2
  <2>3. CASE c >= a /\ c >= b
    BY <2>3
  <2> QED
    BY <2>1, <2>2, <2>3
<1>2. Max({a, b, c}) \in {a, b, c} /\ \A y \in {a, b, c} : Max({a, b, c}) >= y
  BY <1>1 DEF Max
<1> QED
  BY <1>2

\* A set of natural numbers has a least element, and a bounded one has a greatest.
LEMMA LeastOfNats ==
    ASSUME NEW S, S \subseteq Nat, S # {}
    PROVE  Min(S) \in S /\ \A y \in S : Min(S) <= y
<1>1. \E x \in S : \A y \in S : ~(<<y, x>> \in OpToRel(<, Nat))
  BY NatLessThanWellFounded, WFMin
<1>2. \A x, y \in Nat : y < x => <<y, x>> \in OpToRel(<, Nat)
  BY Zenon DEF OpToRel
<1>3. \E x \in S : \A y \in S : ~(y < x)
  BY <1>1, <1>2, Zenon
<1>4. \E x \in S : \A y \in S : x =< y
  BY <1>3
<1> QED
  BY <1>4 DEF Min

(* A set of percentages has a greatest element. *)
LEMMA GreatestOfPercents ==
    ASSUME NEW S, S \subseteq 0..100, S # {}
    PROVE  Max(S) \in S /\ \A y \in S : Max(S) >= y
<1> DEFINE T == {100 - x : x \in S}
<1>1. T \subseteq Nat /\ T # {}
  <2>1. ASSUME NEW t \in T PROVE t \in Nat
    <3>1. PICK x \in S : t = 100 - x
      OBVIOUS
    <3>2. x \in 0..100
      OBVIOUS
    <3> HIDE DEF T
    <3> QED
      BY <3>1, <3>2
  <2>2. PICK x \in S : TRUE
    OBVIOUS
  <2>3. 100 - x \in T
    OBVIOUS
  <2> QED
    BY <2>1, <2>3
<1> HIDE DEF T
<1>2. PICK t \in T : \A u \in T : t <= u
  BY <1>1, LeastOfNats
<1>3. PICK x \in S : t = 100 - x
  BY DEF T
<1>4. \A y \in S : x >= y
  <2> TAKE y \in S
  <2>1. 100 - y \in T
    BY DEF T
  <2> QED
    BY <1>2, <1>3, <2>1
<1> QED
  BY <1>4 DEF Max

(* Least ignores what is missing, and is missing only if all is. *)
LEMMA LeastFacts ==
    ASSUME NEW S, S \subseteq Measure
    PROVE  /\ Least(S) \in Measure
           /\ Least(S) = None <=> \A x \in S : x = None
           /\ Least(S) # None => Least(S) \in S
           /\ \A x \in S : x # None => Least(S) # None /\ Least(S) <= x
<1>1. Known(S) \subseteq Nat
  BY DEF Known, Measure
<1>2. CASE Known(S) = {}
  BY <1>2 DEF Known, Least, Measure
<1>3. CASE Known(S) # {}
  <2>1. Min(Known(S)) \in Known(S) /\ \A y \in Known(S) : Min(Known(S)) <= y
    BY <1>1, <1>3, LeastOfNats
  <2>2. Least(S) = Min(Known(S))
    BY <1>3 DEF Least
  <2> QED
    BY <1>1, <2>1, <2>2, NoneAssumption DEF Known, Measure
<1> QED
  BY <1>2, <1>3

(* Greatest ignores what is missing. *)
LEMMA GreatestFacts ==
    ASSUME NEW S, S \subseteq 0..100 \cup {None}
    PROVE  /\ Greatest(S) \in 0..100 \cup {None}
           /\ \A x \in S : x # None => Greatest(S) # None /\ Greatest(S) >= x
<1>1. Known(S) \subseteq 0..100
  BY DEF Known
<1>2. CASE Known(S) = {}
  BY <1>2 DEF Known, Greatest
<1>3. CASE Known(S) # {}
  <2>1. Max(Known(S)) \in Known(S) /\ \A y \in Known(S) : Max(Known(S)) >= y
    BY <1>1, <1>3, GreatestOfPercents
  <2>2. Greatest(S) = Max(Known(S))
    BY <1>3 DEF Greatest
  <2> QED
    BY <1>1, <2>1, <2>2, NoneAssumption DEF Known
<1> QED
  BY <1>2, <1>3

-----------------------------------------------------------------------------
(* Statistics *)

\* What build_resource_stats may return.
IsStats(s) ==
    /\ {s.cpu_p95, s.cpu_cores, s.procs_running, s.cpu_run_queue, s.percore_max, s.steal, s.mem_p95,
        s.mem_total, s.near_peak, s.mem_pages_input, s.disk_await, s.disk_iops, s.procs_blocked,
        s.retrans, s.drop, s.conntrack, s.history, s.burst, s.net_avg, s.sufficiency, s.runway,
        s.inode_runway, s.disk_used, s.inode_used} \subseteq Measure
    /\ s.oom \in BOOLEAN /\ s.swap_paging \in BOOLEAN
    /\ s.rising \in BOOLEAN \cup {None}
    /\ s.disk_queue = None

IsMounts(ms) == DOMAIN ms = MountNames /\ \A m \in MountNames : IsMount(ms[m])

(* A quotient of natural numbers is one. *)
LEMMA DivType == ASSUME NEW a \in Nat, NEW b \in Nat \ {0} PROVE a \div b \in Nat
OBVIOUS

(* A runway is a number of days or missing. *)
LEMMA RunwayType ==
    ASSUME NEW first \in Int, NEW last \in Int, NEW span \in Nat
    PROVE  Runway(first, last, span) \in Measure
<1>1. CASE first > last /\ span >= RATE_MIN_SPAN_HOURS /\ last >= 0
  <2>1. last * span \in Nat /\ 24 * (first - last) \in Nat \ {0}
    BY <1>1
  <2>2. (last * span) \div (24 * (first - last)) \in Nat
    BY <2>1, DivType
  <2> QED
    BY <1>1, <2>2 DEF Runway, Measure
<1> QED
  BY <1>1 DEF Runway, Measure

(* The disk columns of a host are measures. *)
LEMMA HostDiskType ==
    ASSUME NEW ms, IsMounts(ms)
    PROVE  LET d == HostDisk({ms[m] : m \in DOMAIN ms})
           IN  {d.runway, d.inode_runway, d.disk_used, d.inode_used} \subseteq Measure
<1> DEFINE M == {ms[m] : m \in DOMAIN ms}
<1>1. \A m \in M : IsMount(m)
  BY DEF IsMounts
<1> HIDE DEF M
<1>2. {ByteRunway(m) : m \in M} \subseteq Measure /\ {InodeRunway(m) : m \in M} \subseteq Measure
  BY <1>1, RunwayType DEF IsMount, ByteRunway, InodeRunway
<1>3. {m.used_max : m \in M} \subseteq 0..100 \cup {None} /\ {m.inode_max : m \in M} \subseteq 0..100 \cup {None}
  BY <1>1 DEF IsMount
<1>4. /\ HostDisk(M).runway \in Measure /\ HostDisk(M).inode_runway \in Measure
      /\ HostDisk(M).disk_used \in Measure /\ HostDisk(M).inode_used \in Measure
  BY <1>2, <1>3, LeastFacts, GreatestFacts DEF HostDisk, Measure
<1> QED
  BY <1>4 DEF M

(* A row and its mounts make well-formed statistics. *)
LEMMA StatsTyped ==
    ASSUME NEW r, IsRow(r), NEW ms, IsMounts(ms), NEW b \in Measure
    PROVE  IsStats(build_resource_stats(r, ms, b))
<1> DEFINE disk == HostDisk({ms[m] : m \in DOMAIN ms})
           net  == IF Known({r.net_rx, r.net_tx}) = {} THEN None ELSE OrZero(r.net_rx) + OrZero(r.net_tx)
           suff == Least({IF r.cpu_p95 = None THEN None ELSE r.cpu_suff,
                          IF r.mem_p95 = None THEN None ELSE r.mem_suff})
           rise == IF AtLeast(r.history, RS_CONFIDENCE_MIN_HOURS)
                   THEN util_trend_rising_from_slopes(r.cpu_slope, r.mem_slope) ELSE None
<1>1. /\ \A c \in Counts : r[c] \in Measure
      /\ r.oom \in BOOLEAN /\ r.swap_paging \in BOOLEAN
  BY DEF IsRow, RowColumns, ColumnType, Counts, Slopes, Flags
<1>2. /\ r.cpu_p95 \in Measure /\ r.cpu_cores \in Measure /\ r.procs_running \in Measure
      /\ r.cpu_run_queue \in Measure /\ r.percore_max \in Measure /\ r.steal \in Measure
      /\ r.mem_p95 \in Measure /\ r.mem_total \in Measure /\ r.near_peak \in Measure
      /\ r.mem_pages_input \in Measure /\ r.disk_await \in Measure /\ r.procs_blocked \in Measure
      /\ r.retrans \in Measure /\ r.drop \in Measure /\ r.conntrack \in Measure
      /\ r.history \in Measure /\ r.burst \in Measure
      /\ r.net_rx \in Measure /\ r.net_tx \in Measure /\ r.cpu_suff \in Measure /\ r.mem_suff \in Measure
  BY <1>1 DEF Counts
<1>3. net \in Measure
  BY <1>2 DEF Measure, OrZero
<1>4. suff \in Measure
  <2>1. {IF r.cpu_p95 = None THEN None ELSE r.cpu_suff,
         IF r.mem_p95 = None THEN None ELSE r.mem_suff} \subseteq Measure
    BY <1>2 DEF Measure
  <2> QED
    BY <2>1, LeastFacts
<1>5. rise \in BOOLEAN \cup {None}
  BY DEF util_trend_rising_from_slopes
<1>6. {disk.runway, disk.inode_runway, disk.disk_used, disk.inode_used} \subseteq Measure
  BY HostDiskType
<1> HIDE DEF disk, net, suff, rise
<1>7. PICK s : s = [os_family |-> r.os_family, cpu_p95 |-> r.cpu_p95, cpu_peak |-> r.cpu_peak,
             cpu_cores |-> r.cpu_cores, procs_running |-> r.procs_running,
             cpu_run_queue |-> r.cpu_run_queue, percore_max |-> r.percore_max, steal |-> r.steal,
             mem_p95 |-> r.mem_p95, mem_total |-> r.mem_total, near_peak |-> r.near_peak,
             swap_paging |-> r.swap_paging, mem_pages_input |-> r.mem_pages_input, oom |-> r.oom,
             disk_await |-> r.disk_await, disk_iops |-> b, disk_queue |-> None,
             procs_blocked |-> r.procs_blocked, retrans |-> r.retrans, drop |-> r.drop,
             conntrack |-> r.conntrack, history |-> r.history, burst |-> r.burst,
             net_avg |-> net, sufficiency |-> suff, rising |-> rise,
             runway |-> disk.runway, inode_runway |-> disk.inode_runway,
             disk_used |-> disk.disk_used, inode_used |-> disk.inode_used,
             target_gb |-> disk.target_gb]
  OBVIOUS
<1>8. build_resource_stats(r, ms, b) = s
  BY <1>7 DEF build_resource_stats, disk, net, suff, rise
<1>9. IsStats(s)
  BY <1>1, <1>2, <1>3, <1>4, <1>5, <1>6, <1>7 DEF IsStats
<1> QED
  BY <1>8, <1>9

-----------------------------------------------------------------------------
(* CPU *)

\* The line a saturated run queue has crossed.
QueueFull(s) == RunQueueValue(s) # None /\ RunQueueValue(s) >= SatLine(s.os_family) * s.cpu_cores

CpuShort(s) == ~NoCores(s) /\ (AtLeast(s.cpu_p95, RS_CPU_UNDER_PCT) \/ (s.cpu_p95 = None /\ QueueFull(s)))

(* The run queue is a measure, and its line one or two per core. *)
LEMMA QueueType ==
    ASSUME NEW s, IsStats(s)
    PROVE  RunQueueValue(s) \in Measure /\ SatLine(s.os_family) \in {1, 2}
BY DEF IsStats, RunQueueValue, SatLine

(* When the CPU counts as saturated, and when nothing can be said. *)
LEMMA CpuSaturated ==
    ASSUME NEW s, IsStats(s)
    PROVE  /\ cpu_saturated(s) = TRUE <=>
                 ~NoCores(s) /\ QueueFull(s) /\ (s.cpu_p95 = None \/ s.cpu_p95 >= RS_CPU_UNDER_PCT)
           /\ cpu_saturated(s) = None <=> NoCores(s) \/ RunQueueValue(s) = None
<1>1. CASE NoCores(s) \/ RunQueueValue(s) = None
  <2>1. cpu_saturated(s) = None
    BY <1>1 DEF cpu_saturated
  <2>2. None # TRUE
    BY NoneAssumption
  <2> QED
    BY <1>1, <2>1, <2>2 DEF QueueFull
<1>2. CASE ~(NoCores(s) \/ RunQueueValue(s) = None)
  <2>1. cpu_saturated(s) = (/\ RunQueueValue(s) >= SatLine(s.os_family) * s.cpu_cores
                            /\ s.cpu_p95 = None \/ s.cpu_p95 >= RS_CPU_UNDER_PCT)
    BY <1>2 DEF cpu_saturated
  <2>2. cpu_saturated(s) # None
    BY <2>1, NoneAssumption
  <2> QED
    BY <1>2, <2>1, <2>2 DEF QueueFull
<1> QED
  BY <1>1, <1>2

(* At 70 percent or less the cores in use at 70 percent suffice. *)
LEMMA CeilBelow ==
    ASSUME NEW u \in Nat, NEW c \in Nat, u <= 70 PROVE Ceil(u * c, 70) <= c
<1>1. u * c <= 70 * c
  OBVIOUS
<1>2. u * c \in Nat
  OBVIOUS
<1>3. \A x \in Nat : x <= 70 * c => (x + 70 - 1) \div 70 <= c
  OBVIOUS
<1> QED
  BY <1>1, <1>2, <1>3 DEF Ceil

(* A target has a core at least, and no more than now without pressure. *)
LEMMA CpuTarget ==
    ASSUME NEW s, IsStats(s), ~NoCores(s)
    PROVE  LET sat == cpu_saturated(s) = TRUE
           IN  /\ CpuTargetCores(s, sat) \in Nat \ {0}
               /\ ~sat /\ ~Above(s.cpu_p95, RS_CPU_UNDER_PCT) => CpuTargetCores(s, sat) <= s.cpu_cores
<1> DEFINE sat == cpu_saturated(s) = TRUE
           util  == IF s.cpu_p95 = None THEN 0 ELSE s.cpu_p95
           x == IF util > 0 THEN Ceil(util * s.cpu_cores, RS_CPU_SIZING_TARGET_PCT) ELSE 1
           y == IF sat /\ Above(RunQueueValue(s), 0)
                THEN Ceil(10 * RunQueueValue(s), 7 * SatLine(s.os_family)) ELSE 0
<1>1. s.cpu_cores \in Nat \ {0} /\ s.cpu_p95 \in Measure
  BY DEF IsStats, NoCores, Measure
<1>2. util \in Nat /\ util * s.cpu_cores \in Nat
  BY <1>1 DEF Measure
<1>3. x \in Nat
  BY <1>2, CeilType DEF RS_CPU_SIZING_TARGET_PCT
<1>4. y \in Nat
  <2>1. CASE sat /\ Above(RunQueueValue(s), 0)
    <3>1. RunQueueValue(s) \in Nat /\ 7 * SatLine(s.os_family) \in Nat \ {0}
      BY <2>1, QueueType DEF Above, Measure
    <3>2. 10 * RunQueueValue(s) \in Nat
      BY <3>1
    <3> QED
      BY <2>1, <3>1, <3>2, CeilType
  <2> QED
    BY <2>1
<1>5. ~Above(s.cpu_p95, RS_CPU_UNDER_PCT) => x <= s.cpu_cores
  BY <1>1, <1>2, CeilBelow DEF Above, RS_CPU_UNDER_PCT, RS_CPU_SIZING_TARGET_PCT, Measure
<1>6. ~sat => y = 0
  OBVIOUS
<1>7. CpuTargetCores(s, sat) = Max({1, x, y})
  BY DEF CpuTargetCores
<1> HIDE DEF x, y, util, sat
<1>8. /\ Max({1, x, y}) \in {1, x, y}
      /\ Max({1, x, y}) >= 1
  BY <1>3, <1>4, MaxOfThree
<1>9. CpuTargetCores(s, sat) \in Nat \ {0}
  BY <1>3, <1>4, <1>7, <1>8
<1>10. ~sat /\ ~Above(s.cpu_p95, RS_CPU_UNDER_PCT) => CpuTargetCores(s, sat) <= s.cpu_cores
  BY <1>1, <1>5, <1>6, <1>7, <1>8
<1> QED
  BY <1>9, <1>10 DEF sat

\* The judgement of a CPU: it is short of cores exactly if its utilisation, or the
\* run queue where nothing else is known, has reached the line, and then a trigger
\* is named; a target is above the current size if it is short, below if it is not.
LEMMA CpuJudged ==
    ASSUME NEW s, IsStats(s)
    PROVE  LET a == assess_cpu(s)
           IN  /\ a.status \in {"unmeasured", "under", "over", "optimal"}
               /\ a.status = "unmeasured" => a.target = None /\ a.floor = None
               /\ a.status = "under" <=> CpuShort(s)
               /\ a.status = "under" =>
                     \/ a.target \in Nat /\ a.target > s.cpu_cores
                     \/ a.target = None /\ a.floor = s.cpu_cores + 1
               /\ a.status = "over" => a.target \in Nat \ {0} /\ a.target < s.cpu_cores
               /\ "cpu_util" \in a.triggers => AtLeast(s.cpu_p95, RS_CPU_UNDER_PCT)
               /\ "cpu_saturation" \in a.triggers => cpu_saturated(s) = TRUE
               /\ a.triggers \subseteq {"cpu_util", "cpu_saturation"}
               /\ a.triggers # {} <=> a.status = "under"
               /\ a.status \in {"over", "optimal"} => s.cpu_p95 # None
               /\ a.conf.low_precision = PrecisionLow(s)
               /\ a.conf.coverage_gap = (cpu_saturated(s) = None \/ s.cpu_p95 = None)
               /\ a.conf.biased = AtLeast(s.steal, RS_CPU_STEAL_BIAS_PCT)
               /\ a.conf.nonstationary = (s.rising = TRUE)
<1> DEFINE sat  == cpu_saturated(s)
           util == AtLeast(s.cpu_p95, RS_CPU_UNDER_PCT)
           conf == Gap(BaseConfidence(s, AtLeast(s.steal, RS_CPU_STEAL_BIAS_PCT), TRUE),
                       sat = None \/ s.cpu_p95 = None)
           triggers == Fired([cpu_util |-> util, cpu_saturation |-> sat = TRUE])
           target == CpuTargetCores(s, sat = TRUE)
           a == assess_cpu(s)
<1>1. /\ conf.low_precision = PrecisionLow(s)
      /\ conf.coverage_gap = (sat = None \/ s.cpu_p95 = None)
      /\ conf.biased = AtLeast(s.steal, RS_CPU_STEAL_BIAS_PCT)
      /\ conf.nonstationary = (s.rising = TRUE)
  BY DEF Gap, BaseConfidence
<1>2. /\ triggers \subseteq {"cpu_util", "cpu_saturation"}
      /\ "cpu_util" \in triggers <=> util
      /\ "cpu_saturation" \in triggers <=> sat = TRUE
  BY DEF Fired
<1>3. triggers # {} <=> util \/ sat = TRUE
  BY <1>2
<1>4. ~NoCores(s) => target \in Nat \ {0} /\ s.cpu_cores \in Nat \ {0}
  <2>1. ~NoCores(s) => s.cpu_cores \in Nat \ {0}
    BY DEF IsStats, NoCores, Measure
  <2> QED
    BY <2>1, CpuTarget
<1>5. ~NoCores(s) /\ triggers = {} => target <= s.cpu_cores
  <2>1. ~util /\ s.cpu_p95 \in Measure => ~Above(s.cpu_p95, RS_CPU_UNDER_PCT)
    BY DEF AtLeast, Above, Measure, RS_CPU_UNDER_PCT
  <2> QED
    BY <1>3, <2>1, CpuTarget DEF IsStats
<1>6. sat = TRUE <=> ~NoCores(s) /\ QueueFull(s) /\ (s.cpu_p95 = None \/ s.cpu_p95 >= RS_CPU_UNDER_PCT)
  BY CpuSaturated
<1>7. CpuShort(s) <=> ~NoCores(s) /\ (util \/ sat = TRUE)
  BY <1>6 DEF CpuShort, AtLeast
<1>8. a = IF (s.cpu_p95 = None /\ sat # TRUE) \/ NoCores(s)
          THEN Plain("unmeasured", conf)
          ELSE IF triggers # {} \/ target > s.cpu_cores
          THEN IF target > s.cpu_cores
               THEN Judged("under", triggers, target, None, conf)
               ELSE Judged("under", triggers, None, s.cpu_cores + 1, conf)
          ELSE IF target < s.cpu_cores /\ ~PercoreBusy(s)
          THEN Judged("over", {}, target, None, conf)
          ELSE Judged("optimal", {}, s.cpu_cores, None, conf)
  BY Zenon DEF assess_cpu
<1>9. s.cpu_p95 = None => ~util
  BY DEF AtLeast
<1> HIDE DEF sat, util, conf, triggers, target, a
<1>10. a.conf = conf
  BY <1>8 DEF Plain, Judged
<1> DEFINE Fits == /\ a.status \in {"unmeasured", "under", "over", "optimal"}
                   /\ a.status = "unmeasured" => a.target = None /\ a.floor = None
                   /\ a.status = "under" <=> ~NoCores(s) /\ triggers # {}
                   /\ a.status = "under" =>
                         \/ a.target \in Nat /\ a.target > s.cpu_cores
                         \/ a.target = None /\ a.floor = s.cpu_cores + 1
                   /\ a.status = "over" => a.target \in Nat \ {0} /\ a.target < s.cpu_cores
                   /\ a.triggers = IF a.status = "under" THEN triggers ELSE {}
                   /\ a.status \in {"over", "optimal"} => s.cpu_p95 # None
<1>11. Fits
  <2>1. CASE (s.cpu_p95 = None /\ sat # TRUE) \/ NoCores(s)
    <3>1. a = Plain("unmeasured", conf)
      BY <1>8, <2>1
    <3>2. NoCores(s) \/ triggers = {}
      BY <1>3, <1>9, <2>1
    <3> QED
      BY <3>1, <3>2 DEF Plain, Judged
  <2>2. CASE ~((s.cpu_p95 = None /\ sat # TRUE) \/ NoCores(s)) /\ triggers # {}
    <3>1. CASE target > s.cpu_cores
      <4>1. a = Judged("under", triggers, target, None, conf)
        BY <1>8, <2>2, <3>1
      <4> QED
        BY <1>4, <2>2, <3>1, <4>1 DEF Judged
    <3>2. CASE ~(target > s.cpu_cores)
      <4>1. a = Judged("under", triggers, None, s.cpu_cores + 1, conf)
        BY <1>8, <2>2, <3>2
      <4> QED
        BY <1>4, <2>2, <3>2, <4>1 DEF Judged
    <3> QED
      BY <3>1, <3>2
  <2>3. CASE ~((s.cpu_p95 = None /\ sat # TRUE) \/ NoCores(s)) /\ triggers = {}
    <3>0. ~NoCores(s) /\ triggers = {}
      BY <2>3
    <3>1. ~(target > s.cpu_cores)
      BY <1>4, <1>5, <3>0
    <3>2. \/ a = Judged("over", {}, target, None, conf) /\ target < s.cpu_cores
          \/ a = Judged("optimal", {}, s.cpu_cores, None, conf)
      BY <1>8, <2>3, <3>1
    <3>3. s.cpu_p95 # None
      BY <1>3, <2>3
    <3> QED
      BY <1>4, <3>0, <3>2, <3>3 DEF Judged
  <2> QED
    BY <2>1, <2>2, <2>3
<1>12. /\ "cpu_util" \in a.triggers => AtLeast(s.cpu_p95, RS_CPU_UNDER_PCT)
       /\ "cpu_saturation" \in a.triggers => sat = TRUE
       /\ a.triggers \subseteq {"cpu_util", "cpu_saturation"}
       /\ a.triggers # {} <=> a.status = "under"
       /\ a.status = "under" <=> CpuShort(s)
  BY <1>2, <1>3, <1>7, <1>11 DEF util
<1> QED
  BY <1>1, <1>10, <1>11, <1>12 DEF a, sat

-----------------------------------------------------------------------------
(* Memory *)

MemShort(s) == s.oom \/ AtLeast(s.mem_p95, RS_MEM_UNDER_PCT)

(* What memory saturation tells about usage and paging. *)
LEMMA MemSaturated ==
    ASSUME NEW s, IsStats(s)
    PROVE  /\ mem_saturated(s) = TRUE => AtLeast(s.mem_p95, RS_MEM_UNDER_PCT)
           /\ mem_saturated(s) = TRUE =>
                 IF Windows(s.os_family) THEN AtLeast(s.mem_pages_input, WIN_PAGES_INPUT) ELSE s.swap_paging
           /\ mem_saturated(s) = FALSE /\ Windows(s.os_family) /\ AtLeast(s.mem_pages_input, WIN_PAGES_INPUT)
                 => Below(s.mem_p95, RS_MEM_UNDER_PCT)
<1>1. None # TRUE /\ None # FALSE /\ s.mem_p95 \in Measure /\ s.mem_pages_input \in Measure
  BY NoneAssumption DEF IsStats
<1>2. CASE s.mem_p95 = None
  BY <1>1, <1>2 DEF mem_saturated
<1>3. CASE s.mem_p95 # None /\ s.mem_p95 < RS_MEM_UNDER_PCT
  <2>1. mem_saturated(s) = FALSE
    BY <1>3 DEF mem_saturated
  <2> QED
    BY <1>3, <2>1 DEF Below
<1>4. CASE s.mem_p95 # None /\ ~(s.mem_p95 < RS_MEM_UNDER_PCT)
  <2>1. AtLeast(s.mem_p95, RS_MEM_UNDER_PCT)
    BY <1>1, <1>4 DEF AtLeast, Measure, RS_MEM_UNDER_PCT
  <2>2. CASE ~Windows(s.os_family)
    <3>1. mem_saturated(s) = s.swap_paging
      BY <1>4, <2>2 DEF mem_saturated
    <3> QED
      BY <2>1, <2>2, <3>1
  <2>3. CASE Windows(s.os_family) /\ s.mem_pages_input = None
    <3>1. mem_saturated(s) = None
      BY <1>4, <2>3 DEF mem_saturated
    <3> QED
      BY <1>1, <2>1, <2>3, <3>1
  <2>4. CASE Windows(s.os_family) /\ s.mem_pages_input # None
    <3>1. mem_saturated(s) = (s.mem_pages_input >= WIN_PAGES_INPUT)
      BY <1>4, <2>4 DEF mem_saturated
    <3> QED
      BY <2>1, <2>4, <3>1 DEF AtLeast
  <2> QED
    BY <2>2, <2>3, <2>4
<1> QED
  BY <1>2, <1>3, <1>4

(* Headroom makes a positive size larger. *)
LEMMA Headroom ==
    ASSUME NEW total \in Measure
    PROVE  /\ WithHeadroom(total) \in Measure
           /\ total # None => WithHeadroom(total) # None
           /\ Above(total, 0) => WithHeadroom(total) > total
<1>1. CASE total = None
  BY <1>1 DEF WithHeadroom, Above, Measure
<1>2. CASE total # None
  <2>1. total \in Nat
    BY <1>2 DEF Measure
  <2>2. WithHeadroom(total) = (total * 130 + 100 - 1) \div 100
    BY <1>2, <2>1 DEF WithHeadroom, Ceil, RS_MEM_HEADROOM_PCT
  <2>3. (total * 130 + 100 - 1) \div 100 \in Nat
    BY <2>1
  <2>4. total > 0 => (total * 130 + 100 - 1) \div 100 > total
    BY <2>1
  <2> QED
    BY <2>1, <2>2, <2>3, <2>4, NoneAssumption DEF Above, Measure
<1> QED
  BY <1>1, <1>2

(* A memory target is a size or missing. *)
LEMMA MemTargetType ==
    ASSUME NEW peak \in Nat, NEW total \in Measure
    PROVE  MemTargetMb(peak, total) \in Measure
<1>1. CASE total = None \/ peak <= 0
  BY <1>1 DEF MemTargetMb, Measure
<1>2. CASE ~(total = None \/ peak <= 0)
  <2>1. total * peak \in Nat
    BY <1>2 DEF Measure
  <2>2. Ceil(total * peak, RS_MEM_SIZING_TARGET_PCT) \in Nat
    BY <2>1, CeilType DEF RS_MEM_SIZING_TARGET_PCT
  <2> QED
    BY <1>2, <2>2 DEF MemTargetMb, Measure
<1> QED
  BY <1>1, <1>2

(* A target for too little memory exceeds what there is. *)
LEMMA MemUnder ==
    ASSUME NEW s, IsStats(s), NEW t \in Measure
    PROVE  /\ MemUnderTarget(t, s) \in Measure
           /\ Above(s.mem_total, 0) /\ MemUnderTarget(t, s) # None => MemUnderTarget(t, s) > s.mem_total
<1> DEFINE headroom == IF MemPagingActive(s) \/ s.oom THEN WithHeadroom(s.mem_total) ELSE None
           candidates == Known({t, headroom})
<1>1. s.mem_total \in Measure
  BY DEF IsStats
<1>2. headroom \in Measure
  BY <1>1, Headroom DEF Measure
<1>3. MemUnderTarget(t, s) = IF candidates = {} THEN None
                             ELSE IF s.mem_total = None \/ Max(candidates) > s.mem_total
                             THEN Max(candidates) ELSE None
  BY DEF MemUnderTarget
<1> HIDE DEF headroom
<1>4. candidates # {} => Max(candidates) \in Nat
  <2>1. CASE t # None /\ headroom # None
    <3>1. candidates = {t, headroom} /\ t \in Int /\ headroom \in Int /\ t \in Nat /\ headroom \in Nat
      BY <1>2, <2>1 DEF Known, Measure
    <3>2. Max({t, headroom}) \in {t, headroom}
      BY <3>1, MaxOfTwo
    <3> QED
      BY <3>1, <3>2
  <2>2. CASE t = None \/ headroom = None
    <3>1. candidates = {} \/ (\E c \in Nat : candidates = {c, c})
      BY <1>2, <2>2 DEF Known, Measure
    <3>2. \A c \in Nat : Max({c, c}) = c
      BY MaxOfTwo
    <3> QED
      BY <3>1, <3>2
  <2> QED
    BY <2>1, <2>2
<1> HIDE DEF candidates
<1> QED
  BY <1>1, <1>3, <1>4 DEF Above, Measure

\* The judgement of the memory: it is short exactly at 90 % or after an OOM kill, and
\* then a trigger is named.
LEMMA MemJudged ==
    ASSUME NEW s, IsStats(s)
    PROVE  LET a == assess_memory(s)
           IN  /\ a.status \in {"unmeasured", "under", "over", "optimal"}
               /\ a.target \in Measure /\ a.floor \in Measure
               /\ a.status = "under" <=> MemShort(s)
               /\ a.status = "under" /\ s.mem_total # None => a.target # None \/ a.floor # None
               /\ a.status = "under" /\ Above(s.mem_total, 0) =>
                     /\ a.target # None => a.target > s.mem_total
                     /\ a.floor # None => a.floor > s.mem_total
               /\ a.status = "over" => a.target \in Nat \ {0} /\ a.target < s.mem_total
               /\ "mem_util" \in a.triggers => AtLeast(s.mem_p95, RS_MEM_UNDER_PCT)
               /\ a.triggers \subseteq {"mem_util", "mem_saturation", "mem_oom"}
               /\ a.triggers # {} <=> a.status = "under"
               /\ a.conf.low_precision = PrecisionLow(s)
               /\ a.conf.coverage_gap = (a.status = "unmeasured")
               /\ a.conf.biased = FALSE
               /\ a.conf.nonstationary = (s.rising = TRUE)
<1> DEFINE conf     == BaseConfidence(s, FALSE, TRUE)
           util     == AtLeast(s.mem_p95, RS_MEM_UNDER_PCT)
           paging   == MemPagingActive(s)
           triggers == Fired([mem_util |-> util, mem_saturation |-> paging, mem_oom |-> s.oom])
           peak     == IF s.near_peak # None THEN s.near_peak ELSE s.mem_p95
           target   == MemTargetMb(peak, s.mem_total)
           up       == MemUnderTarget(target, s)
           a        == assess_memory(s)
<1>1. a = IF s.mem_p95 = None
          THEN IF s.oom
               THEN Judged("under", {"mem_oom"}, None, WithHeadroom(s.mem_total), conf)
               ELSE Plain("unmeasured", Gap(conf, TRUE))
          ELSE IF triggers # {}
          THEN Judged("under", triggers, up, IF up = None THEN WithHeadroom(s.mem_total) ELSE None, conf)
          ELSE IF Above(s.mem_total, 0) /\ Above(target, 0) /\ target < s.mem_total
          THEN Judged("over", {}, target, None, conf)
          ELSE Judged("optimal", {}, s.mem_total, None, conf)
  BY Zenon DEF assess_memory
<1>2. /\ conf.low_precision = PrecisionLow(s) /\ Gap(conf, TRUE).low_precision = PrecisionLow(s)
      /\ conf.coverage_gap = FALSE /\ Gap(conf, TRUE).coverage_gap = TRUE
      /\ conf.biased = FALSE /\ Gap(conf, TRUE).biased = FALSE
      /\ conf.nonstationary = (s.rising = TRUE) /\ Gap(conf, TRUE).nonstationary = (s.rising = TRUE)
  BY DEF Gap, BaseConfidence
<1>3. /\ triggers \subseteq {"mem_util", "mem_saturation", "mem_oom"}
      /\ "mem_util" \in triggers <=> util
      /\ "mem_saturation" \in triggers <=> paging
      /\ "mem_oom" \in triggers <=> s.oom
  BY DEF Fired, IsStats
<1>4. triggers # {} <=> MemShort(s)
  <2>1. paging => util
    BY MemSaturated DEF MemPagingActive
  <2> QED
    BY <1>3, <2>1 DEF MemShort
<1>5. s.mem_total \in Measure /\ WithHeadroom(s.mem_total) \in Measure
  BY Headroom DEF IsStats
<1>6. s.mem_p95 # None => target \in Measure
  <2>1. s.mem_p95 # None => peak \in Nat
    BY DEF IsStats, Measure
  <2> HIDE DEF peak
  <2> QED
    BY <1>5, <2>1, MemTargetType
<1>7. s.mem_p95 # None => /\ up \in Measure
                          /\ Above(s.mem_total, 0) /\ up # None => up > s.mem_total
  BY <1>6, MemUnder
<1>8. s.mem_p95 = None => ~util
  BY DEF AtLeast
<1>9. MemShort(s) <=> s.oom \/ util
  BY DEF MemShort
<1> HIDE DEF conf, util, paging, triggers, target, up, a
<1> DEFINE Fits == /\ a.status \in {"unmeasured", "under", "over", "optimal"}
                   /\ a.target \in Measure /\ a.floor \in Measure
                   /\ a.status = "under" <=> MemShort(s)
                   /\ a.status = "under" /\ s.mem_total # None => a.target # None \/ a.floor # None
                   /\ a.status = "under" /\ Above(s.mem_total, 0) =>
                         /\ a.target # None => a.target > s.mem_total
                         /\ a.floor # None => a.floor > s.mem_total
                   /\ a.status = "over" => a.target \in Nat \ {0} /\ a.target < s.mem_total
                   /\ "mem_util" \in a.triggers => util
                   /\ a.triggers \subseteq {"mem_util", "mem_saturation", "mem_oom"}
                   /\ a.triggers # {} <=> a.status = "under"
                   /\ a.conf = IF a.status = "unmeasured" THEN Gap(conf, TRUE) ELSE conf
<1>10. Fits
  <2>1. CASE s.mem_p95 = None /\ s.oom
    <3>1. a = Judged("under", {"mem_oom"}, None, WithHeadroom(s.mem_total), conf)
      BY <1>1, <2>1
    <3>2. MemShort(s)
      BY <1>9, <2>1
    <3> QED
      BY <1>5, <3>1, <3>2, Headroom DEF Judged, Measure
  <2>2. CASE s.mem_p95 = None /\ ~s.oom
    <3>1. a = Plain("unmeasured", Gap(conf, TRUE))
      BY <1>1, <2>2
    <3>2. ~MemShort(s)
      BY <1>8, <1>9, <2>2
    <3> QED
      BY <3>1, <3>2 DEF Plain, Judged, Measure
  <2>3. CASE s.mem_p95 # None /\ triggers # {}
    <3>1. a = Judged("under", triggers, up, IF up = None THEN WithHeadroom(s.mem_total) ELSE None, conf)
      BY <1>1, <2>3
    <3> QED
      BY <1>3, <1>4, <1>5, <1>7, <2>3, <3>1, Headroom DEF Judged, Measure
  <2>4. CASE s.mem_p95 # None /\ triggers = {}
    <3>1. \/ a = Judged("over", {}, target, None, conf) /\ Above(target, 0) /\ target < s.mem_total
          \/ a = Judged("optimal", {}, s.mem_total, None, conf)
      BY <1>1, <2>4
    <3>2. ~MemShort(s) /\ target \in Measure
      BY <1>4, <1>6, <2>4
    <3>3. CASE a = Judged("over", {}, target, None, conf) /\ Above(target, 0) /\ target < s.mem_total
      <4>1. target \in Nat \ {0}
        BY <3>2, <3>3 DEF Above, Measure
      <4> QED
        BY <3>2, <3>3, <4>1 DEF Judged, Measure
    <3>4. CASE a = Judged("optimal", {}, s.mem_total, None, conf)
      BY <1>5, <3>2, <3>4 DEF Judged, Measure
    <3> QED
      BY <3>1, <3>3, <3>4
  <2> QED
    BY <2>1, <2>2, <2>3, <2>4
<1> QED
  BY <1>2, <1>10 DEF a, util

-----------------------------------------------------------------------------
(* Disks and network *)

DiskShort(s) ==
    \/ Below(s.runway, RS_DISK_RUNWAY_DAYS) \/ Below(s.inode_runway, RS_DISK_RUNWAY_DAYS)
    \/ StaticallyFull(s.runway, s.disk_used) \/ StaticallyFull(s.inode_runway, s.inode_used)

(* The shorter of two runways is short exactly if one of them is. *)
LEMMA MinRunwayFacts ==
    ASSUME NEW a \in Measure, NEW b \in Measure
    PROVE  Below(MinRunway({a, b}), RS_DISK_RUNWAY_DAYS) <=>
               Below(a, RS_DISK_RUNWAY_DAYS) \/ Below(b, RS_DISK_RUNWAY_DAYS)
<1>1. MinRunway({a, b}) = Least({a, b})
  BY DEF MinRunway, Least
<1>2. {a, b} \subseteq Measure
  OBVIOUS
<1>3. /\ Least({a, b}) \in Measure
      /\ Least({a, b}) # None => Least({a, b}) \in {a, b}
      /\ a # None => Least({a, b}) # None /\ Least({a, b}) <= a
      /\ b # None => Least({a, b}) # None /\ Least({a, b}) <= b
  BY <1>2, LeastFacts
<1> QED
  BY <1>1, <1>3 DEF Below, Measure, RS_DISK_RUNWAY_DAYS

(* When assess_disk_capacity says filling. *)
LEMMA DiskJudged ==
    ASSUME NEW s, IsStats(s)
    PROVE  LET a == assess_disk_capacity(s)
           IN  /\ a.status \in {"filling", "unmeasured", "capacity_ok"}
               /\ a.status = "filling" <=> DiskShort(s)
               /\ a.conf.low_precision = PrecisionLow(s)
<1> DEFINE conf    == BaseConfidence(s, FALSE, FALSE)
           runway  == MinRunway({s.runway, s.inode_runway})
           target  == IF AtLeast(s.target_gb, 1) THEN s.target_gb ELSE None
           Filling(gb) == Judged("filling", {"disk_capacity"}, gb, None, conf)
           bytes   == StaticallyFull(s.runway, s.disk_used)
           inodes  == StaticallyFull(s.inode_runway, s.inode_used)
           soon    == Below(runway, RS_DISK_RUNWAY_DAYS)
           a       == assess_disk_capacity(s)
<1>1. a = IF soon THEN Filling(IF runway = s.runway THEN target ELSE None)
          ELSE IF bytes THEN Filling(target)
          ELSE IF inodes THEN Filling(None)
          ELSE IF runway = None /\ s.disk_used = None /\ s.inode_used = None
          THEN Plain("unmeasured", Gap(conf, TRUE))
          ELSE Plain("capacity_ok", conf)
  BY DEF assess_disk_capacity
<1>2. conf.low_precision = PrecisionLow(s) /\ Gap(conf, TRUE).low_precision = PrecisionLow(s)
  BY DEF Gap, BaseConfidence
<1>3. soon <=> Below(s.runway, RS_DISK_RUNWAY_DAYS) \/ Below(s.inode_runway, RS_DISK_RUNWAY_DAYS)
  BY MinRunwayFacts DEF IsStats
<1>4. DiskShort(s) <=> soon \/ bytes \/ inodes
  BY <1>3 DEF DiskShort
<1> HIDE DEF conf, runway, target, bytes, inodes, soon, a
<1>5. /\ a.status \in {"filling", "unmeasured", "capacity_ok"}
      /\ a.status = "filling" <=> soon \/ bytes \/ inodes
      /\ a.conf = conf \/ a.conf = Gap(conf, TRUE)
  BY <1>1 DEF Plain, Judged
<1> QED
  BY <1>2, <1>4, <1>5 DEF a

(* When a disk's wait says saturated, not saturated or nothing. *)
LEMMA IoSaturated ==
    ASSUME NEW s, IsStats(s)
    PROVE  /\ disk_io_saturated(s) = TRUE <=> Above(s.disk_await, RS_DISKIO_AWAIT_MS)
           /\ disk_io_saturated(s) = FALSE <=> s.disk_await # None /\ ~Above(s.disk_await, RS_DISKIO_AWAIT_MS)
           /\ disk_io_saturated(s) = None <=> s.disk_await = None
<1>1. None # TRUE /\ None # FALSE
  BY NoneAssumption
<1>2. CASE s.disk_await # None
  <2>1. disk_io_saturated(s) = (s.disk_await > RS_DISKIO_AWAIT_MS)
    BY <1>2 DEF disk_io_saturated
  <2>2. CASE s.disk_await > RS_DISKIO_AWAIT_MS
    <3>1. disk_io_saturated(s) = TRUE /\ Above(s.disk_await, RS_DISKIO_AWAIT_MS)
      BY <1>2, <2>1, <2>2 DEF Above
    <3> QED
      BY <1>1, <1>2, <3>1
  <2>3. CASE ~(s.disk_await > RS_DISKIO_AWAIT_MS)
    <3>1. ~Above(s.disk_await, RS_DISKIO_AWAIT_MS)
      BY <1>2, <2>3 DEF Above
    <3>2. (s.disk_await > RS_DISKIO_AWAIT_MS) = FALSE
      BY <2>3
    <3>3. disk_io_saturated(s) = FALSE
      BY <2>1, <3>2
    <3> QED
      BY <1>1, <1>2, <3>1, <3>3
  <2> QED
    BY <2>2, <2>3
<1>3. CASE s.disk_await = None
  <2>1. disk_io_saturated(s) = None
    BY <1>3 DEF disk_io_saturated, IsStats
  <2> QED
    BY <1>1, <1>3, <2>1 DEF Above
<1> QED
  BY <1>2, <1>3

(* When assess_disk_io says io_bound. *)
LEMMA IoJudged ==
    ASSUME NEW s, IsStats(s)
    PROVE  LET a == assess_disk_io(s)
           IN  /\ a.status \in {"io_bound", "io_ok", "unmeasured"}
               /\ a.status = "io_bound" <=> Above(s.disk_await, RS_DISKIO_AWAIT_MS)
               /\ a.conf.low_precision = PrecisionLow(s)
<1> DEFINE conf == BaseConfidence(s, TRUE, FALSE)
           sat  == disk_io_saturated(s)
           a    == assess_disk_io(s)
<1>1. conf.low_precision = PrecisionLow(s) /\ Gap(conf, TRUE).low_precision = PrecisionLow(s)
  BY DEF Gap, BaseConfidence
<1>2. CASE sat = TRUE
  <2>1. a = Judged("io_bound", {"disk_io"}, None, None, conf)
    BY <1>2, NoneAssumption DEF assess_disk_io
  <2>2. a.status = "io_bound" /\ a.conf = conf
    BY <2>1 DEF Judged
  <2>3. Above(s.disk_await, RS_DISKIO_AWAIT_MS)
    BY <1>2, IoSaturated
  <2> QED
    BY <1>1, <2>2, <2>3
<1>3. CASE sat = FALSE
  <2>1. a = Plain("io_ok", conf)
    BY <1>3, NoneAssumption DEF assess_disk_io
  <2>2. a.status = "io_ok" /\ a.conf = conf
    BY <2>1 DEF Plain, Judged
  <2>3. ~Above(s.disk_await, RS_DISKIO_AWAIT_MS)
    BY <1>3, IoSaturated
  <2> QED
    BY <1>1, <2>2, <2>3
<1>4. CASE sat = None
  <2>1. a = Plain("io_ok", conf) \/ a = Plain("unmeasured", Gap(conf, TRUE))
    BY <1>4, NoneAssumption DEF assess_disk_io
  <2>2. ~Above(s.disk_await, RS_DISKIO_AWAIT_MS)
    BY <1>4, IoSaturated DEF Above
  <2>3. CASE a = Plain("io_ok", conf)
    <3>1. a.status = "io_ok" /\ a.conf = conf
      BY <2>3 DEF Plain, Judged
    <3> QED
      BY <1>1, <2>2, <3>1
  <2>4. CASE a = Plain("unmeasured", Gap(conf, TRUE))
    <3>1. a.status = "unmeasured" /\ a.conf = Gap(conf, TRUE)
      BY <2>4 DEF Plain, Judged
    <3> QED
      BY <1>1, <2>2, <3>1
  <2> QED
    BY <2>1, <2>3, <2>4
<1> QED
  BY <1>2, <1>3, <1>4, IoSaturated

NetCongested(s) == net_signal_active(s.retrans, s.drop, s.conntrack, s.net_avg)

(* When assess_network says congested. *)
LEMMA NetJudged ==
    ASSUME NEW s
    PROVE  LET a == assess_network(s)
           IN  /\ a.status \in {"congested", "unmeasured", "quality_ok"}
               /\ a.status = "congested" <=> NetCongested(s)
               /\ a.conf.low_precision = PrecisionLow(s)
<1> DEFINE conf     == BaseConfidence(s, FALSE, FALSE)
           ratios   == ~LowTraffic(s.net_avg)
           triggers == Fired([net_retrans   |-> ratios /\ Above(s.retrans, RS_NET_RETRANS_TENTHS),
                              net_drop      |-> ratios /\ Above(s.drop, RS_NET_DROP_TENTHS),
                              net_conntrack |-> AtLeast(s.conntrack, RS_CONNTRACK_PCT)])
           a        == assess_network(s)
<1>1. a = IF triggers # {} THEN Judged("congested", triggers, None, None, conf)
          ELSE IF Known({s.retrans, s.drop, s.conntrack}) = {}
          THEN Plain("unmeasured", Gap(conf, TRUE))
          ELSE Plain("quality_ok", conf)
  BY Zenon DEF assess_network
<1>2. conf.low_precision = PrecisionLow(s) /\ Gap(conf, TRUE).low_precision = PrecisionLow(s)
  BY DEF Gap, BaseConfidence
<1>3. triggers # {} <=> NetCongested(s)
  <2>1. /\ triggers \subseteq {"net_retrans", "net_drop", "net_conntrack"}
        /\ "net_retrans" \in triggers <=> ratios /\ Above(s.retrans, RS_NET_RETRANS_TENTHS)
        /\ "net_drop" \in triggers <=> ratios /\ Above(s.drop, RS_NET_DROP_TENTHS)
        /\ "net_conntrack" \in triggers <=> AtLeast(s.conntrack, RS_CONNTRACK_PCT)
    BY DEF Fired
  <2> HIDE DEF triggers
  <2> QED
    BY <2>1 DEF NetCongested, net_signal_active
<1> HIDE DEF conf, triggers, a
<1>4. /\ a.status \in {"congested", "unmeasured", "quality_ok"}
      /\ a.status = "congested" <=> triggers # {}
      /\ a.conf = conf \/ a.conf = Gap(conf, TRUE)
  BY <1>1 DEF Plain, Judged
<1> QED
  BY <1>2, <1>3, <1>4 DEF a

-----------------------------------------------------------------------------
(* The host *)

(* The fields of rollup_host. *)
LEMMA HostFields ==
    ASSUME NEW s
    PROVE  LET host == rollup_host(s)
               res  == host.resources
           IN  /\ res = Resources(s)
               /\ res.cpu = assess_cpu(s) /\ res["cpu"] = assess_cpu(s)
               /\ res.memory = assess_memory(s) /\ res["memory"] = assess_memory(s)
               /\ res.disk_capacity = assess_disk_capacity(s)
               /\ res["disk_capacity"] = assess_disk_capacity(s)
               /\ res.disk_io = assess_disk_io(s) /\ res["disk_io"] = assess_disk_io(s)
               /\ res.network = assess_network(s) /\ res["network"] = assess_network(s)
               /\ host.host_status = HostStatus(s, res)
               /\ host.root_cause = RootCause(s, res)
               /\ host.symptoms = Symptoms(s, res)
               /\ host.sufficiency = s.sufficiency
<1>1. /\ Resources(s).cpu = assess_cpu(s) /\ Resources(s).memory = assess_memory(s)
      /\ Resources(s).disk_capacity = assess_disk_capacity(s)
      /\ Resources(s).disk_io = assess_disk_io(s) /\ Resources(s).network = assess_network(s)
  BY DEF Resources
<1>2. LET host == rollup_host(s)
      IN  /\ host.resources = Resources(s) /\ host.host_status = HostStatus(s, Resources(s))
          /\ host.root_cause = RootCause(s, Resources(s))
          /\ host.symptoms = Symptoms(s, Resources(s)) /\ host.sufficiency = s.sufficiency
  BY DEF rollup_host
<1> QED
  BY <1>1, <1>2

\* Which statuses the resources of a host can have.
Statuses(res) ==
    /\ res.cpu.status \in {"unmeasured", "under", "over", "optimal"}
    /\ res.memory.status \in {"unmeasured", "under", "over", "optimal"}
    /\ res.disk_capacity.status \in {"filling", "unmeasured", "capacity_ok"}
    /\ res.disk_io.status \in {"io_bound", "io_ok", "unmeasured"}
    /\ res.network.status \in {"congested", "unmeasured", "quality_ok"}

(* The five judgements have the statuses they may have. *)
LEMMA HostStatuses ==
    ASSUME NEW s, IsStats(s)
    PROVE  Statuses(Resources(s))
<1>1. /\ Resources(s).cpu = assess_cpu(s) /\ Resources(s).memory = assess_memory(s)
      /\ Resources(s).disk_capacity = assess_disk_capacity(s)
      /\ Resources(s).disk_io = assess_disk_io(s) /\ Resources(s).network = assess_network(s)
  BY DEF Resources
<1>2. assess_cpu(s).status \in {"unmeasured", "under", "over", "optimal"}
  BY CpuJudged
<1>3. assess_memory(s).status \in {"unmeasured", "under", "over", "optimal"}
  BY MemJudged
<1>4. assess_disk_capacity(s).status \in {"filling", "unmeasured", "capacity_ok"}
  BY DiskJudged
<1>5. assess_disk_io(s).status \in {"io_bound", "io_ok", "unmeasured"}
  BY IoJudged
<1>6. assess_network(s).status \in {"congested", "unmeasured", "quality_ok"}
  BY NetJudged
<1> QED
  BY <1>1, <1>2, <1>3, <1>4, <1>5, <1>6 DEF Statuses

(* The resources that make a host short, by status. *)
LEMMA UnderKindsFacts ==
    ASSUME NEW res, Statuses(res)
    PROVE  /\ UnderKinds(res) \subseteq {"cpu", "memory", "disk_capacity"}
           /\ "cpu" \in UnderKinds(res) <=> res.cpu.status = "under"
           /\ "memory" \in UnderKinds(res) <=> res.memory.status = "under"
           /\ "disk_capacity" \in UnderKinds(res) <=> res.disk_capacity.status = "filling"
BY DEF Statuses, UnderKinds, Kinds

HostShort(s) == CpuShort(s) \/ MemShort(s) \/ DiskShort(s)

\* A host is short of resources exactly if one of its resources is.
LEMMA HostUnder ==
    ASSUME NEW s, IsStats(s)
    PROVE  /\ rollup_host(s).host_status = "under" <=> UnderKinds(Resources(s)) # {}
           /\ rollup_host(s).host_status = "under" <=> HostShort(s)
<1>1. rollup_host(s).host_status = "under" <=> UnderKinds(Resources(s)) # {}
  BY HostFields DEF HostStatus
<1>2. UnderKinds(Resources(s)) # {} <=> HostShort(s)
  <2>1. PICK res : res = Resources(s) /\ Statuses(res)
    BY HostStatuses
  <2>2. /\ res.cpu = assess_cpu(s) /\ res.memory = assess_memory(s)
        /\ res.disk_capacity = assess_disk_capacity(s)
    BY <2>1 DEF Resources
  <2>3. /\ UnderKinds(res) \subseteq {"cpu", "memory", "disk_capacity"}
        /\ "cpu" \in UnderKinds(res) <=> res.cpu.status = "under"
        /\ "memory" \in UnderKinds(res) <=> res.memory.status = "under"
        /\ "disk_capacity" \in UnderKinds(res) <=> res.disk_capacity.status = "filling"
    BY <2>1, UnderKindsFacts
  <2>4. res.cpu.status = "under" <=> CpuShort(s)
    BY <2>2, CpuJudged
  <2>5. res.memory.status = "under" <=> MemShort(s)
    BY <2>2, MemJudged
  <2>6. res.disk_capacity.status = "filling" <=> DiskShort(s)
    BY <2>2, DiskJudged
  <2> QED
    BY <2>1, <2>3, <2>4, <2>5, <2>6 DEF HostShort
<1> QED
  BY <1>1, <1>2

\* The root cause and the root-cause column of one host.
Explained(host) ==
    LET shown == root_cause_display(host)
    IN  /\ host.host_status = "under" <=> host.root_cause # None
        /\ host.host_status = "under" <=> shown.root # {}
        /\ \A k \in shown.root \cup shown.causes :
              host.resources[k].status \in {"under", "filling", "io_bound"}

(* A host's verdict is explained by its root cause. *)
LEMMA HostExplained ==
    ASSUME NEW s, IsStats(s)
    PROVE  Explained(rollup_host(s))
<1> DEFINE host == rollup_host(s)
           res == Resources(s)
           under == UnderKinds(res)
           shown == root_cause_display(host)
<1>1. /\ host.resources = res /\ host.root_cause = RootCause(s, res) /\ host.symptoms = Symptoms(s, res)
      /\ host.host_status = "under" <=> under # {}
  BY HostFields, HostUnder
<1>2. Statuses(res)
  BY HostStatuses
<1> HIDE DEF host, res
<1>3. /\ under \subseteq {"cpu", "memory", "disk_capacity"}
      /\ "cpu" \in under <=> res.cpu.status = "under"
      /\ "memory" \in under <=> res.memory.status = "under"
      /\ \A k \in under : res[k].status \in {"under", "filling"}
  BY <1>2, UnderKindsFacts DEF UnderKinds
<1>4. MemoryDriven(s, res) => "memory" \in under
  BY <1>3 DEF MemoryDriven
<1>5. DiskDriven(s, res) => "cpu" \in under /\ res.disk_io.status = "io_bound"
  BY <1>3 DEF DiskDriven
<1>6. /\ RootCause(s, res) \in {"memory", "disk_io", "cpu", "disk_capacity", None}
      /\ RootCause(s, res) # None <=> under # {}
      /\ RootCause(s, res) = "disk_io" => DiskDriven(s, res)
      /\ RootCause(s, res) \in {"memory", "cpu", "disk_capacity"} => RootCause(s, res) \in under
  <2> HIDE DEF under
  <2>0. None \notin {"memory", "disk_io", "cpu", "disk_capacity"}
    BY NoneAssumption DEF Kinds
  <2>1. CASE MemoryDriven(s, res)
    BY <1>4, <2>0, <2>1 DEF RootCause
  <2>2. CASE ~MemoryDriven(s, res) /\ DiskDriven(s, res)
    BY <1>5, <2>0, <2>2 DEF RootCause
  <2>3. CASE ~MemoryDriven(s, res) /\ ~DiskDriven(s, res)
    <3>1. RootCause(s, res) = CASE "memory" \in under -> "memory"
                               [] "memory" \notin under /\ "cpu" \in under -> "cpu"
                               [] under = {"disk_capacity"} -> "disk_capacity"
                               [] OTHER -> None
      BY <2>3 DEF RootCause, under
    <3>2. CASE "memory" \in under
      BY <2>0, <3>1, <3>2
    <3>3. CASE "memory" \notin under /\ "cpu" \in under
      BY <2>0, <3>1, <3>3
    <3>4. CASE "memory" \notin under /\ "cpu" \notin under /\ under # {}
      <4>1. under = {"disk_capacity"}
        BY <1>3, <3>4
      <4> QED
        BY <2>0, <3>1, <3>4, <4>1
    <3>5. CASE under = {}
      BY <2>0, <3>1, <3>5
    <3> QED
      BY <3>2, <3>3, <3>4, <3>5
  <2> QED
    BY <2>1, <2>2, <2>3
<1>7. \A k \in Symptoms(s, res) : res[k].status \in {"under", "filling", "io_bound"}
  BY <1>3 DEF Symptoms
<1>8. /\ shown.root # {} <=> under # {}
      /\ \A k \in shown.root \cup shown.causes : res[k].status \in {"under", "filling", "io_bound"}
  <2>0. UnderKinds(host.resources) = under
    BY <1>1
  <2> HIDE DEF under
  <2>1. CASE under = {}
    <3>1. shown = [root |-> {}, causes |-> {}]
      BY <2>0, <2>1 DEF root_cause_display
    <3> QED
      BY <2>1, <3>1
  <2>2. CASE under # {} /\ host.symptoms # {} /\ host.root_cause # None
    <3>1. shown = [root |-> {host.root_cause}, causes |-> host.symptoms]
      BY <2>0, <2>2 DEF root_cause_display
    <3>2. res[host.root_cause].status \in {"under", "filling", "io_bound"}
      BY <1>1, <1>3, <1>5, <1>6, <2>2
    <3> QED
      BY <1>1, <1>7, <2>2, <3>1, <3>2
  <2>3. CASE under # {} /\ ~(host.symptoms # {} /\ host.root_cause # None)
    <3>1. shown = [root |-> under, causes |-> {}]
      BY <2>0, <2>3 DEF root_cause_display
    <3>2. shown.root = under /\ shown.causes = {}
      BY <3>1
    <3> HIDE DEF shown
    <3> QED
      BY <1>3, <2>3, <3>2
  <2> QED
    BY <2>1, <2>2, <2>3
<1> QED
  BY <1>1, <1>6, <1>8 DEF Explained, host

-----------------------------------------------------------------------------
(* Sizing axes *)

\* An axis fits its action.
AxisFits(x) ==
    /\ x.recommended \in Nat \ {0}
    /\ x.action = "increase" => x.recommended > x.current
    /\ x.action = "decrease" => x.recommended < x.current
    /\ x.action = "keep"     => x.recommended = x.current

\* What AxisSize makes of a judgement.
LEMMA AxisCases ==
    ASSUME NEW current, NEW a, NEW s
    PROVE  LET x == AxisSize(current, a, s)
           IN  /\ x.current = current
               /\ \/ a.status = "under" /\ a.target # None /\ x.recommended = a.target /\ x.action = "increase"
                  \/ /\ a.status = "under" /\ a.target = None /\ a.floor # None
                     /\ x.recommended = a.floor /\ x.action = "increase"
                  \/ /\ a.status = "over" /\ downsize_prescribable(a, s) /\ a.target # None
                     /\ x.recommended = a.target /\ x.action = "decrease"
                  \/ /\ x.recommended = current /\ x.action = "keep"
                     /\ a.status = "under" => a.target = None /\ a.floor = None
                     /\ a.status = "over" => ~downsize_prescribable(a, s) \/ a.target = None
<1> DEFINE x == AxisSize(current, a, s)
           Axis(rec, action, quality) ==
               [current |-> current, recommended |-> rec, action |-> action, quality |-> quality]
<1>1. CASE a.status = "under" /\ a.target # None
  <2>1. x = Axis(a.target, "increase", "exact")
    BY <1>1 DEF AxisSize
  <2> QED
    BY <1>1, <2>1
<1>2. CASE a.status = "under" /\ a.target = None /\ a.floor # None
  <2>1. x = Axis(a.floor, "increase", "floor")
    BY <1>2 DEF AxisSize
  <2> QED
    BY <1>2, <2>1
<1>3. CASE a.status = "under" /\ a.target = None /\ a.floor = None
  <2>1. x = Axis(current, "keep", "uncertain")
    BY <1>3 DEF AxisSize
  <2> QED
    BY <1>3, <2>1
<1>4. CASE a.status = "over" /\ downsize_prescribable(a, s) /\ a.target # None
  <2>1. x = Axis(a.target, "decrease", "exact")
    BY <1>4 DEF AxisSize
  <2> QED
    BY <1>4, <2>1
<1>5. CASE a.status # "under" /\ ~(a.status = "over" /\ downsize_prescribable(a, s) /\ a.target # None)
  <2>1. x = Axis(current, "keep", "uncertain") \/ x = Axis(current, "keep", "exact")
    BY <1>5 DEF AxisSize
  <2> QED
    BY <1>5, <2>1
<1> QED
  BY <1>1, <1>2, <1>3, <1>4, <1>5

(* The CPU axis has a size that fits its action. *)
LEMMA CpuAxisFits ==
    ASSUME NEW s, IsStats(s), Above(s.cpu_cores, 0)
    PROVE  LET x == CpuAxis(rollup_host(s), s) IN x.current = s.cpu_cores /\ AxisFits(x)
<1>1. PICK a : a = assess_cpu(s)
  OBVIOUS
<1>2. CpuAxis(rollup_host(s), s) = AxisSize(s.cpu_cores, a, s)
  BY <1>1, HostFields DEF CpuAxis, Above
<1>3. /\ a.status = "under" =>
            \/ a.target \in Nat /\ a.target > s.cpu_cores
            \/ a.target = None /\ a.floor = s.cpu_cores + 1
      /\ a.status = "over" => a.target \in Nat \ {0} /\ a.target < s.cpu_cores
  BY <1>1, CpuJudged
<1>4. s.cpu_cores \in Nat \ {0} /\ None \notin Nat
  BY NoneAssumption DEF IsStats, Above, Measure
<1> QED
  BY <1>2, <1>3, <1>4, AxisCases DEF AxisFits

(* The memory axis has a size that fits its action. *)
LEMMA MemAxisFits ==
    ASSUME NEW s, IsStats(s), Above(s.mem_total, 0)
    PROVE  LET x == MemoryAxis(rollup_host(s), s) IN x.current = s.mem_total /\ AxisFits(x)
<1>1. PICK a : a = assess_memory(s)
  OBVIOUS
<1>2. MemoryAxis(rollup_host(s), s) = AxisSize(s.mem_total, a, s)
  BY <1>1, HostFields DEF MemoryAxis, Above
<1>3. /\ a.target \in Measure /\ a.floor \in Measure
      /\ a.status = "under" => /\ a.target # None => a.target > s.mem_total
                               /\ a.floor # None => a.floor > s.mem_total
      /\ a.status = "over" => a.target \in Nat \ {0} /\ a.target < s.mem_total
  BY <1>1, MemJudged
<1>4. s.mem_total \in Nat \ {0} /\ None \notin Nat
  BY NoneAssumption DEF IsStats, Above, Measure
<1> QED
  BY <1>2, <1>3, <1>4, AxisCases DEF AxisFits, Measure

(* A mount's target is a size or missing. *)
LEMMA TargetType ==
    ASSUME NEW m, IsMount(m)
    PROVE  TargetSize(m) \in Int \cup {None}
<1> DEFINE lost == m.free_first - m.free_last
           WithPace(days) == Used(m) * m.span + 24 * days * lost
<1>1. CASE ~Above(m.total, 0)
  BY <1>1 DEF TargetSize
<1>2. CASE Above(m.total, 0)
  <2>1. /\ m.total \in Nat \ {0} /\ m.span \in Nat /\ lost \in Int /\ Used(m) \in Int
    BY <1>2 DEF IsMount, Above, Measure, Used
  <2>2. \A days \in Nat : WithPace(days) \in Int
    BY <2>1
  <2>3. \A x \in Int, y \in Nat \ {0} : Ceil(x, y) \in Int
    BY DEF Ceil
  <2> DEFINE p == WithPace(TARGET_RUNWAY_DAYS)
             q == 100 * WithPace(NEAR_HORIZON_DAYS)
             u == 100 * Used(m)
  <2>4. p \in Int /\ q \in Int /\ u \in Int
    BY <2>1, <2>2 DEF TARGET_RUNWAY_DAYS, NEAR_HORIZON_DAYS
  <2>5. TargetSize(m) = IF lost > 0 /\ m.span >= TREND_MIN_SPAN_HOURS THEN Ceil(p, m.span)
                        ELSE IF lost > 0 /\ m.span >= RATE_MIN_SPAN_HOURS
                        THEN Ceil(q, HEADROOM_TARGET_PCT * m.span)
                        ELSE IF m.free_last >= 0 /\ UsedPct(m) >= RS_DISK_STATIC_GUARD_PCT
                        THEN Ceil(u, HEADROOM_TARGET_PCT)
                        ELSE None
    BY <1>2 DEF TargetSize
  <2> HIDE DEF p, q, u, lost
  <2>6. CASE lost > 0 /\ m.span >= TREND_MIN_SPAN_HOURS
    <3>1. Ceil(p, m.span) \in Int
      BY <2>1, <2>3, <2>4, <2>6 DEF TREND_MIN_SPAN_HOURS
    <3> QED
      BY <2>5, <2>6, <3>1
  <2>7. CASE ~(lost > 0 /\ m.span >= TREND_MIN_SPAN_HOURS) /\ lost > 0 /\ m.span >= RATE_MIN_SPAN_HOURS
    <3>1. HEADROOM_TARGET_PCT * m.span \in Nat \ {0}
      BY <2>1, <2>7 DEF RATE_MIN_SPAN_HOURS, RS_CONFIDENCE_MIN_HOURS, HEADROOM_TARGET_PCT
    <3>2. Ceil(q, HEADROOM_TARGET_PCT * m.span) \in Int
      BY <2>3, <2>4, <3>1
    <3> QED
      BY <2>5, <2>7, <3>2
  <2>8. CASE ~(lost > 0 /\ m.span >= TREND_MIN_SPAN_HOURS) /\ ~(lost > 0 /\ m.span >= RATE_MIN_SPAN_HOURS)
    <3>1. Ceil(u, HEADROOM_TARGET_PCT) \in Int
      BY <2>3, <2>4 DEF HEADROOM_TARGET_PCT
    <3> QED
      BY <2>5, <2>8, <3>1
  <2> QED
    BY <2>6, <2>7, <2>8
<1> QED
  BY <1>1, <1>2

(* A mount's axis has a size that fits its action. *)
LEMMA MountAxisFits ==
    ASSUME NEW m, IsMount(m), assess_mount_capacity(m) # None
    PROVE  AxisFits(assess_mount_capacity(m))
<1> DEFINE target == TargetSize(m)
           bytes  == FillsUp(ByteRunway(m), UsedPct(m))
           inodes == FillsUp(InodeRunway(m), m.inode_ever)
           Sized(rec, action, quality) ==
               [current |-> m.total, recommended |-> rec, action |-> action,
                quality |-> quality, inode_note |-> inodes /\ ~bytes]
           wanted == Max({m.total, target})
           floor  == Max({m.total, Ceil(100 * m.total, HEADROOM_TARGET_PCT)})
           x == assess_mount_capacity(m)
<1>1. x = IF ~Above(m.total, 0) THEN None
          ELSE IF bytes /\ target # None
          THEN Sized(wanted, IF wanted > m.total THEN "increase" ELSE "keep", "exact")
          ELSE IF bytes THEN Sized(floor, "increase", "floor")
          ELSE Sized(m.total, "keep", "exact")
  BY DEF assess_mount_capacity
<1>2. m.total \in Nat \ {0} /\ Above(m.total, 0)
  <2>1. Above(m.total, 0)
    BY <1>1
  <2> QED
    BY <2>1 DEF Above, IsMount, Measure
<1>3. target # None => wanted \in Nat \ {0} /\ wanted >= m.total
  <2>1. target \in Int \cup {None}
    BY TargetType
  <2> HIDE DEF target
  <2>2. target \in Int => wanted = IF m.total >= target THEN m.total ELSE target
    BY <1>2, MaxOfTwo
  <2> HIDE DEF wanted
  <2> QED
    BY <1>2, <2>1, <2>2
<1>4. floor \in Nat \ {0} /\ floor > m.total
  <2>1. PICK t \in Nat \ {0} : t = m.total
    BY <1>2
  <2>2. Ceil(100 * t, HEADROOM_TARGET_PCT) \in Int /\ Ceil(100 * t, HEADROOM_TARGET_PCT) > t
    BY DEF Ceil, HEADROOM_TARGET_PCT
  <2>3. Max({t, Ceil(100 * t, HEADROOM_TARGET_PCT)}) = Ceil(100 * t, HEADROOM_TARGET_PCT)
    BY <2>2, MaxOfTwo
  <2> QED
    BY <2>1, <2>2, <2>3
<1> HIDE DEF target, bytes, inodes, wanted, floor, x
<1>5. \/ /\ target # None /\ x.current = m.total /\ x.recommended = wanted
         /\ x.action = IF wanted > m.total THEN "increase" ELSE "keep"
      \/ x.current = m.total /\ x.recommended = floor /\ x.action = "increase"
      \/ x.current = m.total /\ x.recommended = m.total /\ x.action = "keep"
  BY <1>1, <1>2
<1>6. AxisFits(x)
  BY <1>2, <1>3, <1>4, <1>5 DEF AxisFits
<1> QED
  BY <1>6 DEF x

-----------------------------------------------------------------------------
(* What is known in every state *)

\* Every view shows the current window.
ViewsInv ==
    /\ IsRow(row) /\ PeakCovers(row) /\ IsMounts(mounts)
    /\ report = ReportJudges(row, mounts)
    /\ api = ApiJudges(row, mounts)

\* The statistics of the report and those of the APIs differ in the disk activity.
SameButIops(s, t) ==
    /\ s.os_family = t.os_family /\ s.cpu_p95 = t.cpu_p95 /\ s.cpu_cores = t.cpu_cores
    /\ s.procs_running = t.procs_running /\ s.cpu_run_queue = t.cpu_run_queue
    /\ s.percore_max = t.percore_max /\ s.mem_p95 = t.mem_p95 /\ s.mem_total = t.mem_total
    /\ s.near_peak = t.near_peak /\ s.swap_paging = t.swap_paging
    /\ s.mem_pages_input = t.mem_pages_input /\ s.oom = t.oom
    /\ s.net_avg = t.net_avg /\ s.runway = t.runway /\ s.inode_runway = t.inode_runway
    /\ s.disk_used = t.disk_used /\ s.inode_used = t.inode_used
    /\ s.steal = t.steal /\ s.history = t.history /\ s.burst = t.burst /\ s.rising = t.rising

(* The statistics take these columns from the row as they are. *)
LEMMA StatsOfRow ==
    ASSUME NEW r, NEW ms, NEW b
    PROVE  LET s == build_resource_stats(r, ms, b)
           IN  /\ s.retrans = r.retrans /\ s.drop = r.drop /\ s.conntrack = r.conntrack
               /\ s.steal = r.steal /\ s.disk_iops = b /\ s.cpu_p95 = r.cpu_p95
               /\ s.cpu_cores = r.cpu_cores /\ s.mem_total = r.mem_total
               /\ s.mem_p95 = r.mem_p95 /\ s.near_peak = r.near_peak /\ s.oom = r.oom
               /\ s.os_family = r.os_family /\ s.procs_running = r.procs_running
               /\ s.cpu_run_queue = r.cpu_run_queue
BY DEF build_resource_stats

(* Report and API build the same statistics but for disk IOPS. *)
LEMMA StatsAlike ==
    ASSUME NEW r, NEW ms, NEW b, NEW c
    PROVE  SameButIops(build_resource_stats(r, ms, b), build_resource_stats(r, ms, c))
BY DEF build_resource_stats, SameButIops

(* The invariant, as facts about the two views. *)
LEMMA Views ==
    ASSUME ViewsInv
    PROVE  /\ IsStats(report.stats) /\ report.host = rollup_host(report.stats)
           /\ IsStats(api.stats) /\ api.host = rollup_host(api.stats)
           /\ report.stats.disk_iops = row.disk_iops /\ api.stats.disk_iops = None
           /\ SameButIops(report.stats, api.stats)
           /\ api.stats.retrans = row.retrans /\ api.stats.drop = row.drop
           /\ api.stats.conntrack = row.conntrack /\ api.stats.steal = row.steal
<1>1. row.disk_iops \in Measure /\ None \in Measure
  BY DEF ViewsInv, IsRow, RowColumns, Counts, ColumnType, Measure
<1>2. /\ report.stats = build_resource_stats(row, mounts, row.disk_iops)
      /\ report.host = rollup_host(report.stats)
      /\ api.stats = build_resource_stats(row, mounts, None)
      /\ api.host = rollup_host(api.stats)
  BY DEF ViewsInv, ReportJudges, ApiJudges, Judge
<1>3. IsStats(report.stats) /\ IsStats(api.stats)
  BY <1>1, <1>2, StatsTyped DEF ViewsInv
<1>4. SameButIops(report.stats, api.stats)
  BY <1>2, StatsAlike
<1>5. report.stats.disk_iops = row.disk_iops
  BY <1>2, StatsOfRow
<1> QED
  BY <1>2, <1>3, <1>4, <1>5, StatsOfRow

-----------------------------------------------------------------------------
(* Signals *)

(* An index is 100 exactly from its line on. *)
LEMMA IndexLine ==
    ASSUME NEW q \in Nat, NEW d \in Nat \ {0}
    PROVE  (100 * q) \div d \in Nat /\ ((100 * q) \div d >= 100 <=> q >= d)
OBVIOUS

(* The CPU index reaches 100 exactly when the queue is full. *)
LEMMA CpuIndex ==
    ASSUME NEW s, IsStats(s)
    PROVE  LET v == cpu_saturation_index(RunQueueValue(s), s.cpu_cores, s.os_family)
           IN  /\ v \in Measure
               /\ AtLeast(v, 100) <=> ~NoCores(s) /\ QueueFull(s)
               /\ SignalCrossed("cpu", s) <=> ~NoCores(s) /\ QueueFull(s)
<1> DEFINE q == RunQueueValue(s)
           c == s.cpu_cores
           line == SatLine(s.os_family)
           v == cpu_saturation_index(q, c, s.os_family)
<1>1. q \in Measure /\ line \in {1, 2} /\ c \in Measure
  BY QueueType DEF IsStats
<1>2. SignalCrossed("cpu", s) <=> q # None /\ Above(c, 0) /\ q >= line * c
  BY DEF SignalCrossed
<1>3. NoCores(s) <=> ~Above(c, 0)
  BY <1>1 DEF NoCores, Above, Measure
<1>4. QueueFull(s) <=> q # None /\ q >= line * c
  BY DEF QueueFull
<1>5. NoCores(s) <=> c = None \/ c = 0
  BY <1>1, NoneAssumption DEF NoCores, Measure
<1>6. v = IF q = None \/ c = None \/ c = 0 THEN None ELSE (100 * q) \div (c * line)
  BY DEF cpu_saturation_index
<1> HIDE DEF q, c, line, v
<1>7. CASE q = None \/ c = None \/ c = 0
  <2>1. v = None
    BY <1>6, <1>7
  <2>2. ~(~NoCores(s) /\ QueueFull(s))
    BY <1>4, <1>5, <1>7
  <2> QED
    BY <1>2, <1>3, <1>4, <2>1, <2>2 DEF AtLeast, Measure, v, q, c
<1>8. CASE ~(q = None \/ c = None \/ c = 0)
  <2>1. q \in Nat /\ c * line \in Nat \ {0} /\ c * line = line * c
    BY <1>1, <1>8 DEF Measure
  <2>2. v = (100 * q) \div (c * line)
    BY <1>6, <1>8
  <2>3. v \in Nat /\ (v >= 100 <=> q >= line * c)
    BY <2>1, <2>2, IndexLine
  <2>4. v \in Measure /\ (AtLeast(v, 100) <=> q >= line * c)
    BY <2>3, NoneAssumption DEF AtLeast, Measure
  <2>5. ~NoCores(s) /\ (QueueFull(s) <=> q >= line * c)
    BY <1>4, <1>5, <1>8
  <2> QED
    BY <1>2, <1>3, <1>4, <2>4, <2>5 DEF v, q, c
<1> QED
  BY <1>7, <1>8

(* The disk index reaches 100 exactly at or above the wait's line. *)
LEMMA DiskIndex ==
    ASSUME NEW s, IsStats(s)
    PROVE  AtLeast(disk_io_saturation_index(s.disk_await, s.disk_queue, s.os_family), 100)
               <=> Above(s.disk_await, RS_DISKIO_AWAIT_MS) \/ s.disk_await = RS_DISKIO_AWAIT_MS
<1>1. CASE s.disk_await = None
  <2>1. disk_io_saturation_index(s.disk_await, s.disk_queue, s.os_family) = None
    BY <1>1 DEF disk_io_saturation_index, IsStats
  <2>2. None # RS_DISKIO_AWAIT_MS
    BY NoneAssumption DEF RS_DISKIO_AWAIT_MS
  <2> QED
    BY <1>1, <2>1, <2>2 DEF AtLeast, Above
<1>2. CASE s.disk_await # None
  <2>1. PICK x \in Nat : x = s.disk_await
    BY <1>2 DEF IsStats, Measure
  <2>2. disk_io_saturation_index(s.disk_await, s.disk_queue, s.os_family) = (100 * x) \div 20
    BY <1>2, <2>1 DEF disk_io_saturation_index, RS_DISKIO_AWAIT_MS
  <2>3. (100 * x) \div 20 \in Nat /\ ((100 * x) \div 20 >= 100 <=> x >= 20)
    BY IndexLine
  <2>4. AtLeast((100 * x) \div 20, 100) <=> x >= 20
    BY <2>3, NoneAssumption DEF AtLeast
  <2>5. Above(s.disk_await, RS_DISKIO_AWAIT_MS) \/ s.disk_await = RS_DISKIO_AWAIT_MS <=> x >= 20
    BY <1>2, <2>1 DEF Above, RS_DISKIO_AWAIT_MS
  <2> QED
    BY <2>2, <2>4, <2>5
<1> QED
  BY <1>1, <1>2

(* The network signals shown are those judged. *)
LEMMA NetworkSignals == ViewsInv => NetworkSignalsAgree
<1> SUFFICES ASSUME ViewsInv PROVE NetworkSignalsAgree
  OBVIOUS
<1> DEFINE s == api.stats
           live == net_signal_active(row.retrans, row.drop, row.conntrack, s.net_avg)
           printed == NetSignalsExceeded(row) # {}
<1>1. api.host.network_congested <=> live
  <2>1. NetCongested(s) <=> live
    BY Views DEF NetCongested
  <2>2. api.host.network_congested = (assess_network(s).status = "congested")
    BY Views DEF rollup_host, Resources
  <2> QED
    BY <2>1, <2>2, NetJudged
<1>2. printed <=> \/ Above(row.retrans, RS_NET_RETRANS_TENTHS)
                  \/ Above(row.drop, RS_NET_DROP_TENTHS)
                  \/ AtLeast(row.conntrack, RS_CONNTRACK_PCT)
  <2>1. /\ NetSignalsExceeded(row) \subseteq {"retransmit", "drop", "conntrack"}
        /\ "retransmit" \in NetSignalsExceeded(row) <=> Above(row.retrans, RS_NET_RETRANS_TENTHS)
        /\ "drop" \in NetSignalsExceeded(row) <=> Above(row.drop, RS_NET_DROP_TENTHS)
        /\ "conntrack" \in NetSignalsExceeded(row) <=> AtLeast(row.conntrack, RS_CONNTRACK_PCT)
    BY DEF NetSignalsExceeded, Fired
  <2> QED
    BY <2>1
<1>3. (live => printed) /\ (printed /\ ~live => LowTraffic(s.net_avg))
  BY <1>2 DEF net_signal_active
<1> QED
  BY <1>1, <1>3 DEF NetworkSignalsAgree

\* A block that says "saturated" prints a value beyond its threshold, and one that
\* says it is not, a value at most at it.
BlockFits(k, s) ==
    LET b == saturation_block(k, s)
    IN  /\ b.saturated = TRUE /\ b.threshold # None =>
              AtLeast(b.value, b.threshold) \/ (k = "cpu" /\ Windows(s.os_family))
        /\ k # "cpu" /\ b.saturated = FALSE /\ AtLeast(b.value, b.threshold) =>
              b.value = b.threshold \/ Below(s.mem_p95, RS_MEM_UNDER_PCT)

(* The saturation blocks show what is judged, for any host. *)
LEMMA BlocksFit ==
    ASSUME NEW s, IsStats(s)
    PROVE  BlockFits("cpu", s) /\ BlockFits("memory", s) /\ BlockFits("disk_io", s)
<1>1. BlockFits("cpu", s)
  <2>1. PICK b : b = [value |-> cpu_saturation_index(RunQueueValue(s), s.cpu_cores, s.os_family),
                      threshold |-> 100 * SatLine(s.os_family), saturated |-> cpu_saturated(s)]
    OBVIOUS
  <2>2. saturation_block("cpu", s) = b
    BY <2>1 DEF saturation_block
  <2>3. b.saturated = TRUE => AtLeast(b.value, 100)
    BY <2>1, CpuSaturated, CpuIndex
  <2>4. ~Windows(s.os_family) => b.threshold = 100
    BY <2>1 DEF SatLine
  <2> QED
    BY <2>2, <2>3, <2>4 DEF BlockFits
<1>2. BlockFits("memory", s)
  <2>1. CASE Windows(s.os_family)
    <3>1. PICK b : b = [value |-> IF s.mem_pages_input = None THEN None ELSE 100 * s.mem_pages_input,
                        threshold |-> 100 * WIN_PAGES_INPUT, saturated |-> mem_saturated(s)]
      OBVIOUS
    <3>2. saturation_block("memory", s) = b
      BY <2>1, <3>1 DEF saturation_block
    <3>3. s.mem_pages_input \in Measure
      BY DEF IsStats
    <3>4. AtLeast(b.value, b.threshold) <=> AtLeast(s.mem_pages_input, WIN_PAGES_INPUT)
      BY <3>1, <3>3, NoneAssumption DEF AtLeast, Measure, WIN_PAGES_INPUT
    <3>5. b.saturated = mem_saturated(s)
      BY <3>1
    <3> QED
      BY <2>1, <3>2, <3>4, <3>5, MemSaturated DEF BlockFits
  <2>2. CASE ~Windows(s.os_family)
    <3>1. PICK b : b = [value |-> None, threshold |-> None, saturated |-> mem_saturated(s)]
      OBVIOUS
    <3>2. saturation_block("memory", s) = b
      BY <2>2, <3>1 DEF saturation_block
    <3>3. b.value = None /\ b.threshold = None
      BY <3>1
    <3> QED
      BY <3>2, <3>3 DEF BlockFits, AtLeast
  <2> QED
    BY <2>1, <2>2
<1>3. BlockFits("disk_io", s)
  <2>1. PICK b : b = [value |-> IF s.disk_await = None THEN None ELSE 100 * s.disk_await,
                      threshold |-> 100 * RS_DISKIO_AWAIT_MS, saturated |-> disk_io_saturated(s)]
    OBVIOUS
  <2>2. saturation_block("disk_io", s) = b
    BY <2>1 DEF saturation_block
  <2>3. s.disk_await \in Measure
    BY DEF IsStats
  <2>4. /\ AtLeast(b.value, b.threshold) /\ ~Above(s.disk_await, RS_DISKIO_AWAIT_MS) => b.value = b.threshold
        /\ Above(s.disk_await, RS_DISKIO_AWAIT_MS) => AtLeast(b.value, b.threshold)
    BY <2>1, <2>3, NoneAssumption DEF AtLeast, Above, Measure, RS_DISKIO_AWAIT_MS
  <2>5. b.saturated = disk_io_saturated(s)
    BY <2>1
  <2> QED
    BY <2>2, <2>4, <2>5, IoSaturated DEF BlockFits
<1> QED
  BY <1>1, <1>2, <1>3

(* The saturation signals shown are those judged. *)
LEMMA SaturationSignals == ViewsInv => SaturationSignalsAgree
<1> SUFFICES ASSUME ViewsInv PROVE SaturationSignalsAgree
  OBVIOUS
<1>1. PICK s : s = api.stats /\ IsStats(s)
  BY Views
<1> DEFINE cpu  == cpu_saturation_index(RunQueueValue(s), s.cpu_cores, s.os_family)
           disk == disk_io_saturation_index(s.disk_await, s.disk_queue, s.os_family)
<1>2. AtLeast(cpu, 100) <=> SignalCrossed("cpu", s)
  BY <1>1, CpuIndex
<1>3. cpu_saturated(s) = TRUE => AtLeast(cpu, 100)
  BY <1>1, CpuIndex, CpuSaturated
<1>4. AtLeast(disk, 100) <=> disk_io_saturated(s) = TRUE \/ s.disk_await = RS_DISKIO_AWAIT_MS
  BY <1>1, DiskIndex, IoSaturated
<1>5. \A k \in {"cpu", "memory", "disk_io"} : BlockFits(k, s)
  BY <1>1, BlocksFit
<1> HIDE DEF cpu, disk
<1> QED
  BY <1>1, <1>2, <1>3, <1>4, <1>5 DEF SaturationSignalsAgree, BlockFits, cpu, disk

-----------------------------------------------------------------------------
(* Explanations *)

\* A resource in trouble has a flagged row on its card.
LEMMA CardExplains ==
    ASSUME NEW s, IsStats(s), NEW k \in Kinds,
           rollup_host(s).resources[k].status \in {"under", "filling", "io_bound", "congested"}
    PROVE  PeriodFlags(s) \cap CardRows[k] # {}
<1> DEFINE F == PeriodFlags(s)
<1>1. /\ "cpu_util" \in F <=> AtLeast(s.cpu_p95, RS_CPU_UNDER_PCT)
      /\ "cpu_queue" \in F <=> SignalCrossed("cpu", s)
      /\ "mem_util" \in F <=> AtLeast(s.mem_p95, RS_MEM_UNDER_PCT)
      /\ "mem_oom_error" \in F <=> s.oom
      /\ "disk_used" \in F <=> AtLeast(s.disk_used, RS_DISK_STATIC_GUARD_PCT)
      /\ "disk_runway" \in F <=> Below(s.runway, RS_DISK_RUNWAY_DAYS)
      /\ "inode_runway" \in F <=> Below(s.inode_runway, RS_DISK_RUNWAY_DAYS)
      /\ "inode_used" \in F <=> AtLeast(s.inode_used, RS_DISK_STATIC_GUARD_PCT)
      /\ "disk_await" \in F <=> SignalCrossed("disk_io", s)
      /\ "net_retrans" \in F <=> AtLeast(s.retrans, RS_NET_RETRANS_TENTHS)
      /\ "net_drop" \in F <=> AtLeast(s.drop, RS_NET_DROP_TENTHS)
      /\ "net_conntrack" \in F <=> AtLeast(s.conntrack, RS_CONNTRACK_PCT)
  BY DEF PeriodFlags, Fired, IsStats
<1> HIDE DEF F
<1>2. CASE k = "cpu"
  <2>1. CpuShort(s)
    <3>1. assess_cpu(s).status = "under"
      <4>1. rollup_host(s).resources[k] = assess_cpu(s)
        BY <1>2, HostFields
      <4>2. assess_cpu(s).status \in {"unmeasured", "under", "over", "optimal"}
        BY CpuJudged
      <4> QED
        BY <4>1, <4>2
    <3> QED
      BY <3>1, CpuJudged
  <2>2. "cpu_util" \in F \/ "cpu_queue" \in F
    BY <1>1, <2>1, CpuIndex DEF CpuShort
  <2> QED
    BY <1>2, <2>2 DEF CardRows, F
<1>3. CASE k = "memory"
  <2>1. MemShort(s)
    <3>1. assess_memory(s).status = "under"
      BY <1>3, HostFields, MemJudged
    <3> QED
      BY <3>1, MemJudged
  <2>2. "mem_util" \in F \/ "mem_oom_error" \in F
    BY <1>1, <2>1 DEF MemShort
  <2> QED
    BY <1>3, <2>2 DEF CardRows, F
<1>4. CASE k = "disk_capacity"
  <2>1. DiskShort(s)
    <3>1. assess_disk_capacity(s).status = "filling"
      BY <1>4, HostFields, DiskJudged
    <3> QED
      BY <3>1, DiskJudged
  <2>2. "disk_runway" \in F \/ "inode_runway" \in F \/ "disk_used" \in F \/ "inode_used" \in F
    BY <1>1, <2>1 DEF DiskShort, StaticallyFull
  <2> QED
    BY <1>4, <2>2 DEF CardRows, F
<1>5. CASE k = "disk_io"
  <2>1. Above(s.disk_await, RS_DISKIO_AWAIT_MS)
    <3>1. assess_disk_io(s).status = "io_bound"
      BY <1>5, HostFields, IoJudged
    <3> QED
      BY <3>1, IoJudged
  <2>2. SignalCrossed("disk_io", s)
    BY <2>1 DEF SignalCrossed
  <2> QED
    BY <1>1, <1>5, <2>2 DEF CardRows, F
<1>6. CASE k = "network"
  <2>1. NetCongested(s)
    <3>1. assess_network(s).status = "congested"
      BY <1>6, HostFields, NetJudged
    <3> QED
      BY <3>1, NetJudged
  <2>2. s.retrans \in Measure /\ s.drop \in Measure
    BY DEF IsStats
  <2>3. /\ Above(s.retrans, RS_NET_RETRANS_TENTHS) => AtLeast(s.retrans, RS_NET_RETRANS_TENTHS)
        /\ Above(s.drop, RS_NET_DROP_TENTHS) => AtLeast(s.drop, RS_NET_DROP_TENTHS)
    BY <2>2 DEF Above, AtLeast, Measure, RS_NET_RETRANS_TENTHS, RS_NET_DROP_TENTHS
  <2>4. "net_retrans" \in F \/ "net_drop" \in F \/ "net_conntrack" \in F
    BY <1>1, <2>1, <2>3 DEF NetCongested, net_signal_active
  <2> QED
    BY <1>6, <2>4 DEF CardRows, F
<1> QED
  BY <1>2, <1>3, <1>4, <1>5, <1>6 DEF Kinds

\* The diagnosis column names a shortage only if there is one, and any shortage
\* unless a disk bottleneck comes first.
LEMMA DiagnosisFits ==
    ASSUME NEW s, IsStats(s), NEW r
    PROVE  LET host == rollup_host(s)
               d == Diagnosis(host, r)
           IN  /\ d \in Shortage => host.host_status = "under"
               /\ host.host_status = "under" => d \in Shortage \cup {"disk I/O bottleneck"}
<1>1. PICK host : host = rollup_host(s)
  OBVIOUS
<1> DEFINE res == host.resources
           d == Diagnosis(host, r)
<1>2. /\ Statuses(res)
      /\ host.host_status = "under" <=> UnderKinds(res) # {}
  BY <1>1, HostFields, HostStatuses, HostUnder
<1>3. /\ UnderKinds(res) \subseteq {"cpu", "memory", "disk_capacity"}
      /\ "cpu" \in UnderKinds(res) <=> res.cpu.status = "under"
      /\ "memory" \in UnderKinds(res) <=> res.memory.status = "under"
      /\ "disk_capacity" \in UnderKinds(res) <=> res.disk_capacity.status = "filling"
  BY <1>2, UnderKindsFacts
<1>4. /\ res.cpu.triggers \subseteq {"cpu_util", "cpu_saturation"}
      /\ res.cpu.triggers # {} <=> res.cpu.status = "under"
  <2>1. res.cpu = assess_cpu(s)
    BY <1>1, HostFields
  <2> HIDE DEF res
  <2> QED
    BY <2>1, CpuJudged
<1>5. /\ res.memory.triggers \subseteq {"mem_util", "mem_saturation", "mem_oom"}
      /\ res.memory.triggers # {} <=> res.memory.status = "under"
  <2>1. res.memory = assess_memory(s)
    BY <1>1, HostFields
  <2> HIDE DEF res
  <2> QED
    BY <2>1, MemJudged
<1> HIDE DEF res
<1>6. CASE host.host_status = "insufficient"
  <2>1. d = "insufficient"
    BY <1>6 DEF Diagnosis
  <2> QED
    BY <1>1, <1>6, <2>1 DEF Shortage
<1>7. CASE host.host_status # "insufficient"
  <2>0. d = _build_diagnosis(host, r)
    BY <1>7 DEF Diagnosis
  <2>1. d = IF res.memory.status = "under" /\ res.memory.triggers \cap {"mem_saturation", "mem_oom"} # {}
            THEN "memory short"
            ELSE IF res.disk_io.status = "io_bound" THEN "disk I/O bottleneck"
            ELSE IF "cpu_saturation" \in res.cpu.triggers THEN "cpu saturated"
            ELSE IF "mem_util" \in res.memory.triggers THEN "memory pressure"
            ELSE IF "cpu_util" \in res.cpu.triggers THEN "cpu pressure"
            ELSE IF res.disk_capacity.status = "filling" THEN "disk filling"
            ELSE IF host.network_congested THEN "network congested"
            ELSE IF Bursty(r.cpu_peak, r.cpu_p95, 30) \/ Bursty(r.mem_peak, r.mem_p95, 50) THEN "bursty"
            ELSE IF host.host_status = "idle" THEN "hardly used"
            ELSE IF host.host_status = "over" THEN "room to spare"
            ELSE "normal"
    BY <2>0 DEF _build_diagnosis, res
  <2> HIDE DEF d
  <2>2. d \in Shortage => host.host_status = "under"
    <3>1. d \in Shortage => \/ res.memory.status = "under" \/ res.cpu.triggers # {}
                            \/ res.memory.triggers # {} \/ res.disk_capacity.status = "filling"
      BY <2>1 DEF Shortage
    <3> QED
      BY <1>2, <1>3, <1>4, <1>5, <3>1
  <2>3. host.host_status = "under" => d \in Shortage \cup {"disk I/O bottleneck"}
    <3>1. host.host_status = "under" =>
              \/ "cpu_util" \in res.cpu.triggers \/ "cpu_saturation" \in res.cpu.triggers
              \/ "mem_util" \in res.memory.triggers
              \/ res.memory.status = "under" /\ res.memory.triggers \cap {"mem_saturation", "mem_oom"} # {}
              \/ res.disk_capacity.status = "filling"
      BY <1>2, <1>3, <1>4, <1>5
    <3> QED
      BY <2>1, <3>1 DEF Shortage
  <2> QED
    BY <1>1, <2>2, <2>3 DEF d
<1> QED
  BY <1>6, <1>7

(* The invariant implies that verdicts are explained. *)
LEMMA Verdicts == ViewsInv => VerdictsAreExplained
<1> SUFFICES ASSUME ViewsInv PROVE VerdictsAreExplained
  OBVIOUS
<1>1. ASSUME NEW view \in {report, api}, NEW k \in Kinds,
             view.host.resources[k].status \in {"under", "filling", "io_bound", "congested"}
      PROVE  PeriodFlags(view.stats) \cap CardRows[k] # {}
  <2>1. IsStats(view.stats) /\ view.host = rollup_host(view.stats)
    BY Views
  <2> QED
    BY <1>1, <2>1, CardExplains
<1>2. LET d == Diagnosis(report.host, row)
      IN  /\ d \in Shortage => report.host.host_status = "under"
          /\ report.host.host_status = "under" => d \in Shortage \cup {"disk I/O bottleneck"}
  BY Views, DiagnosisFits
<1> QED
  BY <1>1, <1>2 DEF VerdictsAreExplained

-----------------------------------------------------------------------------
(* Report and APIs *)

(* Disk IOPS do not matter for the CPU. *)
LEMMA CpuAlike ==
    ASSUME NEW s, NEW t, SameButIops(s, t)
    PROVE  assess_cpu(s) = assess_cpu(t)
<1>0. /\ s.os_family = t.os_family /\ s.cpu_p95 = t.cpu_p95 /\ s.cpu_cores = t.cpu_cores
      /\ s.procs_running = t.procs_running /\ s.cpu_run_queue = t.cpu_run_queue
      /\ s.percore_max = t.percore_max /\ s.steal = t.steal /\ s.history = t.history
      /\ s.burst = t.burst /\ s.rising = t.rising
  BY DEF SameButIops
<1>1. RunQueueValue(s) = RunQueueValue(t)
  BY <1>0 DEF RunQueueValue
<1>2. NoCores(s) <=> NoCores(t)
  BY <1>0 DEF NoCores
<1>3. cpu_saturated(s) = cpu_saturated(t)
  BY <1>0, <1>1, <1>2, Zenon DEF cpu_saturated
<1>4. PrecisionLow(s) = PrecisionLow(t)
  BY <1>0, Zenon DEF PrecisionLow
<1>5. BaseConfidence(s, AtLeast(s.steal, RS_CPU_STEAL_BIAS_PCT), TRUE)
        = BaseConfidence(t, AtLeast(t.steal, RS_CPU_STEAL_BIAS_PCT), TRUE)
  BY <1>0, <1>4, Zenon DEF BaseConfidence
<1>6. CpuTargetCores(s, cpu_saturated(s) = TRUE) = CpuTargetCores(t, cpu_saturated(t) = TRUE)
  BY <1>0, <1>1, <1>3, Zenon DEF CpuTargetCores
<1>7. PercoreBusy(s) <=> PercoreBusy(t)
  BY <1>0 DEF PercoreBusy
<1> QED
  BY <1>0, <1>2, <1>3, <1>5, <1>6, <1>7, Zenon DEF assess_cpu

(* Disk IOPS do not matter for memory. *)
LEMMA MemAlike ==
    ASSUME NEW s, NEW t, SameButIops(s, t)
    PROVE  assess_memory(s) = assess_memory(t)
<1>0. /\ s.os_family = t.os_family /\ s.mem_p95 = t.mem_p95 /\ s.mem_total = t.mem_total
      /\ s.near_peak = t.near_peak /\ s.swap_paging = t.swap_paging
      /\ s.mem_pages_input = t.mem_pages_input /\ s.oom = t.oom
      /\ s.history = t.history /\ s.burst = t.burst /\ s.rising = t.rising
  BY DEF SameButIops
<1>1. mem_saturated(s) = mem_saturated(t)
  BY <1>0, Zenon DEF mem_saturated
<1>2. MemPagingActive(s) = MemPagingActive(t)
  BY <1>1, Zenon DEF MemPagingActive
<1>3. PrecisionLow(s) = PrecisionLow(t)
  BY <1>0, Zenon DEF PrecisionLow
<1>4. BaseConfidence(s, FALSE, TRUE) = BaseConfidence(t, FALSE, TRUE)
  BY <1>0, <1>3, Zenon DEF BaseConfidence
<1>5. \A x : MemUnderTarget(x, s) = MemUnderTarget(x, t)
  BY <1>0, <1>2, Zenon DEF MemUnderTarget
<1> QED
  BY <1>0, <1>2, <1>4, <1>5, Zenon DEF assess_memory

(* The invariant implies that the views classify alike. *)
LEMMA Classes == ViewsInv => ClassesAgree
<1> SUFFICES ASSUME ViewsInv, report.host.host_status # api.host.host_status
             PROVE  api.host.host_status = "idle" /\ Above(row.disk_iops, IDLE_DISK_IOPS)
  BY DEF ClassesAgree
<1>1. PICK s : s = report.stats /\ IsStats(s) /\ report.host = rollup_host(s) /\ s.disk_iops = row.disk_iops
  BY Views
<1>2. PICK t : t = api.stats /\ IsStats(t) /\ api.host = rollup_host(t) /\ t.disk_iops = None
  BY Views
<1>3. SameButIops(s, t)
  BY <1>1, <1>2, Views
<1>4. Resources(s).cpu = Resources(t).cpu /\ Resources(s).memory = Resources(t).memory
  BY <1>3, CpuAlike, MemAlike DEF Resources
<1>5. UnderKinds(Resources(s)) # {} <=> UnderKinds(Resources(t)) # {}
  <2>1. CpuShort(s) <=> CpuShort(t)
    BY <1>3 DEF SameButIops, CpuShort, NoCores, QueueFull, RunQueueValue
  <2>2. MemShort(s) <=> MemShort(t)
    BY <1>3 DEF SameButIops, MemShort
  <2>3. DiskShort(s) <=> DiskShort(t)
    BY <1>3 DEF SameButIops, DiskShort
  <2> QED
    BY <1>1, <1>2, <2>1, <2>2, <2>3, HostUnder DEF HostShort
<1>6. Quiescent(s) <=> Quiescent(t) /\ ~Above(row.disk_iops, IDLE_DISK_IOPS)
  BY <1>1, <1>2, <1>3 DEF SameButIops, Quiescent, Above
<1>7. /\ report.host.host_status = HostStatus(s, Resources(s))
      /\ api.host.host_status = HostStatus(t, Resources(t))
  BY <1>1, <1>2, HostFields
<1> QED
  BY <1>4, <1>5, <1>6, <1>7 DEF HostStatus

\* What /api/right-sizing prescribes for one resource.
LEMMA ActionsOf ==
    ASSUME NEW s, IsStats(s), NEW k \in {"cpu", "memory"}
    PROVE  LET host == rollup_host(s)
               a == host.resources[k]
               mine == {x \in RightSizingActions(host, s) : x.resource = k}
           IN  /\ \A x \in mine : x.op \in {"increase", "decrease"} /\ x.target = a.target
               /\ (\E x \in mine : x.op = "increase") <=> a.status = "under"
               /\ (\E x \in mine : x.op = "decrease") <=>
                     host.host_status = "over" /\ downsize_prescribable(a, s) /\ a.target # None
<1>1. PICK host : host = rollup_host(s)
  OBVIOUS
<1> DEFINE res == host.resources
           a == res[k]
           acts == RightSizingActions(host, s)
           mine == {x \in acts : x.resource = k}
           io  == IF res.disk_io.status = "io_bound"
                  THEN {Action("disk_io", "tier_up", res.disk_io)} ELSE {}
           up == {Action(j, "increase", res[j]) : j \in UnderKinds(res)}
           cut == {j \in {"cpu", "memory"} : downsize_prescribable(res[j], s) /\ res[j].target # None}
           down == {Action(j, "decrease", res[j]) : j \in cut}
<1>2. /\ host.host_status = "under" <=> UnderKinds(res) # {}
      /\ k \in UnderKinds(res) <=> a.status = "under"
      /\ Statuses(res)
  <2>1. res = Resources(s) /\ Statuses(res) /\ (host.host_status = "under" <=> UnderKinds(res) # {})
    BY <1>1, HostFields, HostStatuses, HostUnder
  <2> QED
    BY <2>1, UnderKindsFacts
<1>3. acts = io \cup (IF host.host_status = "under" THEN up
                      ELSE IF host.host_status = "over" THEN down ELSE {})
  BY DEF RightSizingActions
<1> HIDE DEF acts
<1>4. \A x \in io : x.resource # k
  BY DEF Action
<1>5. \A x \in up : x.resource = k => x.op = "increase" /\ x.target = a.target
  BY DEF Action
<1>6. \A x \in down : x.resource = k => x.op = "decrease" /\ x.target = a.target
  BY DEF Action
<1>7. (\E x \in up : x.resource = k) <=> k \in UnderKinds(res)
  <2>1. ASSUME NEW x \in up, x.resource = k PROVE k \in UnderKinds(res)
    <3>1. PICK j \in UnderKinds(res) : x = Action(j, "increase", res[j])
      OBVIOUS
    <3>2. x.resource = j
      BY <3>1 DEF Action
    <3> QED
      BY <2>1, <3>2
  <2>2. ASSUME k \in UnderKinds(res) PROVE \E x \in up : x.resource = k
    <3>1. Action(k, "increase", res[k]) \in up /\ Action(k, "increase", res[k]).resource = k
      BY <2>2 DEF Action
    <3> QED
      BY <3>1
  <2> QED
    BY <2>1, <2>2
<1>8. (\E x \in down : x.resource = k) <=> downsize_prescribable(a, s) /\ a.target # None
  <2>1. ASSUME NEW x \in down, x.resource = k PROVE k \in cut
    <3>1. PICK j \in cut : x = Action(j, "decrease", res[j])
      OBVIOUS
    <3>2. x.resource = j
      BY <3>1 DEF Action
    <3> QED
      BY <2>1, <3>2
  <2>2. ASSUME k \in cut PROVE \E x \in down : x.resource = k
    <3> HIDE DEF cut
    <3>1. Action(k, "decrease", res[k]) \in down /\ Action(k, "decrease", res[k]).resource = k
      BY <2>2 DEF Action
    <3> QED
      BY <3>1
  <2>3. k \in cut <=> downsize_prescribable(a, s) /\ a.target # None
    OBVIOUS
  <2> HIDE DEF down, cut, a
  <2> QED
    BY <2>1, <2>2, <2>3
<1> HIDE DEF io, up, down, cut, a, res
<1>9. CASE host.host_status = "under"
  <2>1. \A x : x \in mine <=> x \in up /\ x.resource = k
    BY <1>3, <1>4, <1>9
  <2> HIDE DEF mine
  <2> QED
    BY <1>1, <1>2, <1>5, <1>7, <1>9, <2>1 DEF mine, acts, a, res
<1>10. CASE host.host_status = "over"
  <2>1. \A x : x \in mine <=> x \in down /\ x.resource = k
    BY <1>3, <1>4, <1>10
  <2> HIDE DEF mine
  <2> QED
    BY <1>1, <1>2, <1>6, <1>8, <1>10, <2>1 DEF mine, acts, a, res
<1>11. CASE host.host_status \notin {"under", "over"}
  <2>1. \A x : x \notin mine
    BY <1>3, <1>4, <1>11
  <2> HIDE DEF mine
  <2> QED
    BY <1>1, <1>2, <1>11, <2>1 DEF mine, acts, a, res
<1> QED
  BY <1>9, <1>10, <1>11

\* One axis of /api/assessment and the actions of /api/right-sizing for it.
LEMMA AxisAgrees ==
    ASSUME NEW s, IsStats(s), NEW k \in {"cpu", "memory"}, NEW current,
           rollup_host(s).resources[k].status = "under" =>
               rollup_host(s).resources[k].target # None \/ rollup_host(s).resources[k].floor # None
    PROVE  LET host == rollup_host(s)
               axis == AxisSize(current, host.resources[k], s)
               mine == {a \in RightSizingActions(host, s) : a.resource = k}
           IN  /\ axis.action = "increase" <=> \E a \in mine : a.op = "increase"
               /\ \A a \in mine : a.target \in {None, axis.recommended}
               /\ (\E a \in mine : a.op = "decrease") => axis.action = "decrease"
               /\ axis.action = "decrease" =>
                     \/ \E a \in mine : a.op = "decrease"
                     \/ host.host_status \in {"under", "idle"}
               /\ host.host_status = "insufficient" => axis.action = "keep"
<1>1. PICK host : host = rollup_host(s)
  OBVIOUS
<1> DEFINE a == host.resources[k]
           x == AxisSize(current, a, s)
           mine == {y \in RightSizingActions(host, s) : y.resource = k}
<1>2. /\ \A y \in mine : y.op \in {"increase", "decrease"} /\ y.target = a.target
      /\ (\E y \in mine : y.op = "increase") <=> a.status = "under"
      /\ (\E y \in mine : y.op = "decrease") <=>
            host.host_status = "over" /\ downsize_prescribable(a, s) /\ a.target # None
  BY <1>1, ActionsOf
<1>3. \/ a.status = "under" /\ a.target # None /\ x.recommended = a.target /\ x.action = "increase"
      \/ /\ a.status = "under" /\ a.target = None /\ a.floor # None
         /\ x.recommended = a.floor /\ x.action = "increase"
      \/ /\ a.status = "over" /\ downsize_prescribable(a, s) /\ a.target # None
         /\ x.recommended = a.target /\ x.action = "decrease"
      \/ /\ x.recommended = current /\ x.action = "keep"
         /\ a.status = "under" => a.target = None /\ a.floor = None
         /\ a.status = "over" => ~downsize_prescribable(a, s) \/ a.target = None
  BY AxisCases
<1>4. a.status = "under" => a.target # None \/ a.floor # None
  BY <1>1
<1>5. downsize_prescribable(a, s) => a.status = "over"
  BY DEF downsize_prescribable
<1>6. /\ host.host_status = "insufficient" => a.status = "unmeasured"
      /\ a.status = "over" => host.host_status \in {"under", "idle", "over"}
  BY <1>1, HostFields DEF HostStatus
<1> HIDE DEF a, x, mine
<1>7. x.action = "increase" <=> \E y \in mine : y.op = "increase"
  BY <1>2, <1>3, <1>4
<1>8. \A y \in mine : y.target \in {None, x.recommended}
  <2> TAKE y \in mine
  <2>1. a.status = "under" \/ (downsize_prescribable(a, s) /\ a.target # None)
    BY <1>2
  <2> QED
    BY <1>2, <1>3, <1>5, <2>1
<1>9. (\E y \in mine : y.op = "decrease") => x.action = "decrease"
  BY <1>2, <1>3, <1>5
<1>10. x.action = "decrease" => (\E y \in mine : y.op = "decrease") \/ host.host_status \in {"under", "idle"}
  BY <1>2, <1>3, <1>6
<1>11. host.host_status = "insufficient" => x.action = "keep"
  BY <1>3, <1>6
<1> QED
  BY <1>1, <1>7, <1>8, <1>9, <1>10, <1>11 DEF a, x, mine

\* At high confidence a host with room to spare gets a smaller size, unless
\* stolen time, a rising trend or a window without expected samples forbids it.
LEMMA SpareIsPrescribed ==
    ASSUME NEW s, IsStats(s),
           AssessmentConfidence(rollup_host(s)) = "high",
           rollup_host(s).host_status = "over",
           ~AtLeast(s.steal, RS_CPU_STEAL_BIAS_PCT), s.rising # TRUE, s.sufficiency # None
    PROVE  \E y \in RightSizingActions(rollup_host(s), s) : y.op = "decrease"
<1>1. PICK host : host = rollup_host(s)
  OBVIOUS
<1> DEFINE res == host.resources
<1>2. res.cpu = assess_cpu(s) /\ res.memory = assess_memory(s) /\ host.sufficiency = s.sufficiency
      /\ host.host_status = HostStatus(s, res) /\ host.host_status = "over"
  BY <1>1, HostFields
<1>3. build_host_confidence_notes(host) = {}
  BY <1>1, <1>2 DEF AssessmentConfidence
<1>4. /\ ~host_saturation_unmeasured(host)
      /\ \A k \in Kinds : ~res[k].conf.low_precision
      /\ ~Below(host.sufficiency, RS_DOWNSIZE_MIN_PCT)
  <2>1. PICK n : n = [saturation_unmeasured |-> host_saturation_unmeasured(host),
                      few_samples |-> \E k \in Kinds : host.resources[k].conf.low_precision,
                      window_not_covered |-> Below(host.sufficiency, RS_DOWNSIZE_MIN_PCT)]
    OBVIOUS
  <2>2. \A t \in DOMAIN n : ~n[t]
    BY <1>3, <2>1, Zenon DEF build_host_confidence_notes, Fired
  <2>3. /\ "saturation_unmeasured" \in DOMAIN n /\ "few_samples" \in DOMAIN n
        /\ "window_not_covered" \in DOMAIN n
    BY <2>1
  <2>4. ~n["saturation_unmeasured"] /\ ~n["few_samples"] /\ ~n["window_not_covered"]
    BY <2>2, <2>3, Zenon
  <2>5. /\ n["saturation_unmeasured"] = host_saturation_unmeasured(host)
        /\ n["few_samples"] = \E k \in Kinds : host.resources[k].conf.low_precision
        /\ n["window_not_covered"] = Below(host.sufficiency, RS_DOWNSIZE_MIN_PCT)
    BY <2>1, Zenon
  <2> QED
    BY <2>4, <2>5, Zenon
<1>5. AtLeast(s.sufficiency, RS_DOWNSIZE_MIN_PCT)
  BY <1>2, <1>4 DEF IsStats, Measure, Below, AtLeast, RS_DOWNSIZE_MIN_PCT
<1>6. \E k \in {"cpu", "memory"} : res[k].status = "over"
  BY <1>2 DEF HostStatus
<1>7. PICK k \in {"cpu", "memory"} : res[k].status = "over"
  BY <1>6
<1>8. ~res[k].conf.low_precision /\ ~res[k].conf.coverage_gap
  BY <1>4 DEF host_saturation_unmeasured, Kinds
<1>9. ~res[k].conf.biased /\ ~res[k].conf.nonstationary /\ res[k].target \in Nat
  <2>1. CASE k = "cpu"
    <3>1. res[k] = assess_cpu(s)
      BY <1>2, <2>1
    <3> HIDE DEF res
    <3> QED
      BY <1>7, <3>1, CpuJudged
  <2>2. CASE k = "memory"
    <3>1. res[k] = assess_memory(s)
      BY <1>2, <2>2
    <3> HIDE DEF res
    <3> QED
      BY <1>7, <3>1, MemJudged
  <2> QED
    BY <2>1, <2>2
<1> HIDE DEF res
<1>10. downsize_prescribable(res[k], s)
  BY <1>5, <1>7, <1>8, <1>9 DEF downsize_prescribable, HighConfidence
<1>11. res[k].target # None
  BY <1>9, NoneAssumption
<1>12. \E y \in {a \in RightSizingActions(host, s) : a.resource = k} : y.op = "decrease"
  BY <1>1, <1>2, <1>10, <1>11, ActionsOf DEF res
<1> QED
  BY <1>1, <1>12

(* The invariant implies that the APIs prescribe the same. *)
LEMMA Prescriptions == ViewsInv => PrescriptionsAgree
<1> SUFFICES ASSUME ViewsInv PROVE PrescriptionsAgree
  OBVIOUS
<1>1. PICK s : s = api.stats /\ IsStats(s) /\ api.host = rollup_host(s) /\ s.steal = row.steal
  BY Views
<1>2. PICK host : host = rollup_host(s)
  OBVIOUS
<1> DEFINE actions == RightSizingActions(host, s)
           Agree(kind, axis) ==
            LET mine == {a \in actions : a.resource = kind}
            IN  /\ axis.action = "increase" <=> \E a \in mine : a.op = "increase"
                /\ \A a \in mine : a.target \in {None, axis.recommended}
                /\ (\E a \in mine : a.op = "decrease") => axis.action = "decrease"
                /\ axis.action = "decrease" =>
                      \/ \E a \in mine : a.op = "decrease"
                      \/ host.host_status \in {"under", "idle"}
           cpu == CpuAxis(host, s)
           mem == MemoryAxis(host, s)
           Low(axis) == AssessmentConfidence(host) = "low" => axis.action = "keep"
<1>3. AssessmentConfidence(host) = "low" => host.host_status = "insufficient"
  BY DEF AssessmentConfidence
<1>4. ASSUME cpu # None PROVE Agree("cpu", cpu) /\ Low(cpu)
  <2>1. cpu = AxisSize(s.cpu_cores, host.resources["cpu"], s)
    BY <1>4 DEF CpuAxis
  <2>2. host.resources["cpu"] = assess_cpu(s)
    BY <1>2, HostFields
  <2>3. assess_cpu(s).status = "under" => assess_cpu(s).target # None \/ assess_cpu(s).floor # None
    <3>1. assess_cpu(s).status = "under" => ~NoCores(s)
      BY <1>1, CpuJudged DEF CpuShort
    <3>2. assess_cpu(s).status = "under" => s.cpu_cores \in Nat
      BY <1>1, <3>1 DEF NoCores, IsStats, Measure
    <3> QED
      <4>1. PICK a : a = assess_cpu(s)
        OBVIOUS
      <4>2. a.status = "under" => \/ a.target \in Nat
                                 \/ a.floor = s.cpu_cores + 1
        BY <1>1, <4>1, CpuJudged
      <4>3. a.status = "under" => a.target \in Nat \/ a.floor \in Nat
        BY <3>2, <4>1, <4>2
      <4> QED
        BY <4>1, <4>3, NoneAssumption
  <2> HIDE DEF cpu
  <2> QED
    BY <1>1, <1>2, <1>3, <2>1, <2>2, <2>3, AxisAgrees
<1>5. ASSUME mem # None PROVE Agree("memory", mem) /\ Low(mem)
  <2>1. mem = AxisSize(s.mem_total, host.resources["memory"], s) /\ s.mem_total # None
    BY <1>5 DEF MemoryAxis
  <2>2. host.resources["memory"] = assess_memory(s)
    BY <1>2, HostFields
  <2>3. assess_memory(s).status = "under" => assess_memory(s).target # None \/ assess_memory(s).floor # None
    BY <1>1, <2>1, MemJudged
  <2> HIDE DEF mem
  <2> QED
    BY <1>1, <1>2, <1>3, <2>1, <2>2, <2>3, AxisAgrees
<1>6. /\ AssessmentConfidence(host) = "high"
      /\ recommend_action(host.host_status, s) = "downsize"
      => \/ \E a \in actions : a.op = "decrease"
         \/ AtLeast(row.steal, RS_CPU_STEAL_BIAS_PCT) \/ s.rising = TRUE
         \/ s.sufficiency = None
  <2>1. host.host_status \in {"under", "insufficient", "idle", "over", "optimal"}
    BY <1>2, HostFields DEF HostStatus
  <2>2. recommend_action(host.host_status, s) = "downsize" => host.host_status = "over"
    BY <2>1 DEF recommend_action
  <2> QED
    BY <1>1, <1>2, <2>2, SpareIsPrescribed
<1>7. \A a \in Axes : Low(a)
  <2>1. Axes = {cpu, mem} \ {None}
    BY <1>1, <1>2 DEF Axes
  <2> HIDE DEF cpu, mem, Low
  <2> QED
    BY <1>4, <1>5, <2>1
<1>8. api.host = host /\ api.stats = s
  BY <1>1, <1>2
<1> QED
  BY <1>4, <1>5, <1>6, <1>7, <1>8 DEF PrescriptionsAgree


-----------------------------------------------------------------------------
(* Mounts *)

\* The date and the used percentage of a host, folded over its mounts, against
\* those of one mount: a full mount is missed only if it has no date and, where the
\* window shows it full, another one has.
LEMMA FullMount ==
    ASSUME NEW run \in [MountNames -> Measure], NEW top \in [MountNames -> 0..100 \cup {None}],
           NEW runway, runway = Least({run[n] : n \in MountNames}),
           NEW used, used = Greatest({top[n] : n \in MountNames}),
           ~Below(runway, RS_DISK_RUNWAY_DAYS), ~StaticallyFull(runway, used),
           NEW k \in MountNames, NEW pct, FillsUp(run[k], pct)
    PROVE  /\ run[k] = None
           /\ AtLeast(top[k], RS_DISK_STATIC_GUARD_PCT) => \E n \in MountNames : run[n] # None
<1> DEFINE R == {run[n] : n \in MountNames}
           U == {top[n] : n \in MountNames}
<1>1. /\ R \subseteq Measure /\ U \subseteq 0..100 \cup {None}
      /\ run[k] \in R /\ top[k] \in U
      /\ \A x \in R : \E n \in MountNames : x = run[n]
  OBVIOUS
<1> HIDE DEF R, U
<1>2. /\ runway = Least(R) /\ used = Greatest(U)
  BY DEF R, U
<1>3. /\ runway # None => runway \in R
      /\ runway \in Measure
      /\ run[k] # None => runway # None /\ runway <= run[k]
  BY <1>1, <1>2, LeastFacts
<1>4. /\ used \in 0..100 \cup {None}
      /\ top[k] # None => used # None /\ used >= top[k]
  BY <1>1, <1>2, GreatestFacts
<1>5. ~Below(run[k], RS_DISK_RUNWAY_DAYS)
  <2> SUFFICES ASSUME Below(run[k], RS_DISK_RUNWAY_DAYS) PROVE FALSE
    OBVIOUS
  <2>1. run[k] # None /\ run[k] \in Nat /\ run[k] < 30
    BY DEF Below, Measure, RS_DISK_RUNWAY_DAYS
  <2>2. runway # None /\ runway <= run[k] /\ runway \in Nat
    BY <1>3, <2>1 DEF Measure
  <2>3. runway < 30
    BY <2>1, <2>2
  <2> QED
    BY <2>2, <2>3 DEF Below, RS_DISK_RUNWAY_DAYS
<1>6. run[k] = None
  BY <1>5 DEF FillsUp, StaticallyFull
<1>7. ASSUME AtLeast(top[k], RS_DISK_STATIC_GUARD_PCT) PROVE AtLeast(used, RS_DISK_STATIC_GUARD_PCT)
  <2>1. top[k] # None /\ top[k] >= 85
    BY <1>7 DEF AtLeast, RS_DISK_STATIC_GUARD_PCT
  <2>2. top[k] \in 0..100 /\ used # None /\ used >= top[k] /\ used \in 0..100
    BY <1>4, <2>1
  <2>3. used >= 85
    BY <2>1, <2>2
  <2> QED
    BY <2>2, <2>3 DEF AtLeast, RS_DISK_STATIC_GUARD_PCT
<1>8. AtLeast(top[k], RS_DISK_STATIC_GUARD_PCT) => runway # None
  BY <1>7 DEF StaticallyFull
<1> QED
  BY <1>1, <1>3, <1>6, <1>8

(* The invariant implies that full mounts are seen. *)
LEMMA FullMounts == ViewsInv => FullMountsSeen
<1> SUFFICES ASSUME ViewsInv, api.host.resources.disk_capacity.status # "filling", NEW k \in MountNames
             PROVE  LET h == mounts[k]
                    IN  /\ FillsUp(ByteRunway(h), UsedPct(h)) =>
                              /\ ByteRunway(h) = None
                              /\ AtLeast(h.used_max, RS_DISK_STATIC_GUARD_PCT) =>
                                    \E n \in MountNames : ByteRunway(mounts[n]) # None
                        /\ FillsUp(InodeRunway(h), h.inode_ever) =>
                              /\ InodeRunway(h) = None
                              /\ AtLeast(h.inode_max, RS_DISK_STATIC_GUARD_PCT) =>
                                    \E n \in MountNames : InodeRunway(mounts[n]) # None
  BY DEF FullMountsSeen
<1>1. PICK s : s = api.stats /\ IsStats(s) /\ api.host = rollup_host(s)
  BY Views
<1>2. /\ ~Below(s.runway, RS_DISK_RUNWAY_DAYS) /\ ~StaticallyFull(s.runway, s.disk_used)
      /\ ~Below(s.inode_runway, RS_DISK_RUNWAY_DAYS) /\ ~StaticallyFull(s.inode_runway, s.inode_used)
  <2>1. api.host.resources.disk_capacity = assess_disk_capacity(s)
    BY <1>1, HostFields
  <2> QED
    BY <1>1, <2>1, DiskJudged DEF DiskShort
<1>3. IsMounts(mounts)
  BY DEF ViewsInv
<1>4. PICK M : M = {mounts[m] : m \in DOMAIN mounts}
  OBVIOUS
<1>5. /\ s.runway = Least({ByteRunway(m) : m \in M})
      /\ s.inode_runway = Least({InodeRunway(m) : m \in M})
      /\ s.disk_used = Greatest({m.used_max : m \in M})
      /\ s.inode_used = Greatest({m.inode_max : m \in M})
  <2>1. s = build_resource_stats(row, mounts, None)
    BY <1>1 DEF ViewsInv, ApiJudges, Judge
  <2>2. /\ s.runway = HostDisk(M).runway /\ s.inode_runway = HostDisk(M).inode_runway
        /\ s.disk_used = HostDisk(M).disk_used /\ s.inode_used = HostDisk(M).inode_used
    BY <1>4, <2>1 DEF build_resource_stats
  <2> QED
    BY <2>2 DEF HostDisk
<1>6. \A m \in MountNames : /\ ByteRunway(mounts[m]) \in Measure /\ InodeRunway(mounts[m]) \in Measure
                            /\ mounts[m].used_max \in 0..100 \cup {None}
                            /\ mounts[m].inode_max \in 0..100 \cup {None}
  <2> TAKE m \in MountNames
  <2>1. IsMount(mounts[m])
    BY <1>3 DEF IsMounts
  <2> QED
    BY <2>1, RunwayType DEF IsMount, ByteRunway, InodeRunway
<1>8. PICK bytes : bytes = [n \in MountNames |-> ByteRunway(mounts[n])]
  OBVIOUS
<1>9. PICK inodes : inodes = [n \in MountNames |-> InodeRunway(mounts[n])]
  OBVIOUS
<1>10. PICK used : used = [n \in MountNames |-> mounts[n].used_max]
  OBVIOUS
<1>11. PICK itop : itop = [n \in MountNames |-> mounts[n].inode_max]
  OBVIOUS
<1>12. /\ bytes \in [MountNames -> Measure] /\ inodes \in [MountNames -> Measure]
       /\ used \in [MountNames -> 0..100 \cup {None}] /\ itop \in [MountNames -> 0..100 \cup {None}]
  BY <1>6, <1>8, <1>9, <1>10, <1>11
<1>13. /\ {ByteRunway(m) : m \in M} = {bytes[n] : n \in MountNames}
       /\ {InodeRunway(m) : m \in M} = {inodes[n] : n \in MountNames}
       /\ {m.used_max : m \in M} = {used[n] : n \in MountNames}
       /\ {m.inode_max : m \in M} = {itop[n] : n \in MountNames}
  BY <1>3, <1>4, <1>8, <1>9, <1>10, <1>11 DEF IsMounts
<1>14. ASSUME FillsUp(ByteRunway(mounts[k]), UsedPct(mounts[k]))
       PROVE  /\ ByteRunway(mounts[k]) = None
              /\ AtLeast(mounts[k].used_max, RS_DISK_STATIC_GUARD_PCT) =>
                    \E n \in MountNames : ByteRunway(mounts[n]) # None
  <2>1. bytes[k] = ByteRunway(mounts[k]) /\ used[k] = mounts[k].used_max
    BY <1>8, <1>10
  <2>2. PICK pct : pct = UsedPct(mounts[k])
    OBVIOUS
  <2>3. /\ s.runway = Least({bytes[n] : n \in MountNames})
        /\ s.disk_used = Greatest({used[n] : n \in MountNames})
    BY <1>5, <1>13
  <2>4. FillsUp(bytes[k], pct)
    BY <1>14, <2>1, <2>2
  <2>5. /\ bytes[k] = None
        /\ AtLeast(used[k], RS_DISK_STATIC_GUARD_PCT) => \E n \in MountNames : bytes[n] # None
    BY <1>2, <1>12, <2>3, <2>4, FullMount
  <2> QED
    BY <1>8, <2>1, <2>5
<1>15. ASSUME FillsUp(InodeRunway(mounts[k]), mounts[k].inode_ever)
       PROVE  /\ InodeRunway(mounts[k]) = None
              /\ AtLeast(mounts[k].inode_max, RS_DISK_STATIC_GUARD_PCT) =>
                    \E n \in MountNames : InodeRunway(mounts[n]) # None
  <2>1. inodes[k] = InodeRunway(mounts[k]) /\ itop[k] = mounts[k].inode_max
    BY <1>9, <1>11
  <2>2. PICK pct : pct = mounts[k].inode_ever
    OBVIOUS
  <2>3. /\ s.inode_runway = Least({inodes[n] : n \in MountNames})
        /\ s.inode_used = Greatest({itop[n] : n \in MountNames})
    BY <1>5, <1>13
  <2>4. FillsUp(inodes[k], pct)
    BY <1>15, <2>1, <2>2
  <2>5. /\ inodes[k] = None
        /\ AtLeast(itop[k], RS_DISK_STATIC_GUARD_PCT) => \E n \in MountNames : inodes[n] # None
    BY <1>2, <1>12, <2>3, <2>4, FullMount
  <2> QED
    BY <1>9, <2>1, <2>5
<1> QED
  BY <1>14, <1>15

(* The invariant implies that sizes fit their actions. *)
LEMMA AxesFit == ViewsInv => AxesFitTheirAction
<1> SUFFICES ASSUME ViewsInv, NEW a \in Axes \cup MountAxes(mounts), a.current > 0
             PROVE  AxisFits(a)
  BY DEF AxesFitTheirAction, AxisFits
<1>1. PICK s : s = api.stats /\ IsStats(s) /\ api.host = rollup_host(s)
  BY Views
<1>2. CASE a = CpuAxis(rollup_host(s), s) /\ a # None
  <2>1. s.cpu_cores # None /\ a.current = s.cpu_cores
    BY <1>2, AxisCases DEF CpuAxis
  <2>2. Above(s.cpu_cores, 0)
    BY <2>1 DEF Above
  <2> QED
    BY <1>1, <1>2, <2>2, CpuAxisFits
<1>3. CASE a = MemoryAxis(rollup_host(s), s) /\ a # None
  <2>1. s.mem_total # None /\ a.current = s.mem_total
    BY <1>3, AxisCases DEF MemoryAxis
  <2>2. Above(s.mem_total, 0)
    BY <2>1 DEF Above
  <2> QED
    BY <1>1, <1>3, <2>2, MemAxisFits
<1>4. CASE a \in MountAxes(mounts)
  <2>1. PICK m \in DOMAIN mounts : a = assess_mount_capacity(mounts[m]) /\ a # None
    BY <1>4 DEF MountAxes
  <2>2. IsMount(mounts[m])
    BY DEF ViewsInv, IsMounts
  <2> QED
    BY <2>1, <2>2, MountAxisFits
<1> QED
  BY <1>1, <1>2, <1>3, <1>4 DEF Axes


-----------------------------------------------------------------------------
(* Every view shows the current window *)

(* A changed column leaves a well-formed row. *)
LEMMA RowEdit ==
    ASSUME NEW r, IsRow(r), NEW c \in RowColumns, NEW v \in ColumnType(c)
    PROVE  IsRow([r EXCEPT ![c] = v])
BY DEF IsRow

(* A scaled measure is a measure. *)
LEMMA ScaledType ==
    ASSUME NEW pct \in Measure, NEW from \in Nat, NEW to \in Nat \ {0}
    PROVE  Scaled(pct, from, to) \in Measure
<1>1. CASE pct = None
  BY <1>1 DEF Scaled, Measure
<1>2. CASE pct # None
  <2>1. pct * from \in Nat
    BY <1>2 DEF Measure
  <2>2. Ceil(pct * from, to) \in Nat
    BY <2>1, CeilType
  <2>3. Min({100, Ceil(pct * from, to)}) \in Nat
    BY <2>2, MinOfTwo
  <2> QED
    BY <1>2, <2>3 DEF Scaled, Measure
<1> QED
  BY <1>1, <1>2

\* The axes the operator follows.
LEMMA AxesToFollow ==
    ASSUME ViewsInv,
           CpuAxis(api.host, api.stats) # None, CpuAxis(api.host, api.stats).current > 0,
           MemoryAxis(api.host, api.stats) # None, MemoryAxis(api.host, api.stats).current > 0
    PROVE  LET cpu == CpuAxis(api.host, api.stats)
               mem == MemoryAxis(api.host, api.stats)
           IN  /\ cpu.current = row.cpu_cores /\ mem.current = row.mem_total
               /\ cpu.current \in Nat \ {0} /\ mem.current \in Nat \ {0}
               /\ AxisFits(cpu) /\ AxisFits(mem)
<1>1. PICK s : s = api.stats /\ IsStats(s) /\ api.host = rollup_host(s)
  BY Views
<1>2. s.cpu_cores = row.cpu_cores /\ s.mem_total = row.mem_total
  BY <1>1, StatsOfRow DEF ViewsInv, ApiJudges, Judge
<1>3. CpuAxis(rollup_host(s), s).current = s.cpu_cores /\ s.cpu_cores # None
  BY <1>1, AxisCases DEF CpuAxis
<1>4. MemoryAxis(rollup_host(s), s).current = s.mem_total /\ s.mem_total # None
  BY <1>1, AxisCases DEF MemoryAxis
<1>5. Above(s.cpu_cores, 0) /\ Above(s.mem_total, 0)
  BY <1>1, <1>3, <1>4 DEF Above
<1>6. s.cpu_cores \in Nat \ {0} /\ s.mem_total \in Nat \ {0}
  BY <1>1, <1>5 DEF Above, IsStats, Measure
<1> QED
  BY <1>1, <1>2, <1>3, <1>4, <1>5, <1>6, CpuAxisFits, MemAxisFits

(* The row of a resized host is well formed. *)
LEMMA ResizedRow ==
    ASSUME ViewsInv, Resize PROVE IsRow(row')
<1>1. PICK cpu : cpu = CpuAxis(api.host, api.stats)
  OBVIOUS
<1>2. PICK mem : mem = MemoryAxis(api.host, api.stats)
  OBVIOUS
<1>3. /\ cpu # None /\ mem # None /\ cpu.current > 0 /\ mem.current > 0
      /\ row' = [row EXCEPT !.cpu_cores = cpu.recommended,
                            !.cpu_p95   = Scaled(@, cpu.current, cpu.recommended),
                            !.mem_total = mem.recommended,
                            !.mem_p95   = Scaled(@, mem.current, mem.recommended),
                            !.near_peak = Scaled(@, mem.current, mem.recommended)]
  BY <1>1, <1>2 DEF Resize
<1>4. /\ cpu.current \in Nat \ {0} /\ mem.current \in Nat \ {0}
      /\ cpu.recommended \in Nat \ {0} /\ mem.recommended \in Nat \ {0}
  BY <1>1, <1>2, <1>3, AxesToFollow DEF AxisFits
<1>5. /\ {"cpu_cores", "cpu_p95", "mem_total", "mem_p95", "near_peak"} \subseteq RowColumns
      /\ ColumnType("cpu_cores") = Measure /\ ColumnType("cpu_p95") = Measure
      /\ ColumnType("mem_total") = Measure /\ ColumnType("mem_p95") = Measure
      /\ ColumnType("near_peak") = Measure
  BY DEF RowColumns, ColumnType, Counts
<1>6. Nat \subseteq Measure
  BY DEF Measure
<1>7. IsRow(row)
  BY DEF ViewsInv
<1>8. PICK r1 : r1 = [row EXCEPT !["cpu_cores"] = cpu.recommended]
  OBVIOUS
<1>9. IsRow(r1)
  BY <1>4, <1>5, <1>6, <1>7, <1>8, RowEdit
<1>10. PICK r2 : r2 = [r1 EXCEPT !["cpu_p95"] = Scaled(r1["cpu_p95"], cpu.current, cpu.recommended)]
  OBVIOUS
<1>11. IsRow(r2)
  <2>1. Scaled(r1["cpu_p95"], cpu.current, cpu.recommended) \in Measure
    BY <1>4, <1>5, <1>9, ScaledType DEF IsRow
  <2> QED
    BY <1>5, <1>9, <1>10, <2>1, RowEdit
<1>12. PICK r3 : r3 = [r2 EXCEPT !["mem_total"] = mem.recommended]
  OBVIOUS
<1>13. IsRow(r3)
  BY <1>4, <1>5, <1>6, <1>11, <1>12, RowEdit
<1>14. PICK r4 : r4 = [r3 EXCEPT !["mem_p95"] = Scaled(r3["mem_p95"], mem.current, mem.recommended)]
  OBVIOUS
<1>15. IsRow(r4)
  <2>1. Scaled(r3["mem_p95"], mem.current, mem.recommended) \in Measure
    BY <1>4, <1>5, <1>13, ScaledType DEF IsRow
  <2> QED
    BY <1>5, <1>13, <1>14, <2>1, RowEdit
<1>16. PICK r5 : r5 = [r4 EXCEPT !["near_peak"] = Scaled(r4["near_peak"], mem.current, mem.recommended)]
  OBVIOUS
<1>17. IsRow(r5)
  <2>1. Scaled(r4["near_peak"], mem.current, mem.recommended) \in Measure
    BY <1>4, <1>5, <1>15, ScaledType DEF IsRow
  <2> QED
    BY <1>5, <1>15, <1>16, <2>1, RowEdit
<1>18. row' = r5
  BY <1>3, <1>5, <1>7, <1>8, <1>10, <1>12, <1>14, <1>16
<1> QED
  BY <1>17, <1>18

\* Mean and peak are scaled alike.
LEMMA ScaledOrder ==
    ASSUME NEW a \in Nat, NEW b \in Nat, a <= b, NEW from \in Nat, NEW to \in Nat \ {0}
    PROVE  Scaled(a, from, to) <= Scaled(b, from, to)
<1>1. a * from \in Nat /\ b * from \in Nat
  OBVIOUS
<1>2. a * from <= b * from
  OBVIOUS
<1>3. \A x, y \in Nat : x <= y => (x + to - 1) \div to <= (y + to - 1) \div to
  OBVIOUS
<1>4. Ceil(a * from, to) <= Ceil(b * from, to)
  BY <1>1, <1>2, <1>3 DEF Ceil
<1>5. Ceil(a * from, to) \in Nat /\ Ceil(b * from, to) \in Nat
  BY <1>1, CeilType
<1>6. a # None /\ b # None
  BY NoneAssumption
<1> QED
  BY <1>4, <1>5, <1>6, MinOfTwo DEF Scaled

(* What a resized host measures under the same load. *)
LEMMA ResizedRowFields ==
    ASSUME ViewsInv, Resize
    PROVE  LET cpu == CpuAxis(api.host, api.stats)
               mem == MemoryAxis(api.host, api.stats)
           IN  /\ row'.cpu_cores = cpu.recommended /\ row'.mem_total = mem.recommended
               /\ row'.cpu_p95 = Scaled(row.cpu_p95, row.cpu_cores, cpu.recommended)
               /\ row'.mem_p95 = Scaled(row.mem_p95, row.mem_total, mem.recommended)
               /\ row'.near_peak = Scaled(row.near_peak, row.mem_total, mem.recommended)
               /\ row'.os_family = row.os_family /\ row'.procs_running = row.procs_running
               /\ row'.cpu_run_queue = row.cpu_run_queue /\ row'.oom = row.oom
               /\ row.cpu_cores \in Nat \ {0} /\ row.mem_total \in Nat \ {0}
               /\ cpu.recommended \in Nat \ {0} /\ mem.recommended \in Nat \ {0}
<1>1. PICK cpu : cpu = CpuAxis(api.host, api.stats)
  OBVIOUS
<1>2. PICK mem : mem = MemoryAxis(api.host, api.stats)
  OBVIOUS
<1>3. /\ cpu # None /\ mem # None /\ cpu.current > 0 /\ mem.current > 0
      /\ row' = [row EXCEPT !.cpu_cores = cpu.recommended,
                            !.cpu_p95   = Scaled(@, cpu.current, cpu.recommended),
                            !.mem_total = mem.recommended,
                            !.mem_p95   = Scaled(@, mem.current, mem.recommended),
                            !.near_peak = Scaled(@, mem.current, mem.recommended)]
  BY <1>1, <1>2 DEF Resize
<1>4. /\ cpu.current = row.cpu_cores /\ mem.current = row.mem_total
      /\ cpu.current \in Nat \ {0} /\ mem.current \in Nat \ {0}
      /\ cpu.recommended \in Nat \ {0} /\ mem.recommended \in Nat \ {0}
  BY <1>1, <1>2, <1>3, AxesToFollow DEF AxisFits
<1>5. {"cpu_cores", "cpu_p95", "mem_total", "mem_p95", "near_peak", "os_family", "procs_running",
       "cpu_run_queue", "oom"} \subseteq DOMAIN row
  BY DEF ViewsInv, IsRow, RowColumns, Counts, Flags
<1> QED
  BY <1>1, <1>2, <1>3, <1>4, <1>5

(* The near-peak still covers the percentile after a resize. *)
LEMMA ResizedPeak ==
    ASSUME ViewsInv, Resize PROVE PeakCovers(row')
<1>1. PICK to \in Nat \ {0} : /\ row.mem_total \in Nat \ {0}
                              /\ row'.mem_p95 = Scaled(row.mem_p95, row.mem_total, to)
                              /\ row'.near_peak = Scaled(row.near_peak, row.mem_total, to)
  BY ResizedRowFields
<1>2. row.mem_p95 \in Measure /\ row.near_peak \in Measure /\ PeakCovers(row)
  BY DEF ViewsInv, IsRow, RowColumns, ColumnType, Counts
<1> SUFFICES ASSUME row'.mem_p95 # None, row'.near_peak # None
             PROVE  row'.near_peak >= row'.mem_p95
  BY DEF PeakCovers
<1>3. row.mem_p95 # None /\ row.near_peak # None
  BY <1>1 DEF Scaled
<1>4. row.mem_p95 \in Nat /\ row.near_peak \in Nat /\ row.mem_p95 <= row.near_peak
  BY <1>2, <1>3 DEF Measure, PeakCovers
<1>5. row'.mem_p95 <= row'.near_peak
  BY <1>1, <1>4, ScaledOrder
<1>6. row'.mem_p95 \in Nat /\ row'.near_peak \in Nat
  <2>1. row'.mem_p95 \in Measure /\ row'.near_peak \in Measure
    BY <1>1, <1>2, ScaledType
  <2> QED
    BY <2>1 DEF Measure
<1> QED
  BY <1>5, <1>6

(* Every step keeps the invariant. *)
LEMMA ViewsStep == ViewsInv /\ [Next]_vars => ViewsInv'
<1> SUFFICES ASSUME ViewsInv, [Next]_vars PROVE ViewsInv'
  OBVIOUS
<1>0. IsRow(row) /\ IsMounts(mounts)
  BY DEF ViewsInv
<1>1. ASSUME NEW c \in DOMAIN Columns, Observe(c) PROVE ViewsInv'
  <2>1. PICK v \in Columns[c] : row' = [row EXCEPT ![c] = v]
    BY <1>1 DEF Observe
  <2>2. c \in RowColumns /\ v \in ColumnType(c)
    BY SizingAssumption
  <2>3. IsRow(row')
    BY <1>0, <2>1, <2>2, RowEdit
  <2> QED
    BY <1>0, <1>1, <2>3 DEF ViewsInv, Observe, JudgedAnew, IsMounts
<1>2. ASSUME NEW m \in MountNames, MountChanges(m) PROVE ViewsInv'
  <2>1. PICK h \in MountStates : mounts' = [mounts EXCEPT ![m] = h]
    BY <1>2 DEF MountChanges
  <2>2. IsMount(h)
    BY SizingAssumption
  <2>3. IsMounts(mounts')
    BY <1>0, <2>1, <2>2 DEF IsMounts
  <2> QED
    BY <1>0, <1>2, <2>3 DEF ViewsInv, MountChanges, JudgedAnew
<1>3. ASSUME Resize PROVE ViewsInv'
  <2>1. IsRow(row') /\ PeakCovers(row')
    BY <1>3, ResizedRow, ResizedPeak
  <2> QED
    BY <1>0, <1>3, <2>1 DEF ViewsInv, Resize, JudgedAnew
<1>4. CASE UNCHANGED vars
  BY <1>4 DEF ViewsInv, vars
<1> QED
  BY <1>1, <1>2, <1>3, <1>4 DEF Next

-----------------------------------------------------------------------------
(* Theorems *)

\* The invariant behind the others: row and mounts have the types of the
\* query results, and the judgements of the report and of the APIs are
\* those of the current window.
THEOREM ViewsInvariance == Spec => []ViewsInv
<1>1. Init => ViewsInv
  BY SizingAssumption DEF Init, ViewsInv, IsMounts
<1> QED
  BY <1>1, ViewsStep, PTL DEF Spec

\* Every sizing axis of /api/assessment, and every mount's, has a size that fits
\* its action, for every host that has at least one core and some memory.
THEOREM AxesAreSafe == Spec => []AxesFitTheirAction
BY ViewsInvariance, AxesFit, PTL

\* A host is short of resources exactly if a root cause is named for it, and every
\* resource the root-cause column names is one in trouble.
THEOREM RootCauses == Spec => []RootCauseExplains
<1>1. ViewsInv => RootCauseExplains
  <2> SUFFICES ASSUME ViewsInv, NEW host \in {report.host, api.host} PROVE Explained(host)
    BY DEF RootCauseExplains, Explained
  <2> QED
    BY Views, HostExplained
<1> QED
  BY <1>1, ViewsInvariance, PTL

\* The report and the APIs put a host into the same class, but for hosts only
\* their disks keep from being idle, and the two APIs prescribe the same.
THEOREM ViewsDoAgree == Spec => []ViewsAgree
<1>1. ViewsInv => ViewsAgree
  BY Classes, Prescriptions DEF ViewsAgree
<1> QED
  BY <1>1, ViewsInvariance, PTL

\* A resource the card marks as in trouble has a flagged row on that card, and the
\* diagnosis column names a shortage exactly where the badge does.
THEOREM VerdictsExplained == Spec => []VerdictsAreExplained
BY ViewsInvariance, Verdicts, PTL

\* The live signals of network and saturation are those the judgement uses.
THEOREM SignalsDoAgree == Spec => []SignalsAgree
<1>1. ViewsInv => SignalsAgree
  BY NetworkSignals, SaturationSignals DEF SignalsAgree
<1> QED
  BY <1>1, ViewsInvariance, PTL

\* A full mount makes its host short of disk, unless the mount has no date of its
\* own and another mount has one.
THEOREM FullMountsAreSeen == Spec => []FullMountsSeen
BY ViewsInvariance, FullMounts, PTL


-----------------------------------------------------------------------------
(* More load *)

\* A measured value that does not go down, or one that stays as it is.
Grows(x, y) == x = y \/ (x # None /\ y # None /\ y >= x)

\* A host short of resources stays so if only load is added.
LEMMA ShortStaysShort ==
    ASSUME NEW s, IsStats(s), NEW t, IsStats(t), HostShort(s),
           s.os_family = t.os_family, s.cpu_cores = t.cpu_cores, s.oom = t.oom,
           s.runway = t.runway, s.inode_runway = t.inode_runway,
           s.disk_used = t.disk_used, s.inode_used = t.inode_used,
           Grows(s.cpu_p95, t.cpu_p95), Grows(s.procs_running, t.procs_running),
           Grows(s.cpu_run_queue, t.cpu_run_queue), Grows(s.mem_p95, t.mem_p95)
    PROVE  HostShort(t)
<1>1. CASE DiskShort(s)
  BY <1>1 DEF DiskShort, HostShort
<1>2. CASE MemShort(s)
  <2>1. MemShort(t)
    BY <1>2 DEF MemShort, Grows, AtLeast, IsStats, Measure, RS_MEM_UNDER_PCT
  <2> QED
    BY <2>1 DEF HostShort
<1>3. CASE CpuShort(s)
  <2>1. NoCores(s) <=> NoCores(t)
    BY DEF NoCores
  <2>2. AtLeast(s.cpu_p95, RS_CPU_UNDER_PCT) => AtLeast(t.cpu_p95, RS_CPU_UNDER_PCT)
    BY DEF Grows, AtLeast, IsStats, Measure, RS_CPU_UNDER_PCT
  <2>3. s.cpu_p95 = None => t.cpu_p95 = None
    BY DEF Grows
  <2>4. ~NoCores(s) /\ QueueFull(s) => QueueFull(t)
    <3> SUFFICES ASSUME ~NoCores(s), QueueFull(s) PROVE QueueFull(t)
      OBVIOUS
    <3>1. Grows(RunQueueValue(s), RunQueueValue(t)) /\ SatLine(s.os_family) = SatLine(t.os_family)
      BY DEF RunQueueValue
    <3>2. PICK line : line = SatLine(s.os_family) * s.cpu_cores
      OBVIOUS
    <3>3. line \in Nat
      <4>1. s.cpu_cores \in Nat
        BY DEF NoCores, IsStats, Measure
      <4> QED
        BY <3>2, <4>1, QueueType
    <3>4. RunQueueValue(s) # None /\ RunQueueValue(s) >= line
      BY <3>2 DEF QueueFull
    <3>5. RunQueueValue(s) \in Measure /\ RunQueueValue(t) \in Measure
      BY QueueType
    <3>6. RunQueueValue(t) # None /\ RunQueueValue(t) >= line
      BY <3>1, <3>3, <3>4, <3>5 DEF Grows, Measure
    <3> QED
      BY <3>1, <3>2, <3>6 DEF QueueFull
  <2>5. CpuShort(t)
    BY <1>3, <2>1, <2>2, <2>3, <2>4 DEF CpuShort
  <2> QED
    BY <2>5 DEF HostShort
<1> QED
  BY <1>1, <1>2, <1>3 DEF HostShort

(* More load on one axis keeps a short host short. *)
LEMMA MoreLoadStep ==
    ASSUME ViewsInv, [Next]_vars, NEW c \in Loads \cap DOMAIN Columns, ~resized',
           row[c] # None, row'[c] # None, row'[c] > row[c], report.host.host_status = "under"
    PROVE  report'.host.host_status = "under"
<1>0. IsRow(row) /\ ViewsInv' /\ IsRow(row')
  BY ViewsStep DEF ViewsInv
<1>1. c \in RowColumns /\ row[c] \in Nat /\ row'[c] \in Nat
  <2>1. c \in Counts
    BY DEF Loads, Counts
  <2> QED
    BY <1>0, <2>1 DEF IsRow, RowColumns, ColumnType, Measure
<1>2. row' # row
  BY <1>1
<1>3. PICK d \in DOMAIN Columns : Observe(d)
  BY <1>2 DEF Next, MountChanges, Resize, vars
<1>4. PICK v : row' = [row EXCEPT ![d] = v] /\ mounts' = mounts
  BY <1>3 DEF Observe
<1>5. d = c
  BY <1>0, <1>1, <1>4 DEF IsRow
<1>6. /\ \A e \in RowColumns : e # c => row'[e] = row[e]
      /\ row'[c] >= row[c]
  BY <1>0, <1>1, <1>4, <1>5 DEF IsRow
<1>7. \A e \in RowColumns : e \in Loads => Grows(row[e], row'[e])
  BY <1>6 DEF Grows
<1>8. \A e \in RowColumns : e \notin Loads => row'[e] = row[e]
  BY <1>6
<1>9. PICK s : s = report.stats /\ IsStats(s) /\ report.host = rollup_host(s)
  BY Views
<1>10. PICK t : t = report'.stats /\ IsStats(t) /\ report'.host = rollup_host(t)
  <2>1. ViewsInv' => IsStats(report'.stats) /\ report'.host = rollup_host(report'.stats)
    <3> SUFFICES ASSUME ViewsInv' PROVE IsStats(report'.stats) /\ report'.host = rollup_host(report'.stats)
      OBVIOUS
    <3>1. IsRow(row') /\ IsMounts(mounts') /\ report' = ReportJudges(row', mounts')
      BY DEF ViewsInv
    <3>2. row'["disk_iops"] \in Measure
      BY <3>1 DEF IsRow, RowColumns, ColumnType, Counts
    <3>3. IsStats(build_resource_stats(row', mounts', row'.disk_iops))
      BY <3>1, <3>2, StatsTyped
    <3> QED
      BY <3>1, <3>3 DEF ReportJudges, Judge
  <2> QED
    BY <1>0, <2>1
<1>11. s = build_resource_stats(row, mounts, row.disk_iops)
  BY <1>9 DEF ViewsInv, ReportJudges, Judge
<1>12. t = build_resource_stats(row', mounts, row'.disk_iops)
  BY <1>0, <1>4, <1>10 DEF ViewsInv, ReportJudges, Judge
<1>13. /\ s.runway = t.runway /\ s.inode_runway = t.inode_runway
       /\ s.disk_used = t.disk_used /\ s.inode_used = t.inode_used
  BY <1>11, <1>12 DEF build_resource_stats
<1>14. /\ {"os_family", "cpu_cores", "oom", "cpu_p95", "procs_running", "cpu_run_queue", "mem_p95"}
             \subseteq RowColumns
       /\ {"os_family", "cpu_cores", "oom"} \cap Loads = {}
       /\ {"cpu_p95", "procs_running", "cpu_run_queue", "mem_p95"} \subseteq Loads
  BY DEF RowColumns, Counts, Slopes, Flags, Loads
<1>15. row'["os_family"] = row["os_family"] /\ row'["cpu_cores"] = row["cpu_cores"] /\ row'["oom"] = row["oom"]
  BY <1>8, <1>14
<1>16. /\ Grows(row["cpu_p95"], row'["cpu_p95"]) /\ Grows(row["procs_running"], row'["procs_running"])
       /\ Grows(row["cpu_run_queue"], row'["cpu_run_queue"]) /\ Grows(row["mem_p95"], row'["mem_p95"])
  BY <1>7, <1>14
<1>17. /\ s.os_family = t.os_family /\ s.cpu_cores = t.cpu_cores /\ s.oom = t.oom
       /\ Grows(s.cpu_p95, t.cpu_p95) /\ Grows(s.procs_running, t.procs_running)
       /\ Grows(s.cpu_run_queue, t.cpu_run_queue) /\ Grows(s.mem_p95, t.mem_p95)
  BY <1>11, <1>12, <1>15, <1>16, StatsOfRow
<1>18. HostShort(s)
  BY <1>9, HostUnder
<1>19. HostShort(t)
  BY <1>9, <1>10, <1>13, <1>17, <1>18, ShortStaysShort
<1> QED
  BY <1>10, <1>19, HostUnder

\* More load on one axis never takes a host off the list of those short of
\* resources, from whatever window it is measured.
THEOREM LoadKeepsHostShort == Spec => MoreLoadStaysShort
<1>1. ViewsInv /\ [Next]_vars =>
          [\A c \in Loads \cap DOMAIN Columns :
              /\ ~resized'
              /\ row[c] # None /\ row'[c] # None /\ row'[c] > row[c]
              /\ report.host.host_status = "under"
              => report'.host.host_status = "under"]_vars
  BY MoreLoadStep
<1> QED
  BY <1>1, ViewsInvariance, PTL DEF Spec, MoreLoadStaysShort


-----------------------------------------------------------------------------
(* Following the prescription *)

(* Rounding up goes less than one unit beyond. *)
LEMMA CeilBounds ==
    ASSUME NEW a \in Nat, NEW d \in Nat \ {0}
    PROVE  d * Ceil(a, d) >= a /\ d * (Ceil(a, d) - 1) < a
BY DEF Ceil

(* Rounding up does not pass a multiple. *)
LEMMA CeilLine ==
    ASSUME NEW a \in Nat, NEW d \in Nat \ {0}, NEW k \in Nat, a <= k * d
    PROVE  Ceil(a, d) <= k
<1>1. PICK c : c = Ceil(a, d)
  OBVIOUS
<1>2. c \in Nat /\ d * (c - 1) < a
  BY <1>1, CeilType, CeilBounds
<1>3. d * (c - 1) < d * k
  BY <1>2
<1>4. c - 1 < k
  BY <1>2, <1>3
<1> QED
  BY <1>1, <1>2, <1>4

\* The size CpuTargetCores computes lands at 70 % utilisation and, on a saturated
\* host, at 0.7 of the run-queue line; without saturation it is the least such size.
LEMMA CpuTargetBounds ==
    ASSUME NEW s, IsStats(s), ~NoCores(s), NEW sat \in BOOLEAN
    PROVE  LET t == CpuTargetCores(s, sat)
           IN  /\ t \in Nat \ {0}
               /\ s.cpu_p95 # None => 70 * t >= s.cpu_p95 * s.cpu_cores
               /\ sat /\ Above(RunQueueValue(s), 0) =>
                     (7 * SatLine(s.os_family)) * t >= 10 * RunQueueValue(s)
               /\ ~sat /\ s.cpu_p95 # None /\ t > 1 => 70 * (t - 1) < s.cpu_p95 * s.cpu_cores
<1> DEFINE util  == IF s.cpu_p95 = None THEN 0 ELSE s.cpu_p95
           x == IF util > 0 THEN Ceil(util * s.cpu_cores, RS_CPU_SIZING_TARGET_PCT) ELSE 1
           y == IF sat /\ Above(RunQueueValue(s), 0)
                THEN Ceil(10 * RunQueueValue(s), 7 * SatLine(s.os_family)) ELSE 0
           t == CpuTargetCores(s, sat)
<1>1. s.cpu_cores \in Nat \ {0} /\ s.cpu_p95 \in Measure
  BY DEF IsStats, NoCores, Measure
<1>2. util \in Nat /\ util * s.cpu_cores \in Nat
  BY <1>1 DEF Measure
<1>3. PICK u : u = util * s.cpu_cores
  OBVIOUS
<1>4. /\ x \in Nat
      /\ 70 * x >= u
      /\ x > 1 => 70 * (x - 1) < u
  <2>1. CASE util > 0
    <3>1. x = Ceil(u, 70)
      BY <1>3, <2>1 DEF RS_CPU_SIZING_TARGET_PCT
    <3>2. u \in Nat
      BY <1>2, <1>3
    <3>3. Ceil(u, 70) \in Nat /\ 70 * Ceil(u, 70) >= u /\ 70 * (Ceil(u, 70) - 1) < u
      BY <3>2, CeilType, CeilBounds
    <3> HIDE DEF x, util
    <3> QED
      BY <3>1, <3>3
  <2>2. CASE ~(util > 0)
    <3>1. x = 1 /\ util = 0
      BY <1>2, <2>2
    <3>2. u = 0
      BY <1>1, <1>3, <3>1
    <3> HIDE DEF x
    <3> QED
      BY <3>1, <3>2
  <2> QED
    BY <2>1, <2>2
<1>5. /\ y \in Nat
      /\ sat /\ Above(RunQueueValue(s), 0) => (7 * SatLine(s.os_family)) * y >= 10 * RunQueueValue(s)
      /\ ~sat => y = 0
  <2>1. CASE sat /\ Above(RunQueueValue(s), 0)
    <3>1. RunQueueValue(s) \in Nat /\ 7 * SatLine(s.os_family) \in Nat \ {0}
      BY <2>1, QueueType DEF Above, Measure
    <3>2. 10 * RunQueueValue(s) \in Nat
      BY <3>1
    <3>3. y = Ceil(10 * RunQueueValue(s), 7 * SatLine(s.os_family))
      BY <2>1
    <3> HIDE DEF y
    <3> QED
      BY <2>1, <3>1, <3>2, <3>3, CeilType, CeilBounds
  <2> QED
    BY <2>1
<1>6. t = Max({1, x, y})
  BY DEF CpuTargetCores
<1>7. s.cpu_p95 # None => u = s.cpu_p95 * s.cpu_cores
  BY <1>3
<1>8. SatLine(s.os_family) \in {1, 2}
  BY QueueType
<1> HIDE DEF x, y, util, t
<1>9. t \in {1, x, y} /\ t >= 1 /\ t >= x /\ t >= y
  <2>1. x \in Int /\ y \in Int
    BY <1>4, <1>5
  <2>2. Max({1, x, y}) \in {1, x, y} /\ Max({1, x, y}) >= 1 /\ Max({1, x, y}) >= x /\ Max({1, x, y}) >= y
    BY <2>1, MaxOfThree
  <2> QED
    BY <1>6, <2>2
<1>10. t \in Nat \ {0} /\ 70 * t >= u
  BY <1>2, <1>3, <1>4, <1>5, <1>9
<1>11. ~sat /\ t > 1 => 70 * (t - 1) < u
  BY <1>4, <1>5, <1>9
<1>12. ASSUME sat, Above(RunQueueValue(s), 0)
       PROVE  (7 * SatLine(s.os_family)) * t >= 10 * RunQueueValue(s)
  <2>1. RunQueueValue(s) \in Nat
    BY <1>12, QueueType DEF Above, Measure
  <2> QED
    BY <1>5, <1>8, <1>9, <1>10, <1>12, <2>1
<1> QED
  BY <1>7, <1>10, <1>11, <1>12 DEF t

\* How an axis of a CPU is sized.
LEMMA CpuSized ==
    ASSUME NEW s, IsStats(s), ~NoCores(s)
    PROVE  LET a == assess_cpu(s)
               target == CpuTargetCores(s, cpu_saturated(s) = TRUE)
           IN  /\ a.status = "under" =>
                     \/ a.target = target /\ target > s.cpu_cores
                     \/ a.target = None /\ a.floor = s.cpu_cores + 1 /\ target <= s.cpu_cores
               /\ a.status = "over" => a.target = target /\ target < s.cpu_cores
<1>1. PICK target : target = CpuTargetCores(s, cpu_saturated(s) = TRUE)
  OBVIOUS
<1>2. target \in Nat /\ s.cpu_cores \in Nat
  BY <1>1, CpuTarget DEF IsStats, NoCores, Measure
<1>3. target > s.cpu_cores \/ target <= s.cpu_cores
  BY <1>2
<1> QED
  BY <1>1, <1>3 DEF assess_cpu, Judged, Plain

(* The CPU of a resized host is not sent back, lines apart. *)
LEMMA CpuSettles ==
    ASSUME NEW s, IsStats(s), NEW t, IsStats(t), s.cpu_cores \in Nat \ {0}, NEW to \in Nat \ {0},
           to = CpuAxis(rollup_host(s), s).recommended,
           t.cpu_cores = to, t.cpu_p95 = Scaled(s.cpu_p95, s.cpu_cores, to),
           t.os_family = s.os_family, t.procs_running = s.procs_running,
           t.cpu_run_queue = s.cpu_run_queue
    PROVE  /\ CpuShort(t) => s.cpu_p95 # None /\ t.cpu_p95 = RS_CPU_UNDER_PCT
           /\ assess_cpu(t).status = "over" /\ to > s.cpu_cores =>
                 cpu_saturated(s) = TRUE \/ s.cpu_p95 = RS_CPU_UNDER_PCT
<1> DEFINE sat == cpu_saturated(s) = TRUE
<1>1. ~NoCores(s) /\ ~NoCores(t) /\ s.cpu_p95 \in Measure /\ t.cpu_p95 \in Measure
  BY NoneAssumption DEF NoCores, IsStats
<1>2. PICK a : a = assess_cpu(s)
  OBVIOUS
<1>3. PICK target : target = CpuTargetCores(s, sat)
  OBVIOUS
<1>4. /\ a.status = "under" =>
            \/ a.target = target /\ target > s.cpu_cores
            \/ a.target = None /\ a.floor = s.cpu_cores + 1 /\ target <= s.cpu_cores
      /\ a.status = "over" => a.target = target /\ target < s.cpu_cores
  BY <1>1, <1>2, <1>3, CpuSized
<1>5. /\ target \in Nat \ {0}
      /\ s.cpu_p95 # None => 70 * target >= s.cpu_p95 * s.cpu_cores
      /\ sat /\ Above(RunQueueValue(s), 0) => (7 * SatLine(s.os_family)) * target >= 10 * RunQueueValue(s)
      /\ ~sat /\ s.cpu_p95 # None /\ target > 1 => 70 * (target - 1) < s.cpu_p95 * s.cpu_cores
  BY <1>1, <1>3, CpuTargetBounds
<1>6. target # None
  BY <1>5, NoneAssumption
<1>7. a.status \in {"unmeasured", "under", "over", "optimal"} /\ (a.status = "under" <=> CpuShort(s))
  BY <1>2, CpuJudged
<1>8. \/ a.status = "under" /\ to = target /\ target > s.cpu_cores
      \/ a.status = "under" /\ to = s.cpu_cores + 1 /\ target <= s.cpu_cores
      \/ a.status = "over" /\ to = target /\ target < s.cpu_cores
      \/ a.status # "under" /\ to = s.cpu_cores
  <2>1. s.cpu_cores # None
    BY NoneAssumption
  <2>2. rollup_host(s).resources.cpu = a
    BY <1>2, HostFields
  <2>3. PICK x : x = AxisSize(s.cpu_cores, a, s)
    OBVIOUS
  <2>4. to = x.recommended
    BY <2>1, <2>2, <2>3 DEF CpuAxis
  <2>5. \/ a.status = "under" /\ a.target # None /\ x.recommended = a.target
        \/ a.status = "under" /\ a.target = None /\ a.floor # None /\ x.recommended = a.floor
        \/ a.status = "over" /\ x.recommended = a.target
        \/ x.recommended = s.cpu_cores /\ (a.status = "under" => a.target = None /\ a.floor = None)
    BY <2>3, AxisCases
  <2>6. s.cpu_cores + 1 # None
    <3>1. s.cpu_cores + 1 \in Int
      OBVIOUS
    <3> QED
      BY <3>1, NoneAssumption
  <2> QED
    BY <1>4, <1>6, <2>4, <2>5, <2>6
<1>9. /\ RunQueueValue(t) = RunQueueValue(s) /\ SatLine(t.os_family) = SatLine(s.os_family)
      /\ RunQueueValue(s) \in Measure /\ SatLine(s.os_family) \in {1, 2}
  BY QueueType DEF RunQueueValue
<1>10. CASE s.cpu_p95 = None
  <2>1. t.cpu_p95 = None
    BY <1>10 DEF Scaled
  <2>2. ~QueueFull(t)
    <3> SUFFICES ASSUME QueueFull(t) PROVE FALSE
      OBVIOUS
    <3>1. PICK q : q = RunQueueValue(s)
      OBVIOUS
    <3>2. PICK line : line = SatLine(s.os_family)
      OBVIOUS
    <3>3. q \in Nat /\ line \in {1, 2} /\ q >= line * to
      BY <1>9, <3>1, <3>2 DEF QueueFull, Measure
    <3>4. CASE CpuShort(s)
      <4>1. sat /\ q >= line * s.cpu_cores
        BY <1>1, <1>10, <3>1, <3>2, <3>4, CpuSaturated DEF CpuShort, QueueFull, AtLeast
      <4>2. q > 0
        BY <3>3
      <4>3. (7 * line) * target >= 10 * q
        BY <1>5, <3>1, <3>2, <3>3, <4>1, <4>2, NoneAssumption DEF Above
      <4>4. target > s.cpu_cores
        BY <1>5, <3>3, <4>1, <4>3
      <4>5. to = target
        BY <1>5, <1>7, <1>8, <3>4, <4>4
      <4> QED
        BY <3>3, <4>3, <4>5
    <3>5. CASE ~CpuShort(s)
      <4>1. a.status \notin {"over", "optimal"}
        BY <1>2, <1>10, CpuJudged
      <4>2. to = s.cpu_cores
        BY <1>7, <1>8, <3>5, <4>1
      <4> QED
        BY <1>1, <1>9, <1>10, <3>5, <4>2 DEF CpuShort, QueueFull
    <3> QED
      BY <3>4, <3>5
  <2>3. ~CpuShort(t)
    BY <2>1, <2>2 DEF CpuShort, AtLeast
  <2>4. assess_cpu(t).status # "over"
    BY <2>1, CpuJudged
  <2> QED
    BY <2>3, <2>4
<1>11. CASE s.cpu_p95 # None
  <2>1. PICK p \in Nat : p = s.cpu_p95
    BY <1>1, <1>11 DEF Measure
  <2>2. PICK u \in Nat : u = p * s.cpu_cores
    OBVIOUS
  <2>3. PICK c \in Nat : c = Ceil(u, to)
    BY CeilType
  <2>4. t.cpu_p95 = IF 100 <= c THEN 100 ELSE c
    BY <1>11, <2>1, <2>2, <2>3, MinOfTwo DEF Scaled
  <2>5. CpuShort(s) <=> p >= 70
    BY <1>1, <1>11, <2>1 DEF CpuShort, AtLeast, RS_CPU_UNDER_PCT
  <2>6. 70 * to >= u
    <3>1. 70 * target >= u
      BY <1>5, <1>11, <2>1, <2>2
    <3>2. CASE a.status # "under" /\ to = s.cpu_cores
      <4>1. p < 70
        BY <1>7, <2>5, <3>2
      <4> QED
        BY <2>2, <3>2, <4>1
    <3> QED
      BY <1>5, <1>8, <3>1, <3>2
  <2>7. c <= 70
    BY <2>3, <2>6, CeilLine
  <2>8. CpuShort(t) => t.cpu_p95 = 70
    <3>1. t.cpu_p95 = c /\ c # None
      BY <2>4, <2>7, NoneAssumption
    <3> QED
      BY <2>7, <3>1 DEF CpuShort, AtLeast, RS_CPU_UNDER_PCT
  <2>9. ASSUME assess_cpu(t).status = "over", to > s.cpu_cores, ~sat, p # 70 PROVE FALSE
    <3>1. a.status = "under"
      BY <1>8, <2>9
    <3>2. p > 70
      BY <1>7, <2>5, <2>9, <3>1
    <3>3. u > 70 * s.cpu_cores
      BY <2>2, <3>2
    <3>4. target > s.cpu_cores
      BY <1>5, <1>11, <2>1, <2>2, <3>3
    <3>5. to = target
      BY <1>5, <1>8, <3>1, <3>4
    <3>6. 70 * (to - 1) < u
      BY <1>5, <1>11, <2>1, <2>2, <2>9, <3>4, <3>5
    <3>7. c * to >= u
      BY <2>3, CeilBounds
    <3>8. PICK new : new = CpuTargetCores(t, cpu_saturated(t) = TRUE)
      OBVIOUS
    <3>9. new < to
      BY <1>1, <2>9, <3>8, CpuSized
    <3>10. t.cpu_p95 = c
      BY <2>4, <2>7
    <3>11. new \in Nat /\ 70 * new >= c * to
      <4>1. c # None
        BY NoneAssumption
      <4> QED
        BY <1>1, <3>8, <3>10, <4>1, CpuTargetBounds
    <3> QED
      BY <3>6, <3>7, <3>9, <3>11
  <2> QED
    BY <1>11, <2>1, <2>8, <2>9 DEF RS_CPU_UNDER_PCT
<1> QED
  BY <1>10, <1>11


(* A size above the present one is kept by MemUnderTarget. *)
LEMMA MemUnderCovers ==
    ASSUME NEW s, IsStats(s), s.mem_total \in Nat, NEW t \in Nat, t > s.mem_total
    PROVE  MemUnderTarget(t, s) \in Nat /\ MemUnderTarget(t, s) >= t
<1> DEFINE headroom == IF MemPagingActive(s) \/ s.oom THEN WithHeadroom(s.mem_total) ELSE None
           candidates == Known({t, headroom})
<1>1. headroom \in Measure
  <2>1. s.mem_total \in Measure
    BY DEF IsStats
  <2> QED
    BY <2>1, Headroom DEF Measure
<1>2. MemUnderTarget(t, s) = IF candidates = {} THEN None
                             ELSE IF s.mem_total = None \/ Max(candidates) > s.mem_total
                             THEN Max(candidates) ELSE None
  BY DEF MemUnderTarget
<1>3. t # None
  BY NoneAssumption
<1> HIDE DEF headroom
<1>4. candidates # {} /\ Max(candidates) \in Nat /\ Max(candidates) >= t
  <2>1. PICK h \in Nat : candidates = {t, h}
    <3>1. CASE headroom = None
      <4>1. candidates = {t, t}
        BY <1>3, <3>1 DEF Known
      <4> QED
        BY <4>1
    <3>2. CASE headroom # None
      <4>1. headroom \in Nat /\ candidates = {t, headroom}
        BY <1>1, <1>3, <3>2 DEF Known, Measure
      <4> QED
        BY <4>1
    <3> QED
      BY <3>1, <3>2
  <2> HIDE DEF candidates
  <2>2. Max({t, h}) = IF t >= h THEN t ELSE h
    BY MaxOfTwo
  <2> QED
    BY <2>1, <2>2
<1> HIDE DEF candidates
<1> QED
  BY <1>2, <1>4

\* How the axis of a memory without OOM kill is sized.
LEMMA MemSized ==
    ASSUME NEW s, IsStats(s), s.mem_p95 # None, ~s.oom
    PROVE  LET a == assess_memory(s)
               peak == IF s.near_peak # None THEN s.near_peak ELSE s.mem_p95
               target == MemTargetMb(peak, s.mem_total)
           IN  /\ a.status = "under" => a.target = MemUnderTarget(target, s)
               /\ a.status = "over" => a.target = target
BY DEF assess_memory, Judged, Plain

(* A resized host is short of memory again only after an OOM kill. *)
LEMMA MemSettles ==
    ASSUME NEW s, IsStats(s), NEW t, IsStats(t), s.mem_total \in Nat \ {0}, NEW to \in Nat \ {0},
           s.mem_p95 # None /\ s.near_peak # None => s.near_peak >= s.mem_p95,
           to = MemoryAxis(rollup_host(s), s).recommended,
           t.mem_p95 = Scaled(s.mem_p95, s.mem_total, to), t.oom = s.oom
    PROVE  MemShort(t) => s.oom
<1> SUFFICES ASSUME ~s.oom PROVE ~AtLeast(t.mem_p95, RS_MEM_UNDER_PCT)
  BY DEF MemShort
<1>1. CASE s.mem_p95 = None
  BY <1>1 DEF Scaled, AtLeast
<1>2. CASE s.mem_p95 # None
  <2>1. s.mem_p95 \in Measure /\ s.near_peak \in Measure
    BY DEF IsStats
  <2>2. PICK m \in Nat : m = s.mem_p95
    BY <1>2, <2>1 DEF Measure
  <2>3. PICK total \in Nat \ {0} : total = s.mem_total
    OBVIOUS
  <2>4. PICK peak : peak = IF s.near_peak # None THEN s.near_peak ELSE s.mem_p95
    OBVIOUS
  <2>5. peak \in Nat /\ peak >= m
    BY <1>2, <2>1, <2>2, <2>4 DEF Measure
  <2>6. PICK u \in Nat : u = m * total
    OBVIOUS
  <2>7. total * peak \in Nat /\ total * peak >= u
    BY <2>5, <2>6
  <2>8. PICK target : target = MemTargetMb(peak, total)
    OBVIOUS
  <2>9. peak > 0 => target \in Nat /\ 80 * target >= u
    <3>1. total # None
      BY NoneAssumption
    <3>2. peak > 0 => target = Ceil(total * peak, 80)
      BY <2>5, <2>8, <3>1 DEF MemTargetMb, RS_MEM_SIZING_TARGET_PCT
    <3>3. Ceil(total * peak, 80) \in Nat /\ 80 * Ceil(total * peak, 80) >= total * peak
      BY <2>7, CeilType, CeilBounds
    <3> QED
      BY <2>6, <2>7, <3>2, <3>3
  <2>10. PICK a : a = assess_memory(s)
    OBVIOUS
  <2>11. /\ a.status = "under" => a.target = MemUnderTarget(target, s)
         /\ a.status = "over" => a.target = target /\ target \in Nat
    BY <1>2, <2>3, <2>4, <2>8, <2>10, MemSized, MemJudged
  <2>12. a.status = "under" <=> m >= 90
    BY <1>2, <2>2, <2>10, MemJudged DEF MemShort, AtLeast, RS_MEM_UNDER_PCT
  <2>13. \/ a.status = "under" /\ a.target # None /\ to = a.target
         \/ a.status = "under" /\ a.target = None
         \/ a.status = "over" /\ to = a.target
         \/ a.status # "under" /\ to = total
    <3>1. total # None
      BY NoneAssumption
    <3>2. rollup_host(s).resources.memory = a
      BY <2>10, HostFields
    <3>3. PICK x : x = AxisSize(s.mem_total, a, s)
      OBVIOUS
    <3>4. to = x.recommended
      BY <2>3, <3>1, <3>2, <3>3 DEF MemoryAxis
    <3>5. \/ a.status = "under" /\ a.target # None /\ x.recommended = a.target
          \/ a.status = "under" /\ a.target = None
          \/ a.status = "over" /\ x.recommended = a.target
          \/ x.recommended = s.mem_total /\ (a.status = "under" => a.target = None)
      BY <3>3, AxisCases
    <3> QED
      BY <2>3, <3>4, <3>5
  <2>14. u <= 89 * to
    <3>1. CASE a.status = "under"
      <4>1. u >= 90 * total
        BY <2>6, <2>12, <3>1
      <4>2. target \in Nat /\ 80 * target >= u
        BY <2>5, <2>9, <2>12, <3>1
      <4>3. target > total
        BY <4>1, <4>2
      <4>4. MemUnderTarget(target, s) \in Nat /\ MemUnderTarget(target, s) >= target
        BY <2>3, <4>2, <4>3, MemUnderCovers
      <4>5. a.target \in Nat /\ a.target >= target
        BY <2>11, <3>1, <4>4
      <4>6. to = a.target
        BY <2>13, <3>1, <4>5, NoneAssumption
      <4> QED
        BY <4>2, <4>5, <4>6
    <3>2. CASE a.status # "under" /\ to = total
      <4>1. m <= 89
        BY <2>12, <3>2
      <4> QED
        BY <2>6, <3>2, <4>1
    <3>3. CASE a.status = "over" /\ to = a.target
      <4>1. to = target
        BY <2>11, <3>3
      <4>2. CASE peak > 0
        BY <2>9, <4>1, <4>2
      <4>3. CASE ~(peak > 0)
        <5>1. m = 0
          BY <2>5, <4>3
        <5>2. u = 0
          BY <2>6, <5>1
        <5> QED
          BY <5>2
      <4> QED
        BY <4>2, <4>3
    <3> QED
      BY <2>13, <3>1, <3>2, <3>3
  <2>15. PICK c \in Nat : c = Ceil(u, to)
    BY CeilType
  <2>16. c <= 89
    BY <2>14, <2>15, CeilLine
  <2>17. t.mem_p95 = c
    <3>1. t.mem_p95 = Min({100, c})
      BY <1>2, <2>2, <2>3, <2>6, <2>15 DEF Scaled
    <3> QED
      BY <2>16, <3>1, MinOfTwo
  <2> QED
    BY <2>16, <2>17 DEF AtLeast, RS_MEM_UNDER_PCT
<1> QED
  BY <1>1, <1>2

(* A resize, judged again on both axes. *)
LEMMA FollowingStep ==
    ASSUME ViewsInv, Resize
    PROVE  LET cpu == api'.host.resources.cpu
               mem == api'.host.resources.memory
           IN  /\ cpu.status = "under" => row.cpu_p95 # None /\ row'.cpu_p95 = RS_CPU_UNDER_PCT
               /\ mem.status = "under" => row.oom
               /\ cpu.status = "over" /\ row'.cpu_cores > row.cpu_cores =>
                     \/ cpu_saturated(api.stats) = TRUE
                     \/ row.cpu_p95 = RS_CPU_UNDER_PCT
<1>1. PICK s : s = api.stats /\ IsStats(s) /\ api.host = rollup_host(s)
  BY Views
<1>2. PICK t : t = api'.stats /\ t = build_resource_stats(row', mounts', None) /\ api'.host = rollup_host(t)
  BY DEF Resize, JudgedAnew, ApiJudges, Judge
<1>3. IsStats(t)
  <2>1. IsRow(row')
    BY ResizedRow
  <2>2. IsMounts(mounts')
    BY DEF ViewsInv, Resize
  <2>3. None \in Measure
    BY DEF Measure
  <2> QED
    BY <1>2, <2>1, <2>2, <2>3, StatsTyped
<1>4. s = build_resource_stats(row, mounts, None)
  BY <1>1 DEF ViewsInv, ApiJudges, Judge
<1>5. /\ s.cpu_p95 = row.cpu_p95 /\ s.cpu_cores = row.cpu_cores /\ s.mem_total = row.mem_total
      /\ s.mem_p95 = row.mem_p95 /\ s.near_peak = row.near_peak /\ s.oom = row.oom
      /\ s.os_family = row.os_family /\ s.procs_running = row.procs_running
      /\ s.cpu_run_queue = row.cpu_run_queue
  BY <1>4, StatsOfRow
<1>6. /\ t.cpu_p95 = row'.cpu_p95 /\ t.cpu_cores = row'.cpu_cores
      /\ t.mem_p95 = row'.mem_p95 /\ t.oom = row'.oom
      /\ t.os_family = row'.os_family /\ t.procs_running = row'.procs_running
      /\ t.cpu_run_queue = row'.cpu_run_queue
  BY <1>2, StatsOfRow
<1>7. PICK toCpu : toCpu = CpuAxis(rollup_host(s), s).recommended
  OBVIOUS
<1>8. PICK toMem : toMem = MemoryAxis(rollup_host(s), s).recommended
  OBVIOUS
<1>9. /\ row'.cpu_cores = toCpu
      /\ row'.cpu_p95 = Scaled(row.cpu_p95, row.cpu_cores, toCpu)
      /\ row'.mem_p95 = Scaled(row.mem_p95, row.mem_total, toMem)
      /\ row'.os_family = row.os_family /\ row'.procs_running = row.procs_running
      /\ row'.cpu_run_queue = row.cpu_run_queue /\ row'.oom = row.oom
      /\ row.cpu_cores \in Nat \ {0} /\ row.mem_total \in Nat \ {0}
      /\ toCpu \in Nat \ {0} /\ toMem \in Nat \ {0}
  BY <1>1, <1>7, <1>8, ResizedRowFields
<1>10. /\ CpuShort(t) => s.cpu_p95 # None /\ t.cpu_p95 = RS_CPU_UNDER_PCT
       /\ assess_cpu(t).status = "over" /\ toCpu > s.cpu_cores =>
             cpu_saturated(s) = TRUE \/ s.cpu_p95 = RS_CPU_UNDER_PCT
  <2>1. /\ s.cpu_cores \in Nat \ {0} /\ toCpu \in Nat \ {0}
        /\ t.cpu_cores = toCpu /\ t.cpu_p95 = Scaled(s.cpu_p95, s.cpu_cores, toCpu)
        /\ t.os_family = s.os_family /\ t.procs_running = s.procs_running
        /\ t.cpu_run_queue = s.cpu_run_queue
    BY <1>5, <1>6, <1>9
  <2> QED
    BY <1>1, <1>3, <1>7, <2>1, CpuSettles
<1>11. MemShort(t) => s.oom
  <2>1. s.mem_p95 # None /\ s.near_peak # None => s.near_peak >= s.mem_p95
    BY <1>5 DEF ViewsInv, PeakCovers
  <2> QED
    BY <1>1, <1>3, <1>5, <1>6, <1>8, <1>9, <2>1, MemSettles
<1>12. api'.host.resources.cpu = assess_cpu(t) /\ api'.host.resources.memory = assess_memory(t)
  BY <1>2, HostFields
<1>13. /\ assess_cpu(t).status = "under" <=> CpuShort(t)
       /\ assess_memory(t).status = "under" <=> MemShort(t)
  BY <1>3, CpuJudged, MemJudged
<1> QED
  BY <1>1, <1>5, <1>6, <1>9, <1>10, <1>11, <1>12, <1>13

\* Following the sizing axes of /api/assessment settles: under the same load the
\* CPU is short again only on the 70 % line, the memory only after an OOM kill,
\* and a CPU that was enlarged has room to spare only if its run queue or the
\* line made it grow.
THEOREM SizingSettles == Spec => FollowingSettles
<1>1. ViewsInv /\ [Next]_vars =>
        [resized' /\ ~resized =>
         LET cpu == api'.host.resources.cpu
             mem == api'.host.resources.memory
         IN  /\ cpu.status = "under" => row.cpu_p95 # None /\ row'.cpu_p95 = RS_CPU_UNDER_PCT
             /\ mem.status = "under" => row.oom
             /\ cpu.status = "over" /\ row'.cpu_cores > row.cpu_cores =>
                   \/ cpu_saturated(api.stats) = TRUE
                   \/ row.cpu_p95 = RS_CPU_UNDER_PCT]_vars
  <2> SUFFICES ASSUME ViewsInv, [Next]_vars, resized', ~resized PROVE Resize
    BY FollowingStep
  <2> QED
    BY DEF Next, Observe, MountChanges, vars
<1> QED
  BY <1>1, ViewsInvariance, PTL DEF Spec, FollowingSettles

=============================================================================
