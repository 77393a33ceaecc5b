------------------------------ MODULE DiskCapacity ------------------------------
(***************************************************************************)
(* How the free-space history of a server's mounts becomes a date and a    *)
(* target size: the mount CTEs of report_aggregate fold all mounts into    *)
(* one host row, report_mount_capacity_batch keeps one row per mount, and  *)
(* assess_mount_capacity sizes each of those rows.                         *)
(*                                                                         *)
(* A mount is a record: its largest total size, free space and free inodes *)
(* in the first and last bucket of its history, the hours between the two, *)
(* the highest inode percentage of that history (inode_ever), and the      *)
(* highest used and inode percentages of the observation window, None if   *)
(* the mount was gone before the window.  Sizes are in one unit; the       *)
(* code's host row counts it in 10^9 and its mount rows in 2^30 bytes.     *)
(***************************************************************************)
EXTENDS RightSizing

RATE_MIN_SPAN_HOURS  == RS_CONFIDENCE_MIN_HOURS
TREND_MIN_SPAN_HOURS == 14 * 24
TARGET_RUNWAY_DAYS   == 365
NEAR_HORIZON_DAYS    == 30
HEADROOM_TARGET_PCT  == 70

Used(m)    == m.total - m.free_last
UsedPct(m) == IF Above(m.total, 0) THEN (100 * Used(m)) \div m.total ELSE None

\* Days until `last` is used up at the pace of the whole history.
Runway(first, last, span) ==
    IF first > last /\ span >= RATE_MIN_SPAN_HOURS /\ last >= 0
    THEN (last * span) \div (24 * (first - last))
    ELSE None

ByteRunway(m)  == Runway(m.free_first, m.free_last, m.span)
InodeRunway(m) == Runway(m.inode_first, m.inode_last, m.span)

\* A year at this pace; 30 days at this pace with headroom when the history
\* is short; headroom alone when the mount is full without a pace.
TargetSize(m) ==
    LET lost == m.free_first - m.free_last
        WithPace(days) == Used(m) * m.span + 24 * days * lost
    IN  IF ~Above(m.total, 0) THEN None
        ELSE IF lost > 0 /\ m.span >= TREND_MIN_SPAN_HOURS
        THEN Ceil(WithPace(TARGET_RUNWAY_DAYS), m.span)
        ELSE IF lost > 0 /\ m.span >= RATE_MIN_SPAN_HOURS
        THEN Ceil(100 * WithPace(NEAR_HORIZON_DAYS), HEADROOM_TARGET_PCT * m.span)
        ELSE IF m.free_last >= 0 /\ UsedPct(m) >= RS_DISK_STATIC_GUARD_PCT
        THEN Ceil(100 * Used(m), HEADROOM_TARGET_PCT)
        ELSE None

-----------------------------------------------------------------------------
(* The host row *)

Least(S)    == IF Known(S) = {} THEN None ELSE Min(Known(S))
Greatest(S) == IF Known(S) = {} THEN None ELSE Max(Known(S))

\* NULLS LAST.
Sooner(a, b) == a # None /\ (b = None \/ a < b)

\* The mount that sets the host's target: soonest to fill, then fullest.
DrivingMounts(mounts) ==
    LET cand == {m \in mounts : \/ ByteRunway(m) # None
                                \/ AtLeast(UsedPct(m), RS_DISK_STATIC_GUARD_PCT)}
        Ahead(n, m) == \/ Sooner(ByteRunway(n), ByteRunway(m))
                       \/ /\ ByteRunway(n) = ByteRunway(m)
                          /\ UsedPct(n) # None
                          /\ UsedPct(m) = None \/ UsedPct(n) > UsedPct(m)
    IN  {m \in cand : \A n \in cand : ~Ahead(n, m)}

\* Mutant: the latest date instead of the soonest.
HostDiskLatest(mounts) ==
    [runway       |-> Greatest({ByteRunway(m) : m \in mounts}),
     inode_runway |-> Greatest({InodeRunway(m) : m \in mounts}),
     disk_used    |-> Greatest({m.used_max : m \in mounts}),
     inode_used   |-> Greatest({m.inode_max : m \in mounts}),
     target_gb    |-> None]

\* Each column is folded over the mounts by itself.
HostDisk(mounts) ==
    [runway       |-> Least({ByteRunway(m) : m \in mounts}),
     inode_runway |-> Least({InodeRunway(m) : m \in mounts}),
     disk_used    |-> Greatest({m.used_max : m \in mounts}),
     inode_used   |-> Greatest({m.inode_max : m \in mounts}),
     target_gb    |-> IF DrivingMounts(mounts) = {} THEN None
                      ELSE TargetSize(CHOOSE m \in DrivingMounts(mounts) : TRUE)]

-----------------------------------------------------------------------------
(* The mount rows *)

FillsUp(runway, used) == Below(runway, RS_DISK_RUNWAY_DAYS) \/ StaticallyFull(runway, used)

assess_mount_capacity(m) ==
    LET target == TargetSize(m)
        bytes  == FillsUp(ByteRunway(m), UsedPct(m))
        inodes == FillsUp(InodeRunway(m), m.inode_ever)
        Sized(rec, action, quality) ==
            [current |-> m.total, recommended |-> rec, action |-> action,
             quality |-> quality, inode_note |-> inodes /\ ~bytes]
        wanted == Max({m.total, target})
        floor  == Max({m.total, Ceil(100 * m.total, HEADROOM_TARGET_PCT)})
    IN  IF ~Above(m.total, 0) THEN None
        ELSE IF bytes /\ target # None
        THEN Sized(wanted, IF wanted > m.total THEN "increase" ELSE "keep", "exact")
        ELSE IF bytes THEN Sized(floor, "increase", "floor")
        ELSE Sized(m.total, "keep", "exact")
=============================================================================
