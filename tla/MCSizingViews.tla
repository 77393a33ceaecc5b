----------------------------- MODULE MCSizingViews -----------------------------
EXTENDS SizingViews

\* Values on both sides of each line, and on it.
MCColumns ==
    [os_family     |-> {None, "linux", "windows"},
     cpu_p95       |-> {None, 2, 40, 70, 80},
     cpu_cores     |-> {None, 0, 1, 4, 7},
     procs_running |-> {None, 3, 12},
     cpu_run_queue |-> {None, 3, 12},
     percore_max   |-> {None, 90},
     steal         |-> {None, 6},
     cpu_slope     |-> {None, 3},
     mem_p95       |-> {None, 30, 92},
     mem_total     |-> {None, 0, 1000},
     near_peak     |-> {None, 95},
     swap_paging   |-> {FALSE, TRUE},
     mem_pages_input |-> {None, 25},
     oom           |-> {FALSE, TRUE},
     disk_await    |-> {None, 5, 20, 30},
     disk_iops     |-> {None, 3, 50},
     procs_blocked |-> {None, 2},
     net_rx        |-> {None, 3, 400},
     retrans       |-> {None, 10, 15},
     drop          |-> {None, 6},
     conntrack     |-> {None, 85},
     history       |-> {20, 336},
     burst         |-> {None, 25},
     cpu_suff      |-> {None, 50, 95},
     mem_suff      |-> {None, 95}]

Quiet ==
    [os_family |-> "linux", cpu_p95 |-> 2, cpu_peak |-> 60, cpu_cores |-> 4,
     procs_running |-> 1, cpu_run_queue |-> None, percore_max |-> 20, steal |-> 0,
     cpu_slope |-> 0, mem_slope |-> None, mem_p95 |-> 30, mem_peak |-> 40, mem_total |-> 1000,
     near_peak |-> 35, swap_paging |-> FALSE, mem_pages_input |-> None, oom |-> FALSE,
     disk_await |-> 5, disk_iops |-> 3, procs_blocked |-> 0, net_rx |-> 3, net_tx |-> None,
     retrans |-> 1, drop |-> None, conntrack |-> None, history |-> 336, burst |-> 10,
     cpu_suff |-> 95, mem_suff |-> 95]

\* Room to spare, on good data.
Roomy == [Quiet EXCEPT !.cpu_p95 = 20, !.net_rx = 400]

Busy == [Quiet EXCEPT !.cpu_p95 = 80, !.procs_running = 12, !.mem_p95 = 92,
                      !.near_peak = 95, !.swap_paging = TRUE, !.net_rx = 400, !.disk_iops = 50]

BusyWindows == [Busy EXCEPT !.os_family = "windows", !.cpu_run_queue = 12,
                            !.mem_pages_input = 25, !.swap_paging = FALSE, !.disk_await = None]

Mount(total, first, last, span, inodes) ==
    [total |-> total, free_first |-> first, free_last |-> last, span |-> span,
     inode_first |-> inodes, inode_last |-> inodes,
     used_max |-> (100 * (total - last)) \div total, inode_max |-> 100 - inodes,
     inode_ever |-> 100 - inodes]

\* Flat and roomy; flat and full; slow; fast; fast but observed for a day only;
\* flat and out of inodes; full and gone before the window; ten times as large
\* once; out of inodes before the window.
MCMountStates ==
    {Mount(100, 80, 80, 700, 50), Mount(100, 5, 5, 700, 50), Mount(100, 60, 40, 700, 50),
     Mount(100, 60, 20, 400, 50), Mount(100, 60, 50, 24, 50), Mount(100, 80, 80, 700, 10),
     [Mount(100, 5, 5, 700, 50) EXCEPT !.used_max = None, !.inode_max = None],
     [Mount(100, 5, 5, 700, 50) EXCEPT !.used_max = 50],
     [Mount(100, 80, 80, 700, 50) EXCEPT !.inode_ever = 95]}

MCFirstMount == Mount(100, 80, 80, 700, 50)

MCStartRows == {Quiet, Roomy, Busy, BusyWindows}
=============================================================================
