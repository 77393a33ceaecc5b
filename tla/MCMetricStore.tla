----------------------------- MODULE MCMetricStore -----------------------------
EXTENDS MetricStore

MCMachine ==
    [lin |-> [os |-> "linux",   cores |-> 2, disks |-> {"sda"}, ifaces |-> {"eth0", "eth1"},
             listed |-> {"disk", "net"}],
     win |-> [os |-> "windows", cores |-> 2, disks |-> {"sda"}, ifaces |-> {"eth0", "eth1"},
             listed |-> {"disk", "net"}]]

Nic(p, d, b, e) == [rxp |-> p, txp |-> p, rxd |-> d, txd |-> 0, rxb |-> b, txb |-> b, err |-> e]

Mem(l, a, c, b) == [limit |-> l, available |-> a, cached |-> c, buffered |-> b]

Counters(user, iowait, idle, pages, stall, retrans, oom, disk, nic) ==
    [host |-> [user |-> user, iowait |-> iowait, idle |-> idle, pages |-> pages,
               stall |-> stall, retrans |-> retrans, oom |-> oom],
     disk |-> [d \in {"sda"} |-> disk],
     net  |-> [i \in {"eth0", "eth1"} |-> nic]]

Disk(t, ops, iot) == [t |-> t, ops |-> ops, iot |-> iot]

MCBoot == Counters(0, 0, 0, 0, 0, 0, 0, Disk(0, 0, 0), Nic(0, 0, 0, 0))

\* Less than one interval of work, and errors of long ago.
MCBase == Counters(20, 5, 60, 50, 10, 1, 3, Disk(100, 20, 1000), Nic(500, 2, 300, 1))

Work(c, disk, nic, queue, cores, pending, conntrack, corrupted, mem, fs) ==
    [host |-> c.host, disk |-> disk, net |-> nic, queue |-> queue, cores |-> cores,
     pending |-> pending, conntrack |-> conntrack,
     corrupted |-> corrupted, mem |-> mem, fs |-> fs]

Host(user, iowait, idle, pages, retrans, oom) ==
    Counters(user, iowait, idle, pages, 5 * pages, retrans, oom, Disk(0, 0, 0), Nic(0, 0, 0, 0))

Quiet == Work(Host(10, 2, 88, 0, 0, 0), Disk(50, 10, 500), Nic(1000, 1, 900, 0), 1, 2, 0, 10, 0,
              Mem(1000, 600, 300, 100), [used |-> 40, free |-> 60])

\* A slow disk, paging and losses.
Strained == Work(Host(70, 20, 10, 1500, 40, 1), Disk(3000, 100, 40000), Nic(1000, 30, 900, 2),
                 6, 2, 1, 10, 0, Mem(1000, 100, 300, 100), [used |-> 80, free |-> 20])

\* A disk that claims more time than passed, little traffic, damaged memory, and
\* more cores than the inventory knows.
Odd == Work(Host(60, 0, 40, 5, 5, 0), Disk(9000, 100, 90000), Nic(100, 20, 10, 0),
            4, 8, 3, 90, 8, Mem(1000, 1200, 900, 300), [used |-> 90, free |-> 10])

\* Values on the lines.
OnTheLines == Work(Host(30, 0, 70, 1200, 20, 0), Disk(2000, 100, 30000), Nic(1000, 10, 600, 0),
                   2, 2, 2, None, None, Mem(1000, None, None, 100), [used |-> 40, free |-> 60])

\* The same with an idle disk that has a queue, and a core taken away.
Queueing == [OnTheLines EXCEPT !.disk = Disk(50, 10, 500), !.cores = 1]

MCWorks == [lin |-> {Quiet, Strained, Odd, OnTheLines}, win |-> {Strained, Queueing}]
=============================================================================
