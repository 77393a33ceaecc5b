---------------------------- MODULE MCInventoryViews ----------------------------
(* Small inventories for the pages of InventoryViews. *)
EXTENDS InventoryViews

\* --- storage: two disks and one without an id, a partition, an array over both
\* disks (or over a partition), logical volumes of one group on two devices.
Device(id, parent, type, size, vg, mount) ==
    [id |-> id, parent |-> parent, type |-> type, size |-> size, vg |-> vg, mount |-> mount, data |-> TRUE]

MCStorageRows == {
    Device("d1", None, "disk", 6, None, None), Device("d2", None, "disk", 4, None, None),
    Device(None, None, "disk", 5, None, None),
    Device("p1", "d1", "part", 3, None, "/data"), Device("p2", None, "part", 1, None, None),
    Device("r1", "p1", "raid", 3, None, "/array"), Device("r1", "d2", "raid", 3, None, "/array"),
    Device("l1", "p1", "lvm", 1, "vg", None), Device("l1", "r1", "lvm", 1, "vg", None),
    Device(None, None, "swap", 1, None, None), Device(None, "gone", "part", 1, None, None)}

MCVgFree == [vg \in {"vg"} |-> 2]

\* --- services: a catalogue of five categories; texts are sets of fragments.
MCCatalog == <<
    [key |-> "db", keywords |-> {"sql"}, ports |-> ({"sql"} :> {3306}), single |-> FALSE],
    [key |-> "web", keywords |-> {"nginx"}, ports |-> ({"nginx"} :> {80}), single |-> FALSE],
    [key |-> "container", keywords |-> {"docker"}, ports |-> ({"docker"} :> {2375}), single |-> TRUE],
    [key |-> "remote", keywords |-> {"ssh"}, ports |-> ({"ssh"} :> {22}), single |-> FALSE]>>

Unit(text, pid) == [unit |-> text, pid |-> pid]
Socket(port, pid, comm) == [port |-> port, proto |-> 1, pid |-> pid, comm |-> comm]

MCServiceRows == {
    Unit({"nginx"}, 1), Unit({"docker"}, NoPid), Unit({"docker", "shim"}, NoPid),
    Unit({"ssh"}, 2), Unit({"app"}, 3), Unit({"app"}, NoPid),
    Socket(80, 1, {"nginx"}), Socket(80, NoPid, {}), Socket(80, 2, {"ssh", "d"}),
    Socket(22, NoPid, {"systemd"}), Socket(3306, 3, {"app", "x"}), Socket(50000, NoPid, {"sql", "d"})}

\* --- network: three servers, two subnets, two gateways.
Interface(host, net, gateway) == [host |-> host, kind |-> "physical", net |-> net, gateway |-> gateway]

MCNetworkRows == {
    Interface(1, "a", NoNet), Interface(1, "a", "g"), Interface(1, "b", "g"), Interface(1, "b", NoNet),
    Interface(2, "a", "g"), Interface(2, "a", "h"), Interface(2, "b", "g"),
    Interface(3, "a", "h"), Interface(3, "b", NoNet), Interface(3, NoNet, "g"),
    [Interface(3, "a", "g") EXCEPT !.kind = "bridge"]}

\* --- fleet: systems that go through all stages of support within MaxDay, a Windows
\* build that two releases share and a system of which two entries fit.
Release(support, eol, extended) == [support |-> support, eol |-> eol, extended |-> extended]
Linux(releases) == [windows |-> FALSE, releases |-> releases]

MCEolCatalog ==
    ("lts" :> Linux(<<Release(1, 2, 3)>>)) @@ ("plain" :> Linux(<<Release(Unset, 1, Unset), Release(Unset, 3, Unset)>>))
    @@ ("build" :> [windows |-> TRUE, releases |-> <<Release(0, 0, Unset), Release(1, 3, Unset)>>])
    @@ ("unlisted" :> Linux(<<>>))

\* The last two weeks, and a day that ended yesterday.
MCStandard == [span |-> 14, back |-> 0]
Earlier == [span |-> 1, back |-> 1]
MCWindows == {MCStandard, Earlier}

Load(class) ==
    [class |-> class, busy |-> FALSE, awake |-> "optimal", sat |-> {}, causes |-> {}, swap |-> FALSE,
     peak |-> 20, p95 |-> 20, sampled |-> TRUE, restarts |-> 0, runway |-> Unset, mount |-> Unset]
Short(axes, peak) == [Load("under_provisioned") EXCEPT !.sat = axes, !.causes = axes, !.peak = peak, !.p95 = peak]
Active(awake) == [Load("idle") EXCEPT !.busy = TRUE, !.awake = awake]
NoLoad == [Load("insufficient_data") EXCEPT !.peak = 0, !.p95 = 0, !.sampled = FALSE]

Server(name, os, standard, earlier) ==
    [name |-> name, addr |-> name + 10, os |-> os, load |-> (MCStandard :> standard) @@ (Earlier :> earlier),
     counter |-> <<>>, flag |-> TRUE, silent |-> 0, age |-> 1, cpu |-> 10, cores |-> 4, mem |-> 2, ram |-> 8, live |-> {}]

MCFleetRows == {
    Server(1, "lts", Load("optimal"), Short({"disk_io"}, 80)),
    [Server(2, "build", Active("optimal"), Load("idle")) EXCEPT !.cpu = 0, !.cores = 0, !.counter = ("db" :> 2)],
    [Server(1, "plain", Load("over_provisioned"), Active("over_provisioned")) EXCEPT !.flag = FALSE, !.age = 9, !.addr = 20],
    [Server(3, "build", [Short({"cpu", "mem"}, 90) EXCEPT !.swap = TRUE, !.p95 = 60], Active("optimal"))
         EXCEPT !.live = {"mem"}, !.cpu = 90, !.cores = 2, !.mem = 3, !.ram = 3, !.counter = ("web" :> 1) @@ ("mail" :> 1)],
    Server(2, "plain", [Short({"cpu"}, 95) EXCEPT !.sampled = FALSE, !.runway = 5, !.mount = "/", !.restarts = 3],
         [Short({"cpu"}, 95) EXCEPT !.runway = 7, !.mount = "/var", !.restarts = 3]),
    [Server(4, Unset, NoLoad, NoLoad) EXCEPT !.flag = FALSE, !.silent = Unset, !.age = Unset, !.cpu = Unset,
         !.mem = Unset, !.cores = 0, !.ram = 0],
    [Server(3, "unlisted", [Load("optimal") EXCEPT !.sat = {"net"}, !.restarts = 2], [Load("optimal") EXCEPT !.restarts = 3])
         EXCEPT !.live = {"net"}, !.silent = 1, !.age = 4],
    [Server(4, "lts", [Load("optimal") EXCEPT !.runway = 40, !.mount = "/"], NoLoad)
         EXCEPT !.age = 8, !.flag = FALSE, !.cpu = Unset]}

MCSelectionFilters == {
    [names |-> {}, addrs |-> {}, ids |-> {}, pairs |-> {}],
    [names |-> {1, 9}, addrs |-> {}, ids |-> {}, pairs |-> {}],
    [names |-> {2}, addrs |-> {14, 99}, ids |-> {1}, pairs |-> {}],
    [names |-> {}, addrs |-> {}, ids |-> {}, pairs |-> {<<1, 20>>, <<2, 1>>}]}

MCMaxRows == [storage |-> 5, services |-> 4, network |-> 4, fleet |-> 3]
=============================================================================
