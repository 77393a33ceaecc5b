------------------------------ MODULE StorageTree ------------------------------
(***************************************************************************)
(* The storage page: build_storage_tree turns the flat list of block       *)
(* devices of an inventory into a tree under the physical disks.  A row    *)
(* names its parent; a device with several parents (RAID, multipath,       *)
(* striped LV) is repeated, once per parent; rows come in any order, and   *)
(* old agents leave out ids.                                               *)
(*                                                                         *)
(* The recursion over children is a walk over a list of what is still to   *)
(* be placed: a device is taken from its front, and its children are put   *)
(* there, so that the set of visited ids is consulted in the same order.   *)
(***************************************************************************)
EXTENDS Integers, Sequences, FiniteSets, SequencesExt, FiniteSetsExt

CONSTANTS
    None,
    MinGap,            \* _UNALLOC_MIN_BYTES
    VgFree             \* volume group -> its free space

\* A row: [id, parent, type, size, vg, mount, data].
is_physical_disk(row) == row.type = "disk"
is_swap(row) == row.type = "swap"

_SPANNING_KINDS == {"raid", "mpath", "dynamic"}

Spanning(row) == row.type \in _SPANNING_KINDS

\* children_map.get(did): for a device without an id, the rows without a parent.
Direct(rows, did) == {i \in DOMAIN rows : rows[i].parent = did}

InOrder(S) == SetToSortSeq(S, <)

TotalSize(rows, S) == MapThenSumSet(LAMBDA i : rows[i].size, S)

-----------------------------------------------------------------------------

\* The rows from which a walk starts: the disks, and what has no known parent.
Disks(rows) == {i \in DOMAIN rows : is_physical_disk(rows[i])}

KnownIds(rows) == {rows[i].id : i \in DOMAIN rows} \ {None}

\* Mutant: a device whose parent is not in the list is left out.
OrphansWithoutParent(rows) == {i \in DOMAIN rows : ~is_physical_disk(rows[i]) /\ rows[i].parent = None}

Orphans(rows) ==
    {i \in DOMAIN rows : /\ ~is_physical_disk(rows[i])
                         /\ rows[i].parent = None \/ rows[i].parent \notin KnownIds(rows)}

Start(rows) ==
    LET Entries(as, S) == [k \in DOMAIN InOrder(S) |->
                              [as |-> as, row |-> InOrder(S)[k], under |-> 0, root |-> InOrder(S)[k]]]
    IN  [todo |-> Entries("disk", Disks(rows)) \o Entries("orphan", Orphans(rows)),
         visited |-> {}, home |-> <<>>, nodes |-> <<>>]

\* The chips that follow the children: a gap on a disk, and the free space of the
\* volume groups whose LVs lie here.
Extras(rows, i, at) ==
    LET direct == Direct(rows, rows[i].id)
        gap == rows[i].size - TotalSize(rows, direct)
        vgs == {rows[c].vg : c \in {c \in direct : rows[c].type = "lvm"}} \cap DOMAIN VgFree
        Chip(kind, size, vg) == [kind |-> kind, row |-> i, under |-> at, size |-> size, vg |-> vg]
    IN  (IF is_physical_disk(rows[i]) /\ gap >= MinGap THEN <<Chip("unallocated", gap, None)>> ELSE <<>>)
        \o SetToSeq({Chip("vg_free", VgFree[v], v) : v \in vgs})

\* _build_storage_node for a device that is placed for the first time.
Place(rows, s, e) ==
    LET row == rows[e.row]
        at == Len(s.nodes) + 1
        direct == InOrder(Direct(rows, row.id))
        node == [kind |-> "device", row |-> e.row, under |-> e.under, size |-> row.size,
                 mount |-> IF row.mount # None /\ ~is_swap(row) /\ row.data THEN row.mount ELSE None]
    IN  [todo |-> [k \in DOMAIN direct |-> [as |-> "child", row |-> direct[k], under |-> at, root |-> e.root]]
                  \o Tail(s.todo),
         visited |-> s.visited \cup {row.id},
         home |-> IF Spanning(row) /\ \A h \in DOMAIN s.home : s.home[h].id # row.id
                  THEN Append(s.home, [id |-> row.id, root |-> e.root]) ELSE s.home,
         nodes |-> Append(s.nodes, node) \o Extras(rows, e.row, at)]

\* _member_ref_node: an array that is shown under another disk already.
Refer(rows, s, e) ==
    LET at == SelectInSeq(s.home, LAMBDA h : h.id = rows[e.row].id)
    IN  [s EXCEPT !.todo = Tail(@),
                  !.nodes = Append(@, [kind |-> "raid_member", row |-> e.row, under |-> e.under,
                                       size |-> rows[e.row].size, home |-> s.home[at].root])]

\* Disks are always placed; a device that is reached again is passed over, unless
\* it is an array below a disk.
Step(rows, s) ==
    LET e == Head(s.todo)
        seen == rows[e.row].id \in s.visited
    IN  CASE s.todo = <<>> -> s
          [] s.todo # <<>> /\ (e.as = "disk" \/ ~seen) -> Place(rows, s, e)
          [] s.todo # <<>> /\ e.as = "child" /\ seen /\ Spanning(rows[e.row]) -> Refer(rows, s, e)
          [] OTHER -> [s EXCEPT !.todo = Tail(@)]

\* Every placed device queues its children once, and an id is placed at most once
\* but for disks.
build_storage_tree(rows) ==
    LET steps == (2 * Len(rows) + 1) * (Len(rows) + 1)
        walk[n \in 0..steps] == IF n = 0 THEN Start(rows) ELSE Step(rows, walk[n - 1])
    IN  walk[steps].nodes

-----------------------------------------------------------------------------
(* The figures of the system card *)

disk_total_bytes(rows) == TotalSize(rows, Disks(rows))

\* _to_volumes: the mounted rows that hold data, an array once per row.
_to_volumes(rows) == {i \in DOMAIN rows : rows[i].mount # None /\ ~is_swap(rows[i]) /\ rows[i].data}

\* Allocated, in volumes, and the rest, which is never negative; None: unknown.
storage_layers_gb(rows) ==
    LET volumes == TotalSize(rows, _to_volumes(rows))
        rest == disk_total_bytes(rows) - volumes
    IN  [allocated |-> disk_total_bytes(rows),
         volumes |-> IF volumes = 0 THEN None ELSE volumes,
         unallocated |-> IF volumes = 0 THEN None ELSE IF rest < 0 THEN 0 ELSE rest]

-----------------------------------------------------------------------------
(* What the tree promises *)

\* The ids that lie on a start of the walk, however deep.
Reached(rows) ==
    LET More(S) == S \cup {rows[i].id : i \in {i \in DOMAIN rows : rows[i].parent \in S}}
        level[n \in 0..Len(rows)] ==
            IF n = 0 THEN {rows[i].id : i \in {i \in DOMAIN rows : rows[i].type = "disk" \/ rows[i].parent \notin KnownIds(rows)}}
            ELSE More(level[n - 1])
    IN  level[Len(rows)]

\* The root above a node.
RootOf(nodes, n) ==
    LET up[k \in 1..Len(nodes)] == IF nodes[k].under = 0 THEN nodes[k].row ELSE up[nodes[k].under]
    IN  up[n]

\* Every device that hangs on a disk, or on nothing known, is drawn once with what
\* lies on it, an array is also marked below each of its other members with the
\* root that has the details, the chips below a disk add up to it, and the free
\* space of a volume group is drawn once per physical volume that holds an LV of it.
TreeIsComplete(rows) ==
    LET nodes == build_storage_tree(rows)
        Devices(id) == {n \in DOMAIN nodes : nodes[n].kind = "device" /\ rows[nodes[n].row].id = id}
        Below(n) == {m \in DOMAIN nodes : nodes[m].under = n}
        ids == {rows[i].id : i \in DOMAIN rows}
    IN  /\ \A id \in ids : Cardinality(Devices(id)) = IF id \in Reached(rows) THEN 1 ELSE 0
        /\ \A i \in DOMAIN rows : Spanning(rows[i]) /\ rows[i].parent \in Reached(rows) =>
              \E n \in DOMAIN nodes : nodes[n].row = i
        /\ \A n \in DOMAIN nodes : nodes[n].kind = "raid_member" =>
              \E m \in Devices(rows[nodes[n].row].id) : RootOf(nodes, m) = nodes[n].home
        /\ \A n \in DOMAIN nodes : nodes[n].kind = "unallocated" =>
              nodes[n].size + TotalSize(rows, Direct(rows, rows[nodes[n].row].id)) = rows[nodes[n].row].size
        /\ \A vg \in DOMAIN VgFree :
              Cardinality({n \in DOMAIN nodes : nodes[n].kind = "vg_free" /\ nodes[n].vg = vg})
                = Cardinality({rows[i].parent : i \in {i \in DOMAIN rows :
                                 rows[i].vg = vg /\ rows[i].type = "lvm" /\ rows[i].parent \in Reached(rows)}})

\* Every volume lies directly on a disk, and the disks hold what lies on them.
PlainLayout(rows) ==
    /\ \A i \in DOMAIN rows : rows[i].type # "disk" => \E d \in Disks(rows) : rows[i].parent = rows[d].id
    /\ \A i, j \in DOMAIN rows : i # j => rows[i].id # rows[j].id
    /\ \A d \in Disks(rows) : TotalSize(rows, Direct(rows, rows[d].id)) <= rows[d].size

\* The system card and the tree of the same devices: nothing that the tree shows as
\* free is volume space on the card, but where volumes lie on volumes or an array is
\* listed once per member the card counts them more than once and says less is free.
CardFits(rows) ==
    LET card == storage_layers_gb(rows)
        nodes == build_storage_tree(rows)
        chips == {n \in DOMAIN nodes : nodes[n].kind = "unallocated"}
        free == MapThenSumSet(LAMBDA n : nodes[n].size, chips)
    IN  card.volumes # None =>
            /\ card.allocated <= card.volumes + card.unallocated
            /\ PlainLayout(rows) => /\ free <= card.unallocated
                                    /\ card.volumes + card.unallocated = card.allocated

\* Without ids the disks are still drawn, each at the top, but what has no parent is
\* drawn below a disk without an id too, and of several devices without an id and
\* without a disk only the first one remains.
TreeKeepsDisks(rows) ==
    LET nodes == build_storage_tree(rows)
        Roots(S) == {n \in DOMAIN nodes : nodes[n].under = 0 /\ nodes[n].row \in S}
        lost == {i \in DOMAIN rows \ Disks(rows) : rows[i].id = None /\ rows[i].parent \notin KnownIds(rows)}
    IN  /\ \A i \in Disks(rows) : Cardinality(Roots({i})) = 1
        /\ Cardinality(Roots(lost)) = IF lost = {} \/ \E i \in Disks(rows) : rows[i].id = None THEN 0 ELSE 1
=============================================================================
