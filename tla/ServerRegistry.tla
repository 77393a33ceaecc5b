----------------------------- MODULE ServerRegistry -----------------------------
(***************************************************************************)
(* One server in the database and in Redis: the inventory row, its history,*)
(* the metric samples, the two cached pages and the online flag, written   *)
(* by concurrent handlers of the consumer and read through the cache by    *)
(* concurrent requests of the web process.  Rows and keys of different     *)
(* servers are independent.                                                *)
(*                                                                         *)
(* A message has the time it was collected; messages are handled in any    *)
(* order and may be delivered twice.  Agents compute the boot time from    *)
(* the clock, so that it is off by up to Jitter, and leave out a time that *)
(* they cannot read: the column is NULL then.                              *)
(***************************************************************************)
EXTENDS Integers, FiniteSets, FiniteSetsExt

CONSTANTS
    None,
    Handlers,          \* handlers of the consumer that run at the same time
    Readers,           \* requests of the web process
    Configs,           \* what the compared columns may say (hardware, services, ...)
    FirstConfig,
    Tolerance,         \* BOOT_TIME_JITTER_TOLERANCE
    Jitter,            \* how far a reported boot time is off at most
    Offset,            \* instant -> how far the boot time reported then is off
    Lacking,           \* instant -> the sets of times that a report of then may lack
    Ttl,               \* page -> lifetime of its cache key
    OnlineTtl,
    MaxTime,           \* bound: the clock
    MaxEvents,         \* bound: reboots, restarts and reconfigurations
    MaxPending,        \* bound: messages published and not yet committed
    MaxFaults          \* bound: failed Redis calls, lost answers, redeliveries

Pages == {"inventory", "metrics"}

\* The rows of server_inventory.
Rows == [boot : Nat \cup {None}, started : Nat \cup {None}, conf : Configs \cup {None},
         last_seen : Nat]

\* NULL is no configuration, no kind of event, no time and no row.
ASSUME RegistryAssumption ==
    /\ Tolerance \in Nat /\ Jitter \in 0..Tolerance /\ MaxTime \in Nat
    /\ \A t \in 1..MaxTime : Offset[t] \in 0..Jitter
    /\ FirstConfig \in Configs
    /\ None \notin Configs \cup {"reboot", "restart"} /\ None \notin Nat /\ None \notin Rows
    /\ Ttl \in [Pages -> Nat] /\ OnlineTtl \in Nat

VARIABLES
    now,
    host,              \* what is true of the server: boot, agent start, configuration
    events,            \* how often that has changed
    queue,             \* messages published and not yet taken by a handler
    server,            \* the row of server_inventory, or None
    history,           \* the rows of server_inventory_history
    samples,           \* collected_at of the rows of server_metrics
    hand,              \* handler -> phase, message, the row it compared with
    reader,            \* request -> phase, page, what it read
    cache,             \* page -> cached view, or None
    online,            \* when the online flag expires, or None
    faults,
    stored,            \* messages that have been committed
    late,              \* whether an older inventory was committed after a newer one
    overtaken,         \* whether a row changed between its comparison and its update
    lost               \* keys whose last SET or DELETE failed, or that Redis forgot

vars == <<now, host, events, queue, server, history, samples, hand, reader, cache,
          online, faults, stored, late, overtaken, lost>>

-----------------------------------------------------------------------------
(* boot_time.py and the comparison of two inventories *)

\* Reboots are far apart compared with the tolerance.
BootGap == 2 * Tolerance + 2 * Jitter + 1

\* The boot a measured time belongs to; a missing time tells of none.
BootOf(measured) == IF measured = None THEN None ELSE (measured + Jitter) \div BootGap

Apart(a, b) == ~(a - b \in (-Tolerance)..Tolerance)

\* Mutant: any difference is a reboot.
boot_time_differs(prev, new) == prev # new

boot_time_changed(prev, new) ==
    IF None \in {prev, new} THEN prev # new ELSE Apart(prev, new)

\* Mutant: a restarted agent is not a change.
ChangedWithoutRestarts(prev, new) ==
    prev.conf # new.conf \/ boot_time_changed(prev.boot, new.boot)

_inventory_changed(prev, new) ==
    \/ prev.conf # new.conf
    \/ boot_time_changed(prev.boot, new.boot)
    \/ prev.started # new.started

-----------------------------------------------------------------------------
(* The statements of the collect repository *)

_inventory_row(m) == [boot |-> m.boot, started |-> m.started, conf |-> m.conf, last_seen |-> m.at]

\* ON CONFLICT DO NOTHING on (server_id, collected_at).
_append_inventory_history(m) ==
    IF \E r \in history : r.at = m.at THEN history
    ELSE history \cup {[at |-> m.at, boot |-> m.boot, started |-> m.started, conf |-> m.conf]}

\* `prev` was read earlier in the same transaction, without a lock.
upsert_server(prev, m) ==
    /\ server' = _inventory_row(m)
    /\ history' = IF prev = None \/ (prev # None /\ _inventory_changed(prev, m))
                  THEN _append_inventory_history(m) ELSE history

\* A server known by its metrics only: no configuration, and no history row.
build_placeholder_inventory(m) == [_inventory_row(m) EXCEPT !.conf = None]

ensure_server_id(m) ==
    /\ server' = IF server = None THEN build_placeholder_inventory(m) ELSE server
    /\ UNCHANGED history

-----------------------------------------------------------------------------
(* The agent *)

Idle == [phase |-> "idle", msg |-> None, prev |-> None]
NoRequest == [phase |-> "idle", page |-> None, view |-> None]

Init ==
    /\ now = 0 /\ events = 0 /\ faults = 0
    /\ host = [boot |-> 0, started |-> 0, conf |-> FirstConfig]
    /\ queue = {} /\ stored = {}
    /\ server = None /\ history = {} /\ samples = {}
    /\ hand = [h \in Handlers |-> Idle]
    /\ reader = [r \in Readers |-> NoRequest]
    /\ cache = [p \in Pages |-> None]
    /\ online = None
    /\ late = FALSE /\ overtaken = FALSE /\ lost = {}

tables == <<server, history, samples, stored, late, overtaken>>
redis == <<cache, online, lost>>

\* What may happen to the server between two reports.
Reboot == [host EXCEPT !.boot = @ + 1, !.started = @ + 1]
Restart == [host EXCEPT !.started = @ + 1]
Reconfigured == {[host EXCEPT !.conf = c] : c \in Configs \ {host.conf}}

\* Redis drops a key when its time is over.
Expire ==
    /\ cache' = [p \in Pages |-> IF cache[p] # None /\ now' >= cache[p].expires THEN None ELSE cache[p]]
    /\ online' = IF online # None /\ now' >= online THEN None ELSE online
    /\ lost' = {k \in lost : k \in Pages => cache'[k] # None}

\* One report per instant; the kind says which queue it goes to.
Report(kind, h) ==
    /\ now < MaxTime
    /\ Cardinality(queue) + Cardinality({x \in Handlers : hand[x].phase = "taken"}) < MaxPending
    /\ now' = now + 1
    /\ host' = h
    /\ \E lack \in Lacking[now'] :
          queue' = queue \cup
              {[kind |-> kind, at |-> now', conf |-> h.conf,
                boot |-> IF "boot" \in lack THEN None ELSE h.boot * BootGap + Offset[now'],
                started |-> IF "started" \in lack THEN None ELSE h.started]}
    /\ Expire
    /\ UNCHANGED <<hand, reader, faults, tables>>

Publish(kind) == Report(kind, host) /\ UNCHANGED events

PublishChange(kind) ==
    /\ events < MaxEvents
    /\ events' = events + 1
    /\ \E h \in {Reboot, Restart} \cup Reconfigured : Report(kind, h)

Fault == faults < MaxFaults /\ faults' = faults + 1

\* Published again without a confirm, or redelivered by the broker, while Redis
\* does not remember its idempotency key.
Redelivered ==
    /\ Fault
    /\ \E m \in stored : queue' = queue \cup {m}
    /\ UNCHANGED <<now, host, events, hand, reader, tables, redis>>

-----------------------------------------------------------------------------
(* The handlers *)

\* The handler of inventories takes one; upsert_server begins by reading the row.
Take(h) ==
    /\ hand[h].phase = "idle"
    /\ \E m \in queue :
          /\ m.kind = "inventory"
          /\ queue' = queue \ {m}
          /\ hand' = [hand EXCEPT ![h] = [phase |-> "taken", msg |-> m, prev |-> server]]
    /\ UNCHANGED <<now, host, events, reader, faults, tables, redis>>

Committed(h) ==
    LET m == hand[h].msg
    IN  /\ hand[h].phase = "taken"
        /\ upsert_server(hand[h].prev, m)
        /\ stored' = stored \cup {m}
        /\ late' = (late \/ \E n \in stored : n.kind = "inventory" /\ n.at > m.at)
        /\ overtaken' = (overtaken \/ hand[h].prev # server)
        /\ UNCHANGED samples

Commit(h) ==
    /\ Committed(h)
    /\ hand' = [hand EXCEPT ![h].phase = "stored", ![h].prev = None]
    /\ UNCHANGED <<now, host, events, queue, reader, faults, redis>>

\* The commit is applied but its answer is lost: _db_retry runs the transaction
\* again, and reads the row again.
CommitUnseen(h) ==
    /\ Fault
    /\ Committed(h)
    /\ hand' = [hand EXCEPT ![h].prev = server']
    /\ UNCHANGED <<now, host, events, queue, reader, redis>>

\* The handler of metrics: both its statements ignore a row that is there, so that
\* one step stands for its transaction and the repetitions of it.
StoreMetric(h) ==
    /\ hand[h].phase = "idle"
    /\ \E m \in queue :
          /\ m.kind = "metrics"
          /\ queue' = queue \ {m}
          /\ ensure_server_id(m)
          /\ samples' = samples \cup {m.at}
          /\ stored' = stored \cup {m}
          /\ hand' = [hand EXCEPT ![h] = [phase |-> "stored", msg |-> m, prev |-> None]]
    /\ UNCHANGED <<now, host, events, reader, faults, late, overtaken, redis>>

KeyOf(m) == m.kind

\* Mutant: the cached page is left alone.
RefreshedOnlineOnly(h, setOk, deleteOk) ==
    /\ online' = IF setOk THEN now + OnlineTtl ELSE online
    /\ UNCHANGED <<cache, lost>>

\* Redis calls fail open; each one may fail by itself.
Refreshed(h, setOk, deleteOk) ==
    LET p == KeyOf(hand[h].msg)
    IN  /\ online' = IF setOk THEN now + OnlineTtl ELSE online
        /\ cache' = IF deleteOk THEN [cache EXCEPT ![p] = None] ELSE cache
        /\ lost' = (lost \ {"online", p}) \cup (IF setOk THEN {} ELSE {"online"})
                                          \cup (IF deleteOk \/ cache[p] = None THEN {} ELSE {p})

\* After the commit: the online flag is set, and the cached page deleted.
Refresh(h) ==
    /\ hand[h].phase = "stored"
    /\ \/ Refreshed(h, TRUE, TRUE) /\ UNCHANGED faults
       \/ Fault /\ \E setOk, deleteOk \in BOOLEAN :
                      ~(setOk /\ deleteOk) /\ Refreshed(h, setOk, deleteOk)
    /\ hand' = [hand EXCEPT ![h] = Idle]
    /\ UNCHANGED <<now, host, events, queue, reader, tables>>

\* Redis restarts without its data.
RedisForgets ==
    /\ Fault
    /\ cache' = [p \in Pages |-> None]
    /\ online' = None
    /\ lost' = {"online"}
    /\ UNCHANGED <<now, host, events, queue, hand, reader, tables>>

-----------------------------------------------------------------------------
(* The pages *)

\* The detail page shows the row.  The dashboard shows the newest samples, and
\* takes the operating system and the physical devices from the row.
View(p) ==
    CASE p = "inventory" -> server
      [] p = "metrics" -> IF samples = {} THEN None
                          ELSE [at |-> Max(samples), conf |-> server.conf]

Live(p) == cache[p] # None

\* get_server and latest_metric after a miss, or after a GET that failed: the
\* tables are read.  On a hit nothing changes.
ReadTables(r, p) ==
    /\ reader[r].phase = "idle"
    /\ View(p) # None
    /\ \/ ~Live(p) /\ UNCHANGED faults
       \/ Live(p) /\ Fault
    /\ reader' = [reader EXCEPT ![r] = [phase |-> "read", page |-> p, view |-> View(p)]]
    /\ UNCHANGED <<now, host, events, queue, hand, tables, redis>>

\* The page is stored as it was read, for its TTL.
FillCache(r) ==
    LET p == reader[r].page
    IN  /\ reader[r].phase = "read"
        /\ cache' = [cache EXCEPT ![p] = [view |-> reader[r].view, expires |-> now + Ttl[p],
                                          outdated |-> reader[r].view # View(p)]]
        /\ lost' = lost \ {p}
        /\ reader' = [reader EXCEPT ![r] = NoRequest]
        /\ UNCHANGED <<now, host, events, queue, hand, faults, tables, online>>

FillFails(r) ==
    /\ reader[r].phase = "read"
    /\ reader' = [reader EXCEPT ![r] = NoRequest]
    /\ UNCHANGED <<now, host, events, queue, hand, faults, tables, redis>>

Next ==
    \/ \E kind \in Pages : Publish(kind) \/ PublishChange(kind)
    \/ Redelivered \/ RedisForgets
    \/ \E h \in Handlers : Take(h) \/ StoreMetric(h) \/ Commit(h) \/ CommitUnseen(h) \/ Refresh(h)
    \/ \E r \in Readers : FillCache(r) \/ FillFails(r) \/ \E p \in Pages : ReadTables(r, p)

Spec == Init /\ [][Next]_vars

-----------------------------------------------------------------------------
(* What the pages count *)

AtLeastZero(n) == IF n < 0 THEN 0 ELSE n

\* COUNT(DISTINCT ...) - 1 of the times that are there, without the jitter tolerance.
report_uptime_stats == AtLeastZero(Cardinality({r.boot : r \in history} \ {None}) - 1)

report_agent_restart_stats == AtLeastZero(Cardinality({r.started : r \in history} \ {None}) - 1)

Before(r) == {q \in history : q.at < r.at}

Predecessor(r) == CHOOSE q \in Before(r) : \A o \in Before(r) : o.at <= q.at

\* LAG yields NULL for the first row of the range and after a row without a boot
\* time: either counts as a reboot.
NoBaseline(r) == Before(r) = {} \/ Predecessor(r).boot = None

\* A row that has lost its boot time compares as NULL, which is no reboot.
EventKind(r) ==
    IF NoBaseline(r) THEN "reboot"
    ELSE IF r.boot # None /\ Apart(r.boot, Predecessor(r).boot) THEN "reboot"
    ELSE IF r.started # Predecessor(r).started THEN "restart"
    ELSE None

reboot_events == {r \in history : EventKind(r) # None}

\* Redis is down: a server is online if its row was seen within the TTL.
OnlineByTable == server # None /\ server.last_seen > now - OnlineTtl

OnlineByFlag == online # None

-----------------------------------------------------------------------------
(* Properties *)

Inventories == {m \in stored : m.kind = "inventory"}

InOrder == ~late /\ ~overtaken

\* Redis follows the tables.  A cached page differs from what the tables say only
\* while a handler is about to delete it, if a request had read it before the
\* commit and stored it after the deletion, if the deletion failed, or, for the
\* dashboard, because an inventory deletes only its own page.  A server that the
\* fallback takes for online has its flag, unless a Redis call failed or is
\* still to come.
RedisFollowsTables ==
    /\ \A p \in Pages : Live(p) /\ cache[p].view # View(p) =>
          \/ \E h \in Handlers : hand[h].phase = "stored" /\ KeyOf(hand[h].msg) = p
          \/ \E h \in Handlers : hand[h].phase = "taken" /\ hand[h].msg \in stored
          \/ cache[p].outdated
          \/ p \in lost
          \/ p = "metrics" /\ cache[p].view.at = View(p).at
    /\ OnlineByTable =>
          \/ OnlineByFlag \/ "online" \in lost
          \/ \E h \in Handlers : hand[h].phase # "idle" /\ hand[h].msg \in stored

\* If inventories are stored in the order they were collected and no two handlers
\* overlap, the history explains the row: its newest entry says what the row says,
\* and two entries in a row always differ in something that really changed, or in
\* whether a time was read, never in the jitter of the boot time alone.
HistoryExplainsRow ==
    LET Same(a, b) == a.conf = b.conf /\ a.started = b.started /\ BootOf(a.boot) = BootOf(b.boot)
    IN  InOrder /\ Inventories # {} =>
          /\ \E r \in history : /\ \A q \in history : q.at <= r.at
                                /\ Same(r, server)
          /\ \A r \in history : Before(r) # {} => ~Same(r, Predecessor(r))

\* Whatever the order, no reported restart or reboot is missed, restarts are
\* counted exactly, and the reboot count is too high only if the history holds two
\* measurements of one boot.  The charts mark every boot that was reported once,
\* and mark one again only where the row before is missing or lacks its boot time.
EventsAreCounted ==
    LET boots == {BootOf(m.boot) : m \in Inventories} \ {None}
        markers == {r \in reboot_events : EventKind(r) = "reboot"}
        FirstOfBoot(r) == r.boot # None /\ \A q \in Before(r) : BootOf(q.boot) # BootOf(r.boot)
    IN  /\ report_agent_restart_stats =
              AtLeastZero(Cardinality({m.started : m \in Inventories} \ {None}) - 1)
        /\ report_uptime_stats >= AtLeastZero(Cardinality(boots) - 1)
        /\ report_uptime_stats > AtLeastZero(Cardinality(boots) - 1) =>
              \E r, q \in history : /\ None \notin {r.boot, q.boot} /\ r.boot # q.boot
                                    /\ BootOf(r.boot) = BootOf(q.boot)
        /\ Cardinality({r \in markers : FirstOfBoot(r)}) = Cardinality(boots)
        /\ \A r \in markers : FirstOfBoot(r) \/ NoBaseline(r)
=============================================================================
