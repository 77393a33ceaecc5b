------------------------- MODULE ServerRegistry_proofs -------------------------
(***************************************************************************)
(* Proofs for ServerRegistry, for any number of handlers, readers,         *)
(* reports and faults: Redis follows the tables, the history explains the  *)
(* row, and reboots and restarts are counted as they were reported.        *)
(***************************************************************************)
EXTENDS ServerRegistry, FiniteSetTheorems, WellFoundedInduction, TLAPS

Messages == [kind : Pages, at : Nat, boot : Nat \cup {None}, started : Nat \cup {None},
             conf : Configs]

HostOK ==
    /\ now \in 0..MaxTime
    /\ host \in [boot : Nat, started : Nat, conf : Configs]

TablesOK ==
    /\ queue \in SUBSET Messages /\ stored \in SUBSET Messages
    /\ server \in Rows \cup {None}
    /\ \A m \in queue \cup stored : m.at <= now
    /\ server # None => server.last_seen <= now

HandOK(h) ==
    /\ hand[h] \in [phase : {"idle", "taken", "stored"}, msg : Messages \cup {None},
                    prev : Rows \cup {None}]
    /\ hand[h].phase # "idle" => hand[h].msg \in Messages /\ hand[h].msg.at <= now
    /\ hand[h].phase = "taken" => hand[h].msg.kind = "inventory"
    /\ hand[h].phase = "stored" => hand[h].msg \in stored

ReaderOK(r) ==
    /\ reader[r].phase \in {"idle", "read"}
    /\ reader[r].phase = "read" => reader[r].page \in Pages

TypeOK ==
    /\ HostOK /\ TablesOK
    /\ hand = [h \in Handlers |-> hand[h]] /\ \A h \in Handlers : HandOK(h)
    /\ reader = [r \in Readers |-> reader[r]] /\ \A r \in Readers : ReaderOK(r)
    /\ cache = [p \in Pages |-> cache[p]]
    /\ online \in Nat \cup {None}

\* A message becomes a row.
LEMMA RowType ==
    ASSUME NEW m \in Messages
    PROVE  /\ _inventory_row(m) \in Rows /\ _inventory_row(m) # None
           /\ build_placeholder_inventory(m) \in Rows /\ build_placeholder_inventory(m) # None
           /\ _inventory_row(m).last_seen = m.at
           /\ build_placeholder_inventory(m).last_seen = m.at
<1>1. _inventory_row(m) \in Rows /\ _inventory_row(m).last_seen = m.at
  BY DEF _inventory_row, Messages, Rows
<1>2. build_placeholder_inventory(m) \in Rows /\ build_placeholder_inventory(m).last_seen = m.at
  BY DEF _inventory_row, build_placeholder_inventory, Messages, Rows
<1> QED
  BY <1>1, <1>2, RegistryAssumption

\* A handler that has not moved.
LEMMA HandStays ==
    ASSUME HostOK, HostOK', now <= now', stored \subseteq stored',
           NEW h \in Handlers, HandOK(h), hand'[h] = hand[h]
    PROVE  HandOK(h)'
<1>1. hand[h].phase # "idle" => hand[h].msg.at \in Nat
  BY DEF HandOK, Messages
<1>2. hand[h].phase # "idle" => hand[h].msg.at <= now'
  BY <1>1, RegistryAssumption DEF HandOK, HostOK
<1> QED
  BY <1>2 DEF HandOK

\* Every step keeps the types.
LEMMA TypeStep == TypeOK /\ [Next]_vars => TypeOK'
<1> SUFFICES ASSUME TypeOK, [Next]_vars PROVE TypeOK'
  OBVIOUS
<1> USE RegistryAssumption
<1>1. ASSUME NEW kind \in Pages, NEW h \in [boot : Nat, started : Nat, conf : Configs], Report(kind, h)
      PROVE  TypeOK'
  <2>1. /\ now \in Nat /\ now' = now + 1 /\ now' \in 0..MaxTime /\ Offset[now'] \in Nat
        /\ host' = h /\ UNCHANGED <<hand, reader, stored, server>>
    BY <1>1 DEF Report, TypeOK, HostOK, tables
  <2>2. PICK m \in Messages : m.at = now' /\ queue' = queue \cup {m}
    <3>1. h.boot * BootGap + Offset[now'] \in Nat
      BY <2>1 DEF BootGap
    <3>2. PICK lack \in Lacking[now'] :
              queue' = queue \cup
                  {[kind |-> kind, at |-> now', conf |-> h.conf,
                    boot |-> IF "boot" \in lack THEN None ELSE h.boot * BootGap + Offset[now'],
                    started |-> IF "started" \in lack THEN None ELSE h.started]}
      BY <1>1 DEF Report
    <3> DEFINE M == [kind |-> kind, at |-> now', conf |-> h.conf,
                     boot |-> IF "boot" \in lack THEN None ELSE h.boot * BootGap + Offset[now'],
                     started |-> IF "started" \in lack THEN None ELSE h.started]
    <3>3. M \in Messages /\ M.at = now' /\ queue' = queue \cup {M}
      BY <2>1, <3>1, <3>2 DEF Messages
    <3> QED
      BY <3>3
  <2>3. HostOK'
    BY <2>1 DEF HostOK
  <2>4. TablesOK'
    BY <2>1, <2>2 DEF TypeOK, TablesOK, Messages, Rows
  <2>5. \A x \in Handlers : HandOK(x)'
    BY <2>1, <2>3, HandStays DEF TypeOK
  <2>6. cache' = [p \in Pages |-> cache'[p]] /\ online' \in Nat \cup {None}
    BY <1>1 DEF Report, Expire, TypeOK
  <2> QED
    BY <2>1, <2>3, <2>4, <2>5, <2>6 DEF TypeOK, ReaderOK
<1>2. ASSUME NEW kind \in Pages, Publish(kind) \/ PublishChange(kind) PROVE TypeOK'
  <2>1. PICK h \in {host, Reboot, Restart} \cup Reconfigured : Report(kind, h)
    BY <1>2 DEF Publish, PublishChange
  <2>2. h \in [boot : Nat, started : Nat, conf : Configs]
    <3>1. host \in [boot : Nat, started : Nat, conf : Configs]
      BY DEF TypeOK, HostOK
    <3>2. CASE h \in {host, Reboot, Restart}
      <4>1. Reboot \in [boot : Nat, started : Nat, conf : Configs]
        <5> DEFINE booted == [host EXCEPT !.boot = host.boot + 1]
        <5>1. booted \in [boot : Nat, started : Nat, conf : Configs]
          BY <3>1
        <5>2. Reboot = [booted EXCEPT !.started = booted.started + 1]
          BY DEF Reboot
        <5> HIDE DEF booted
        <5> QED
          BY <5>1, <5>2
      <4>2. Restart \in [boot : Nat, started : Nat, conf : Configs]
        BY <3>1 DEF Restart
      <4> QED
        BY <3>1, <3>2, <4>1, <4>2
    <3>3. CASE h \in Reconfigured
      BY <3>1, <3>3 DEF Reconfigured
    <3> QED
      BY <2>1, <3>2, <3>3
  <2> QED
    BY <1>1, <2>1, <2>2
(* One handler moves. *)
<1>3. ASSUME NEW h \in Handlers, UNCHANGED <<now, host, reader>>, TablesOK', stored \subseteq stored',
             NEW x, hand' = [hand EXCEPT ![h] = x], HandOK(h)',
             cache' = [p \in Pages |-> cache'[p]], online' \in Nat \cup {None}
      PROVE  TypeOK'
  <2>1. HostOK' /\ now <= now'
    BY <1>3 DEF TypeOK, HostOK
  <2>2. hand' = [g \in Handlers |-> hand'[g]] /\ \A g \in Handlers : g # h => hand'[g] = hand[g]
    BY <1>3 DEF TypeOK
  <2>3. \A g \in Handlers : HandOK(g)'
    BY <1>3, <2>1, <2>2, HandStays DEF TypeOK
  <2> QED
    BY <1>3, <2>1, <2>2, <2>3 DEF TypeOK, ReaderOK
<1>4. ASSUME NEW h \in Handlers, Take(h) PROVE TypeOK'
  <2>1. PICK m \in queue : /\ m.kind = "inventory" /\ queue' = queue \ {m}
                           /\ hand' = [hand EXCEPT ![h] = [phase |-> "taken", msg |-> m, prev |-> server]]
    BY <1>4 DEF Take
  <2>2. UNCHANGED <<now, host, reader, tables, redis>>
    BY <1>4 DEF Take
  <2>3. m \in Messages /\ m.at <= now
    BY DEF TypeOK, TablesOK
  <2>4. hand'[h] = [phase |-> "taken", msg |-> m, prev |-> server]
    BY <2>1 DEF TypeOK
  <2>5. HandOK(h)'
    BY <2>2, <2>3, <2>4, <2>1 DEF HandOK, TypeOK, TablesOK
  <2>6. TablesOK'
    BY <2>1, <2>2 DEF TypeOK, TablesOK, tables
  <2> QED
    BY <1>3, <2>1, <2>2, <2>5, <2>6 DEF tables, redis, TypeOK
<1>5. ASSUME NEW h \in Handlers, Committed(h), UNCHANGED <<now, queue>>
      PROVE  /\ TablesOK' /\ hand[h].msg \in Messages /\ hand[h].msg \in stored' /\ server' \in Rows
             /\ stored \subseteq stored' /\ hand[h].msg.at <= now /\ HandOK(h)
  <2>1. HandOK(h) /\ hand[h].msg \in Messages /\ hand[h].msg.at <= now
    BY <1>5 DEF TypeOK, Committed, HandOK
  <2>2. server' = _inventory_row(hand[h].msg) /\ stored' = stored \cup {hand[h].msg}
    BY <1>5 DEF Committed, upsert_server
  <2>3. server' \in Rows /\ server'.last_seen <= now
    BY <2>1, <2>2, RowType
  <2> QED
    BY <1>5, <2>1, <2>2, <2>3 DEF TypeOK, TablesOK
<1>6. ASSUME NEW h \in Handlers, Commit(h) PROVE TypeOK'
  <2>1. /\ UNCHANGED <<now, host, queue, reader, redis>> /\ Committed(h)
        /\ hand' = [hand EXCEPT ![h].phase = "stored", ![h].prev = None]
    BY <1>6 DEF Commit
  <2>2. hand' = [hand EXCEPT ![h] = [hand[h] EXCEPT !.phase = "stored", !.prev = None]]
    BY <2>1 DEF TypeOK
  <2>3. hand'[h] = [phase |-> "stored", msg |-> hand[h].msg, prev |-> None]
    BY <1>5, <2>1, <2>2 DEF TypeOK, HandOK
  <2>4. HandOK(h)'
    BY <1>5, <2>1, <2>3 DEF HandOK
  <2> QED
    BY <1>3, <1>5, <2>1, <2>2, <2>4 DEF redis, TypeOK
<1>7. ASSUME NEW h \in Handlers, CommitUnseen(h) PROVE TypeOK'
  <2>1. /\ UNCHANGED <<now, host, queue, reader, redis>> /\ Committed(h)
        /\ hand' = [hand EXCEPT ![h].prev = server']
    BY <1>7 DEF CommitUnseen
  <2>2. hand' = [hand EXCEPT ![h] = [hand[h] EXCEPT !.prev = server']]
    BY <2>1 DEF TypeOK
  <2>3. hand'[h] = [hand[h] EXCEPT !.prev = server']
    BY <2>2 DEF TypeOK
  <2>4. HandOK(h)'
    BY <1>5, <2>1, <2>3 DEF HandOK
  <2> QED
    BY <1>3, <1>5, <2>1, <2>2, <2>4 DEF redis, TypeOK
<1>8. ASSUME NEW h \in Handlers, StoreMetric(h) PROVE TypeOK'
  <2>1. PICK m \in queue : /\ queue' = queue \ {m} /\ ensure_server_id(m) /\ stored' = stored \cup {m}
                           /\ hand' = [hand EXCEPT ![h] = [phase |-> "stored", msg |-> m, prev |-> None]]
    BY <1>8 DEF StoreMetric
  <2>2. UNCHANGED <<now, host, reader, redis>>
    BY <1>8 DEF StoreMetric
  <2>3. m \in Messages /\ m.at <= now
    BY DEF TypeOK, TablesOK
  <2>4. hand'[h] = [phase |-> "stored", msg |-> m, prev |-> None]
    BY <2>1 DEF TypeOK
  <2>5. HandOK(h)'
    BY <2>1, <2>2, <2>3, <2>4 DEF HandOK
  <2>6. server' \in Rows /\ server'.last_seen <= now
    BY <2>1, <2>3, RowType DEF ensure_server_id, TypeOK, TablesOK
  <2>7. TablesOK'
    BY <2>1, <2>2, <2>3, <2>6 DEF TypeOK, TablesOK
  <2> QED
    BY <1>3, <2>1, <2>2, <2>5, <2>7 DEF redis, TypeOK
<1>9. ASSUME NEW h \in Handlers, Refresh(h) PROVE TypeOK'
  <2>1. /\ UNCHANGED <<now, host, queue, reader, tables>>
        /\ hand' = [hand EXCEPT ![h] = Idle]
        /\ \E setOk, deleteOk \in BOOLEAN : Refreshed(h, setOk, deleteOk)
    BY <1>9 DEF Refresh
  <2>2. /\ online' \in Nat \cup {None}
        /\ cache' = [p \in Pages |-> cache'[p]]
    BY <2>1 DEF Refreshed, TypeOK, HostOK
  <2>3. HandOK(h)' /\ TablesOK'
    BY <2>1 DEF HandOK, TypeOK, TablesOK, Idle, tables
  <2> QED
    BY <1>3, <2>1, <2>2, <2>3 DEF tables
<1>10. ASSUME UNCHANGED <<now, host, hand, reader, stored, server>>, queue' \subseteq queue \cup stored,
              cache' = [p \in Pages |-> cache'[p]], online' \in Nat \cup {None}
       PROVE  TypeOK'
  <2>1. HostOK' /\ TablesOK' /\ now <= now'
    BY <1>10 DEF TypeOK, HostOK, TablesOK
  <2>2. \A h \in Handlers : HandOK(h)'
    BY <1>10, <2>1, HandStays DEF TypeOK
  <2> QED
    BY <1>10, <2>1, <2>2 DEF TypeOK, ReaderOK
<1>11. CASE Redelivered \/ RedisForgets
  BY <1>10, <1>11 DEF Redelivered, RedisForgets, tables, redis, TypeOK
<1>12. ASSUME NEW r \in Readers, NEW x, reader' = [reader EXCEPT ![r] = x],
              x.phase = "idle" \/ (x.phase = "read" /\ x.page \in Pages),
              UNCHANGED <<now, host, queue, hand, stored, server, online>>,
              cache' = [p \in Pages |-> cache'[p]]
       PROVE  TypeOK'
  <2>1. reader' = [s \in Readers |-> reader'[s]] /\ \A s \in Readers : ReaderOK(s)'
    BY <1>12 DEF TypeOK, ReaderOK
  <2>2. HostOK' /\ TablesOK' /\ now <= now'
    BY <1>12 DEF TypeOK, HostOK, TablesOK
  <2>3. \A h \in Handlers : HandOK(h)'
    BY <1>12, <2>2, HandStays DEF TypeOK
  <2> QED
    BY <1>12, <2>1, <2>2, <2>3 DEF TypeOK
<1>13. ASSUME NEW r \in Readers, NEW p \in Pages, ReadTables(r, p) PROVE TypeOK'
  BY <1>12, <1>13 DEF ReadTables, tables, redis, TypeOK
<1>14. ASSUME NEW r \in Readers, FillCache(r) \/ FillFails(r) PROVE TypeOK'
  <2>1. cache' = [p \in Pages |-> cache'[p]]
    BY <1>14 DEF FillCache, FillFails, redis, TypeOK
  <2>2. reader' = [reader EXCEPT ![r] = NoRequest] /\ NoRequest.phase = "idle"
    BY <1>14 DEF FillCache, FillFails, NoRequest
  <2>3. UNCHANGED <<now, host, queue, hand, stored, server, online>>
    BY <1>14 DEF FillCache, FillFails, tables, redis
  <2> QED
    BY <1>12, <2>1, <2>2, <2>3
<1>15. CASE UNCHANGED vars
  BY <1>10, <1>15 DEF vars, TypeOK
<1> QED
  BY <1>2, <1>4, <1>6, <1>7, <1>8, <1>9, <1>11, <1>13, <1>14, <1>15 DEF Next

-----------------------------------------------------------------------------
(***************************************************************************)
(* Redis.  A page that differs from the tables is going to be deleted, was *)
(* filled late, or its deletion failed.  A commit that nobody acknowledged *)
(* changes the row only: the dashboard then still shows the newest         *)
(* samples, and only its configuration may be old.                         *)
(***************************************************************************)
Deletes(p) == \E h \in Handlers : hand[h].phase = "stored" /\ KeyOf(hand[h].msg) = p

Repeats == \E h \in Handlers : hand[h].phase = "taken" /\ hand[h].msg \in stored

Refreshes == \E h \in Handlers : hand[h].phase # "idle" /\ hand[h].msg \in stored

\* Nothing is cached or being cached of a server that has no row.
NothingOfNobody == server = None =>
    /\ ~Live("inventory")
    /\ \A r \in Readers : reader[r].phase = "read" => reader[r].page # "inventory"

DetailFollows == Live("inventory") /\ cache["inventory"].view # server =>
    \/ Deletes("inventory") \/ Repeats
    \/ cache["inventory"].outdated \/ "inventory" \in lost

DashboardFollows == Live("metrics") /\ cache["metrics"].view # View("metrics") =>
    \/ Deletes("metrics")
    \/ cache["metrics"].outdated \/ "metrics" \in lost
    \/ cache["metrics"].view.at = View("metrics").at

\* The flag outlives what the fallback says of the row.
FlagFollows == server # None =>
    \/ "online" \in lost \/ Refreshes
    \/ online # None /\ online >= server.last_seen + OnlineTtl
    \/ server.last_seen + OnlineTtl <= now

RedisInv == NothingOfNobody /\ DetailFollows /\ DashboardFollows /\ FlagFollows

(* What a read of the tables returns, for either page. *)
LEMMA Views ==
    /\ View("inventory") = server
    /\ View("metrics") = IF samples = {} THEN None ELSE [at |-> Max(samples), conf |-> server.conf]
BY DEF View

\* Steps after which a handler still owes Redis what it owed before.
LEMMA OwedStays ==
    ASSUME stored \subseteq stored',
           \A h \in Handlers : hand[h].phase # "idle" => hand'[h] = hand[h]
    PROVE  /\ \A p : Deletes(p) => Deletes(p)'
           /\ Repeats => Repeats'
           /\ Refreshes => Refreshes'
BY DEF Deletes, Repeats, Refreshes, KeyOf

\* Steps that leave the tables and the keys alone.
LEMMA RedisFrame ==
    ASSUME TypeOK, RedisInv, UNCHANGED <<now, server, samples, stored, cache, online, lost>>,
           \A h \in Handlers : hand[h].phase # "idle" => hand'[h] = hand[h],
           \A r \in Readers : \/ reader'[r] = reader[r] \/ reader'[r].phase = "idle"
                              \/ reader'[r].page = "inventory" => server # None
    PROVE  RedisInv'
<1>1. NothingOfNobody'
  BY DEF RedisInv, NothingOfNobody, Live
<1>2. DetailFollows'
  BY OwedStays DEF RedisInv, DetailFollows, Live
<1>3. DashboardFollows'
  BY OwedStays, Views DEF RedisInv, DashboardFollows, Live, View
<1>4. FlagFollows'
  BY OwedStays DEF RedisInv, FlagFollows
<1> QED
  BY <1>1, <1>2, <1>3, <1>4 DEF RedisInv

(* Every step keeps what is known about the keys. *)
LEMMA RedisStep == TypeOK /\ TypeOK' /\ RedisInv /\ [Next]_vars => RedisInv'
<1> SUFFICES ASSUME TypeOK, TypeOK', RedisInv, [Next]_vars PROVE RedisInv'
  OBVIOUS
<1> USE RegistryAssumption
<1>1. ASSUME NEW kind \in Pages, Publish(kind) \/ PublishChange(kind) PROVE RedisInv'
  <2>1. /\ Expire /\ UNCHANGED <<hand, reader, tables>> /\ now' = now + 1 /\ now \in Nat /\ now' \in Nat
    <3>1. PICK h : Report(kind, h)
      BY <1>1 DEF Publish, PublishChange
    <3> QED
      BY <3>1 DEF Report, TypeOK, HostOK
  <2>2. /\ \A p \in Pages : cache'[p] \in {None, cache[p]}
        /\ \A p \in Pages : cache'[p] # None /\ p \in lost => p \in lost'
        /\ "online" \in lost => "online" \in lost'
        /\ online' = online \/ (now' >= online /\ online # None)
    BY <2>1 DEF Expire, Pages
  <2>3. \A h \in Handlers : hand'[h] = hand[h]
    BY <2>1
  <2>4. UNCHANGED <<server, samples, stored>> /\ View("metrics")' = View("metrics")
    BY <2>1, Views DEF tables, View
  <2>5. NothingOfNobody'
    BY <2>1, <2>2, <2>4 DEF RedisInv, NothingOfNobody, Live, Pages
  <2>6. DetailFollows' /\ DashboardFollows'
    BY <2>2, <2>3, <2>4, OwedStays DEF RedisInv, DetailFollows, DashboardFollows, Live, Pages
  <2>7. FlagFollows'
    <3> SUFFICES ASSUME server' # None PROVE FlagFollows'
      BY DEF FlagFollows
    <3>1. server.last_seen \in Nat /\ server' = server /\ OnlineTtl \in Nat
      BY <2>4 DEF TypeOK, TablesOK, Rows
    <3>2. CASE "online" \in lost \/ Refreshes
      BY <2>2, <2>3, <2>4, <3>2, OwedStays DEF FlagFollows
    <3>3. CASE server.last_seen + OnlineTtl <= now
      BY <2>1, <3>1, <3>3 DEF FlagFollows
    <3>4. CASE online # None /\ online >= server.last_seen + OnlineTtl
      <4>1. online \in Nat
        BY <3>4 DEF TypeOK
      <4>2. CASE online' = online
        BY <3>1, <3>4, <4>2 DEF FlagFollows
      <4>3. CASE now' >= online
        BY <2>1, <3>1, <3>4, <4>1, <4>3 DEF FlagFollows
      <4> QED
        BY <2>2, <4>2, <4>3
    <3> QED
      BY <3>1, <3>2, <3>3, <3>4 DEF RedisInv, FlagFollows
  <2> QED
    BY <2>5, <2>6, <2>7 DEF RedisInv
<1>2. CASE Redelivered
  BY <1>2, RedisFrame DEF Redelivered, tables, redis
<1>3. CASE RedisForgets
  <2>1. /\ \A p \in Pages : cache'[p] = None
        /\ lost' = {"online"}
        /\ UNCHANGED <<reader, server>>
    BY <1>3 DEF RedisForgets, tables
  <2> QED
    BY <2>1 DEF RedisInv, NothingOfNobody, DetailFollows, DashboardFollows, FlagFollows, Live, Pages
<1>4. ASSUME NEW h \in Handlers, Take(h) PROVE RedisInv'
  <2>1. /\ UNCHANGED <<now, server, samples, stored, cache, online, lost, reader>>
        /\ \A g \in Handlers : hand[g].phase # "idle" => hand'[g] = hand[g]
    BY <1>4 DEF Take, tables, redis, TypeOK
  <2> QED
    BY <2>1, RedisFrame
<1>5. ASSUME NEW h \in Handlers, Commit(h) \/ CommitUnseen(h) PROVE RedisInv'
  <2>1. PICK m \in Messages : m = hand[h].msg
    BY <1>5 DEF Commit, CommitUnseen, Committed, TypeOK, HandOK
  <2>2. /\ UNCHANGED <<now, samples, reader, cache, online, lost>>
        /\ server' = _inventory_row(m) /\ stored' = stored \cup {m}
        /\ hand[h].phase = "taken"
        /\ \A g \in Handlers : g # h => hand'[g] = hand[g]
    BY <1>5, <2>1 DEF Commit, CommitUnseen, Committed, upsert_server, redis, TypeOK
  <2>3. hand'[h].msg = m /\ hand'[h].phase \in {"taken", "stored"}
    BY <1>5, <2>1, <2>2 DEF Commit, CommitUnseen, TypeOK, HandOK
  <2>4. server' # None /\ m.kind = "inventory"
    BY <2>1, <2>2, RowType DEF TypeOK, HandOK
  <2>5. NothingOfNobody' /\ FlagFollows'
    BY <2>2, <2>3, <2>4 DEF NothingOfNobody, FlagFollows, Refreshes
  <2>6. DetailFollows'
    BY <2>2, <2>3, <2>4 DEF DetailFollows, Deletes, Repeats, KeyOf
  <2>7. Deletes("metrics") => Deletes("metrics")'
    BY <2>2 DEF Deletes, KeyOf
  <2>8. DashboardFollows'
    <3>1. CASE samples = {}
      BY <2>2, <2>7, <3>1 DEF RedisInv, DashboardFollows, Live, View
    <3>2. CASE samples # {}
      <4>1. View("metrics")'.at = View("metrics").at
        BY <2>2, <3>2 DEF View
      <4> QED
        BY <2>2, <2>7, <4>1 DEF RedisInv, DashboardFollows, Live
    <3> QED
      BY <3>1, <3>2
  <2> QED
    BY <2>5, <2>6, <2>8 DEF RedisInv
<1>6. ASSUME NEW h \in Handlers, StoreMetric(h) PROVE RedisInv'
  <2>1. PICK m \in Messages :
            /\ m.kind = "metrics"
            /\ server' = IF server = None THEN build_placeholder_inventory(m) ELSE server
            /\ stored' = stored \cup {m}
            /\ hand' = [hand EXCEPT ![h] = [phase |-> "stored", msg |-> m, prev |-> None]]
    BY <1>6 DEF StoreMetric, ensure_server_id, TypeOK, TablesOK
  <2>2. UNCHANGED <<now, reader, cache, online, lost>> /\ hand[h].phase = "idle"
    BY <1>6 DEF StoreMetric, redis
  <2>3. hand'[h] = [phase |-> "stored", msg |-> m, prev |-> None]
        /\ \A g \in Handlers : hand[g].phase # "idle" => hand'[g] = hand[g]
    BY <2>1, <2>2 DEF TypeOK
  <2>4. server' # None
    BY <2>1, RowType
  <2>5. NothingOfNobody' /\ FlagFollows'
    BY <2>1, <2>3, <2>4 DEF NothingOfNobody, FlagFollows, Refreshes
  <2>6. DashboardFollows'
    BY <2>1, <2>3 DEF DashboardFollows, Deletes, KeyOf
  <2>7. DetailFollows'
    BY <2>1, <2>2, <2>3, OwedStays DEF RedisInv, NothingOfNobody, DetailFollows, Live
  <2> QED
    BY <2>5, <2>6, <2>7 DEF RedisInv
<1>7. ASSUME NEW h \in Handlers, Refresh(h) PROVE RedisInv'
  <2>1. PICK setOk \in BOOLEAN, deleteOk \in BOOLEAN : Refreshed(h, setOk, deleteOk)
    BY <1>7 DEF Refresh
  <2>2. PICK p \in Pages : p = KeyOf(hand[h].msg)
    BY <1>7 DEF Refresh, TypeOK, HandOK, Messages, KeyOf
  <2>3. UNCHANGED <<now, reader, server, samples, stored>> /\ hand[h].phase = "stored"
        /\ \A g \in Handlers : g # h => hand'[g] = hand[g]
    BY <1>7 DEF Refresh, tables, TypeOK
  <2>4. /\ cache'[p] = (IF deleteOk THEN None ELSE cache[p])
        /\ \A q \in Pages : q # p => cache'[q] = cache[q] /\ (q \in lost => q \in lost')
        /\ cache'[p] # None => p \in lost'
    BY <2>1, <2>2 DEF Refreshed, TypeOK, Pages
  <2>5. \/ online' = now + OnlineTtl
        \/ "online" \in lost'
    BY <2>1 DEF Refreshed
  <2>6. \A q \in Pages : q # p /\ Deletes(q) => Deletes(q)'
    BY <2>2, <2>3 DEF Deletes, KeyOf
  <2>7. Repeats => Repeats'
    BY <2>3 DEF Repeats
  <2>8. View("metrics")' = View("metrics")
    BY <2>3 DEF View
  <2>9. NothingOfNobody'
    BY <2>3, <2>4 DEF RedisInv, NothingOfNobody, Live, Pages
  <2>10. DetailFollows'
    <3>1. CASE p = "inventory"
      BY <2>4, <3>1 DEF DetailFollows, Live
    <3>2. CASE p # "inventory"
      BY <2>3, <2>4, <2>6, <2>7, <3>2 DEF RedisInv, DetailFollows, Live, Pages
    <3> QED
      BY <3>1, <3>2
  <2>11. DashboardFollows'
    <3>1. CASE p = "metrics"
      BY <2>4, <3>1 DEF DashboardFollows, Live
    <3>2. CASE p # "metrics"
      BY <2>4, <2>6, <2>8, <3>2 DEF RedisInv, DashboardFollows, Live, Pages
    <3> QED
      BY <3>1, <3>2
  <2>12. FlagFollows'
    <3>1. CASE "online" \in lost'
      BY <3>1 DEF FlagFollows
    <3>2. CASE online' = now + OnlineTtl
      <4>1. now \in Nat /\ online' # None
        BY <3>2 DEF TypeOK, HostOK
      <4>2. server' # None => server'.last_seen \in Nat /\ server'.last_seen <= now
        BY <2>3 DEF TypeOK, TablesOK, Rows
      <4> QED
        BY <3>2, <4>1, <4>2 DEF FlagFollows
    <3> QED
      BY <2>5, <3>1, <3>2
  <2> QED
    BY <2>9, <2>10, <2>11, <2>12 DEF RedisInv
<1>8. ASSUME NEW r \in Readers, NEW p \in Pages, ReadTables(r, p) PROVE RedisInv'
  <2>1. /\ UNCHANGED <<now, server, samples, stored, cache, online, lost, hand>>
        /\ View(p) # None
        /\ reader' = [reader EXCEPT ![r] = [phase |-> "read", page |-> p, view |-> View(p)]]
    BY <1>8 DEF ReadTables, tables, redis
  <2>2. \A s \in Readers : reader'[s] = reader[s] \/ (reader'[s].page = "inventory" => server # None)
    BY <2>1, Views DEF TypeOK
  <2> QED
    BY <2>1, <2>2, RedisFrame
<1>9. ASSUME NEW r \in Readers, FillFails(r) PROVE RedisInv'
  <2>1. /\ UNCHANGED <<now, server, samples, stored, cache, online, lost, hand>>
        /\ \A s \in Readers : reader'[s] = reader[s] \/ reader'[s].phase = "idle"
    BY <1>9 DEF FillFails, tables, redis, NoRequest, TypeOK
  <2> QED
    BY <2>1, RedisFrame
<1>10. ASSUME NEW r \in Readers, FillCache(r) PROVE RedisInv'
  <2>1. PICK p \in Pages : p = reader[r].page
    BY <1>10 DEF FillCache, TypeOK, ReaderOK
  <2>2. /\ UNCHANGED <<now, hand, server, samples, stored, online>>
        /\ cache'[p].outdated = (cache'[p].view # View(p))
        /\ \A q \in Pages : q # p => cache'[q] = cache[q]
        /\ lost' = lost \ {p}
        /\ \A s \in Readers : reader'[s] = reader[s] \/ reader'[s].phase = "idle"
        /\ reader[r].phase = "read"
    BY <1>10, <2>1 DEF FillCache, tables, NoRequest, TypeOK
  <2>3. \A h \in Handlers : hand'[h] = hand[h]
    BY <2>2
  <2>4. NothingOfNobody'
    BY <2>1, <2>2 DEF RedisInv, NothingOfNobody, Live, Pages
  <2>5. View("metrics")' = View("metrics")
    BY <2>2 DEF View
  <2>6. DetailFollows'
    <3>1. CASE p = "inventory"
      BY <2>2, <3>1, Views DEF DetailFollows
    <3>2. CASE p # "inventory"
      BY <2>2, <2>3, <3>2, OwedStays DEF RedisInv, DetailFollows, Live, Pages
    <3> QED
      BY <3>1, <3>2
  <2>7. DashboardFollows'
    <3>1. CASE p = "metrics"
      BY <2>2, <2>5, <3>1 DEF DashboardFollows
    <3>2. CASE p # "metrics"
      BY <2>2, <2>3, <2>5, <3>2, OwedStays DEF RedisInv, DashboardFollows, Live, Pages
    <3> QED
      BY <3>1, <3>2
  <2>8. FlagFollows'
    BY <2>2, <2>3, OwedStays DEF RedisInv, FlagFollows, Pages
  <2> QED
    BY <2>4, <2>6, <2>7, <2>8 DEF RedisInv
<1>11. CASE UNCHANGED vars
  BY <1>11, RedisFrame DEF vars
<1> QED
  BY <1>1, <1>2, <1>3, <1>4, <1>5, <1>6, <1>7, <1>8, <1>9, <1>10, <1>11 DEF Next

\* The types hold, whatever is reported, delivered, committed and cached.
THEOREM TypeCorrect == Spec => []TypeOK
<1>1. Init => TypeOK
  <2> SUFFICES ASSUME Init PROVE TypeOK
    OBVIOUS
  <2> USE RegistryAssumption
  <2>1. HostOK /\ TablesOK
    BY DEF Init, HostOK, TablesOK
  <2>2. hand = [h \in Handlers |-> hand[h]] /\ \A h \in Handlers : HandOK(h)
    BY DEF Init, HandOK, Idle
  <2>3. reader = [r \in Readers |-> reader[r]] /\ \A r \in Readers : ReaderOK(r)
    BY DEF Init, ReaderOK, NoRequest
  <2>4. cache = [p \in Pages |-> cache[p]] /\ online = None
    BY DEF Init
  <2> QED
    BY <2>1, <2>2, <2>3, <2>4 DEF TypeOK
<1> QED
  BY <1>1, TypeStep, PTL DEF Spec

\* A cached page and the online flag differ from the tables only in the ways the
\* handlers and the requests of the web process allow (safe_set and safe_delete
\* fail open, and a request may store what it read before the deletion).
THEOREM RedisFollows == Spec => []RedisFollowsTables
<1>1. Init => RedisInv
  BY DEF Init, RedisInv, NothingOfNobody, DetailFollows, DashboardFollows, FlagFollows, Live,
         NoRequest, Pages
<1>2. TypeOK /\ RedisInv => RedisFollowsTables
  <2> SUFFICES ASSUME TypeOK, RedisInv PROVE RedisFollowsTables
    OBVIOUS
  <2>1. ASSUME NEW p \in Pages, Live(p), cache[p].view # View(p)
        PROVE  \/ Deletes(p) \/ Repeats \/ cache[p].outdated \/ p \in lost
               \/ p = "metrics" /\ cache[p].view.at = View(p).at
    BY <2>1, Views DEF RedisInv, DetailFollows, DashboardFollows, Pages
  <2>2. ASSUME OnlineByTable PROVE OnlineByFlag \/ "online" \in lost \/ Refreshes
    <3>1. server.last_seen \in Nat /\ OnlineTtl \in Nat /\ now \in Nat /\ server # None
      BY <2>2, RegistryAssumption DEF OnlineByTable, TypeOK, TablesOK, HostOK, Rows
    <3>2. ~(server.last_seen + OnlineTtl <= now)
      BY <2>2, <3>1 DEF OnlineByTable
    <3> QED
      BY <3>1, <3>2 DEF RedisInv, FlagFollows, OnlineByFlag
  <2> QED
    BY <2>1, <2>2 DEF RedisFollowsTables, Deletes, Repeats, Refreshes
<1>3. TypeOK /\ TypeOK' /\ RedisInv /\ [Next]_vars => RedisInv'
  BY RedisStep
<1> QED
  BY <1>1, <1>2, <1>3, TypeCorrect, PTL DEF Spec

-----------------------------------------------------------------------------
(***************************************************************************)
(* The history.  What was reported: no two reports have the same time, and *)
(* a later report is of the same boot or of a later one, where both tell   *)
(* their boot times.                                                       *)
(***************************************************************************)

\* A measured boot time lies within the jitter after the boot it belongs to.
Measures(x) == /\ BootOf(x) \in Nat
               /\ BootOf(x) * BootGap <= x /\ x <= BootOf(x) * BootGap + Jitter

Sent == queue \cup stored \cup {hand[h].msg : h \in {g \in Handlers : hand[g].phase = "taken"}}

SentKnown ==
    /\ \A m \in Sent : /\ m.at \in 1..now
                       /\ m.boot # None => Measures(m.boot) /\ BootOf(m.boot) <= host.boot
    /\ \A m, n \in Sent : m.at = n.at => m = n
    /\ \A m, n \in Sent : m.at < n.at /\ m.boot # None /\ n.boot # None =>
                            BootOf(m.boot) <= BootOf(n.boot)

(***************************************************************************)
(* In any order: every entry of the history is an inventory that was       *)
(* stored, every stored inventory has an entry of its boot and one of its  *)
(* start, and a full row is one of them.                                   *)
(***************************************************************************)
Entry(m) == [at |-> m.at, boot |-> m.boot, started |-> m.started, conf |-> m.conf]

EntriesStored == \A r \in history : \E m \in Inventories : r = Entry(m)

EventsEntered == \A m \in Inventories :
    /\ \E r \in history : r.started = m.started
    /\ \E r \in history : BootOf(r.boot) = BootOf(m.boot)

RowKnown(row) == row # None /\ row.conf # None => \E m \in Inventories : row = _inventory_row(m)

RowsKnown == RowKnown(server) /\ \A h \in Handlers : hand[h].phase = "taken" => RowKnown(hand[h].prev)

AnyOrder == /\ EntriesStored /\ EventsEntered /\ RowsKnown
            /\ IsFiniteSet(history) /\ IsFiniteSet(Inventories)

(***************************************************************************)
(* In order: the row is the newest inventory, the newest entry says the    *)
(* same, and an entry that is not the first has a predecessor of which it  *)
(* differs.                                                                *)
(***************************************************************************)
Same(a, b) == a.conf = b.conf /\ a.started = b.started /\ BootOf(a.boot) = BootOf(b.boot)

Newest(S, x) == x \in S /\ \A y \in S : y.at <= x.at

RowIsNewest == Inventories # {} =>
    /\ \E m \in Inventories : Newest(Inventories, m) /\ server = _inventory_row(m)
    /\ \E l \in history : Newest(history, l) /\ Same(l, server)

EntriesDiffer == \A r \in history : Before(r) # {} =>
    \E q \in Before(r) : Newest(Before(r), q) /\ ~Same(r, q)

Boots == {BootOf(m.boot) : m \in Inventories} \ {None}

RebootRows == {r \in history : EventKind(r) = "reboot"}

FirstOfBoot(r) == r.boot # None /\ \A q \in Before(r) : BootOf(q.boot) # BootOf(r.boot)

InOrderKnown == InOrder => RowIsNewest /\ EntriesDiffer

HistoryInv == SentKnown /\ AnyOrder /\ InOrderKnown

\* A missing boot time is of no boot, and only that.
LEMMA NoBoot ==
    /\ BootOf(None) = None
    /\ \A x : x # None => BootOf(x) = (x + Jitter) \div BootGap
    /\ \A x : Measures(x) => BootOf(x) \in Nat /\ BootOf(x) # None
BY RegistryAssumption DEF BootOf, Measures

\* The tolerance tells two boots apart, and never two measurements of one.
LEMMA SameBoot ==
    ASSUME NEW a \in Nat, NEW b \in Nat, Measures(a), Measures(b)
    PROVE  Apart(a, b) <=> BootOf(a) # BootOf(b)
<1> USE RegistryAssumption
<1>1. PICK k \in Nat, n \in Nat, g \in Nat : k = BootOf(a) /\ n = BootOf(b) /\ g = BootGap
  BY DEF Measures, BootGap
<1>2. /\ k * g <= a /\ a <= k * g + Jitter /\ n * g <= b /\ b <= n * g + Jitter
      /\ g = 2 * Tolerance + 2 * Jitter + 1
  BY <1>1 DEF Measures, BootGap
<1>3. CASE k = n
  BY <1>1, <1>2, <1>3 DEF Apart
<1>4. CASE k > n
  <2>1. k * g >= n * g + g
    BY <1>4
  <2> QED
    BY <1>1, <1>2, <1>4, <2>1 DEF Apart
<1>5. CASE n > k
  <2>1. n * g >= k * g + g
    BY <1>5
  <2> QED
    BY <1>1, <1>2, <1>5, <2>1 DEF Apart
<1> QED
  BY <1>3, <1>4, <1>5

(* A boot time measured within the jitter tells its boot. *)
LEMMA ReportMeasures ==
    ASSUME NEW k \in Nat, NEW o \in 0..Jitter
    PROVE  /\ k * BootGap + o \in Nat
           /\ BootOf(k * BootGap + o) = k /\ Measures(k * BootGap + o)
<1> USE RegistryAssumption
<1>1. PICK g \in Nat : g = BootGap /\ g = 2 * Tolerance + 2 * Jitter + 1
  BY DEF BootGap
<1>2. o + Jitter \in Nat /\ o + Jitter < g /\ g > 0
  BY <1>1
<1>3. (k * g + (o + Jitter)) \div g = k
  BY <1>2
<1>4. k * g + o \in Nat /\ k * g \in Nat
  OBVIOUS
<1>5. BootOf(k * g + o) = k
  <2>1. k * g + o # None /\ k * g + o + Jitter = k * g + (o + Jitter)
    BY <1>4
  <2> QED
    BY <1>1, <1>3, <2>1, NoBoot
<1> QED
  BY <1>1, <1>4, <1>5 DEF Measures

(* What was sent is messages, and the inventories are some of them. *)
LEMMA SentType == ASSUME TypeOK PROVE Sent \in SUBSET Messages /\ Inventories \in SUBSET Sent
BY DEF TypeOK, TablesOK, HandOK, Sent, Inventories

\* A boot time that was sent is a number within the jitter.
LEMMA Bootable ==
    ASSUME TypeOK, SentKnown, NEW m \in Sent
    PROVE  m \in Messages /\ m.at \in 1..now /\ (m.boot # None => m.boot \in Nat /\ Measures(m.boot))
<1>1. m \in Messages
  BY SentType
<1>2. m.boot \in Nat \cup {None}
  BY <1>1 DEF Messages
<1>3. m.at \in 1..now /\ (m.boot # None => Measures(m.boot))
  BY DEF SentKnown, Measures
<1> QED
  BY <1>1, <1>2, <1>3

\* Only a report adds a message.
LEMMA SentShrinks ==
    ASSUME TypeOK, NEW h \in Handlers, Take(h) \/ Commit(h) \/ CommitUnseen(h) \/ StoreMetric(h) \/ Refresh(h)
    PROVE  Sent' \subseteq Sent
<1>0. \A g \in Handlers : g # h => hand'[g] = hand[g]
  BY DEF Take, Commit, CommitUnseen, StoreMetric, Refresh, TypeOK
<1>1. CASE Take(h)
  <2>1. PICK m \in queue : /\ queue' = queue \ {m}
                           /\ hand' = [hand EXCEPT ![h] = [phase |-> "taken", msg |-> m, prev |-> server]]
    BY <1>1 DEF Take
  <2>2. hand'[h].msg = m /\ stored' = stored
    BY <1>1, <2>1 DEF TypeOK, Take, tables
  <2> QED
    BY <1>0, <2>1, <2>2 DEF Sent
<1>2. CASE Commit(h) \/ CommitUnseen(h)
  <2>1. /\ hand'[h].msg = hand[h].msg /\ hand[h].phase = "taken" /\ queue' = queue
        /\ stored' = stored \cup {hand[h].msg}
    BY <1>2 DEF Commit, CommitUnseen, Committed, TypeOK, HandOK
  <2> QED
    BY <1>0, <2>1 DEF Sent
<1>3. CASE StoreMetric(h)
  <2>1. PICK m \in queue : /\ queue' = queue \ {m} /\ stored' = stored \cup {m}
                           /\ hand' = [hand EXCEPT ![h] = [phase |-> "stored", msg |-> m, prev |-> None]]
    BY <1>3 DEF StoreMetric
  <2>2. hand'[h].phase = "stored"
    BY <2>1 DEF TypeOK
  <2> QED
    BY <1>0, <2>1, <2>2 DEF Sent
<1>4. CASE Refresh(h)
  <2>1. hand'[h].phase = "idle" /\ UNCHANGED <<queue, stored>>
    BY <1>4 DEF Refresh, Idle, TypeOK, tables
  <2> QED
    BY <1>0, <2>1 DEF Sent
<1> QED
  BY <1>1, <1>2, <1>3, <1>4

(* Every step keeps what is known about the messages sent. *)
LEMMA SentStep == TypeOK /\ TypeOK' /\ SentKnown /\ [Next]_vars => SentKnown'
<1> SUFFICES ASSUME TypeOK, TypeOK', SentKnown, [Next]_vars PROVE SentKnown'
  OBVIOUS
<1> USE RegistryAssumption
<1>1. ASSUME UNCHANGED <<now, host>>, Sent' \subseteq Sent PROVE SentKnown'
  BY <1>1 DEF SentKnown, Measures, BootOf
<1>2. ASSUME NEW kind \in Pages, Publish(kind) \/ PublishChange(kind) PROVE SentKnown'
  <2>1. PICK h \in {host, Reboot, Restart} \cup Reconfigured : Report(kind, h)
    BY <1>2 DEF Publish, PublishChange
  <2>2. h \in [boot : Nat, started : Nat, conf : Configs] /\ host' = h
    BY <2>1 DEF Report, TypeOK, HostOK
  <2>3. host.boot \in Nat /\ host.boot <= h.boot
    <3>1. host \in [boot : Nat, started : Nat, conf : Configs]
      BY DEF TypeOK, HostOK
    <3>2. CASE h = host
      BY <3>1, <3>2
    <3>3. CASE h = Reboot
      BY <3>1, <3>3 DEF Reboot
    <3>4. CASE h = Restart
      BY <3>1, <3>4 DEF Restart
    <3>5. CASE h \in Reconfigured
      BY <3>1, <3>5 DEF Reconfigured
    <3> QED
      BY <2>1, <3>2, <3>3, <3>4, <3>5
  <2>4. /\ now \in Nat /\ now' = now + 1 /\ now' \in 1..MaxTime /\ UNCHANGED <<hand, stored>>
        /\ Offset[now'] \in 0..Jitter
    BY <2>1 DEF Report, TypeOK, HostOK, tables
  <2> DEFINE boot == h.boot * BootGap + Offset[now']
  <2>5. boot \in Nat /\ BootOf(boot) = h.boot /\ Measures(boot)
    BY <2>2, <2>4, ReportMeasures
  <2> HIDE DEF boot
  <2>6. PICK m : m.at = now' /\ m.boot \in {boot, None} /\ queue' = queue \cup {m}
    <3>1. PICK lack \in Lacking[now'] :
              queue' = queue \cup
                  {[kind |-> kind, at |-> now', conf |-> h.conf,
                    boot |-> IF "boot" \in lack THEN None ELSE boot,
                    started |-> IF "started" \in lack THEN None ELSE h.started]}
      BY <2>1 DEF Report, boot
    <3> DEFINE M == [kind |-> kind, at |-> now', conf |-> h.conf,
                     boot |-> IF "boot" \in lack THEN None ELSE boot,
                     started |-> IF "started" \in lack THEN None ELSE h.started]
    <3>2. M.at = now' /\ M.boot \in {boot, None} /\ queue' = queue \cup {M}
      BY <3>1
    <3> QED
      BY <3>2
  <2>7. Sent' = Sent \cup {m}
    BY <2>4, <2>6 DEF Sent
  <2>8. \A n \in Sent : /\ n.at \in 1..now' /\ n.at < now'
                        /\ n.boot # None => /\ BootOf(n.boot) \in Nat /\ BootOf(n.boot) <= h.boot
                                            /\ Measures(n.boot)
    <3> SUFFICES ASSUME NEW n \in Sent
                 PROVE  /\ n.at \in 1..now' /\ n.at < now'
                        /\ n.boot # None => /\ BootOf(n.boot) \in Nat /\ BootOf(n.boot) <= h.boot
                                            /\ Measures(n.boot)
      OBVIOUS
    <3>1. n.at \in 1..now /\ (n.boot # None => Measures(n.boot) /\ BootOf(n.boot) <= host.boot)
      BY DEF SentKnown, Measures
    <3>2. n.at \in 1..now' /\ n.at < now'
      BY <2>4, <3>1
    <3>3. Measures(n.boot) => BootOf(n.boot) \in Nat
      BY DEF Measures
    <3> QED
      BY <2>2, <2>3, <3>1, <3>2, <3>3
  <2>9. \A n \in Sent' : /\ n.at \in 1..now'
                         /\ n.boot # None => Measures(n.boot) /\ BootOf(n.boot) <= host'.boot
    <3>1. ASSUME NEW n \in Sent'
          PROVE  n.at \in 1..now' /\ (n.boot # None => Measures(n.boot) /\ BootOf(n.boot) <= h.boot)
      <4>1. CASE n \in Sent
        BY <2>8, <4>1
      <4>2. CASE n = m
        <5>1. n.at \in 1..now'
          BY <2>4, <2>6, <4>2
        <5>2. BootOf(boot) <= h.boot
          BY <2>2, <2>5
        <5> QED
          BY <2>5, <2>6, <4>2, <5>1, <5>2
      <4> QED
        BY <2>7, <3>1, <4>1, <4>2
    <3> QED
      BY <2>2, <3>1
  <2>10. \A n, o \in Sent' : n.at = o.at => n = o
    BY <2>4, <2>6, <2>7, <2>8 DEF SentKnown
  <2>11. \A n, o \in Sent' : n.at < o.at /\ n.boot # None /\ o.boot # None =>
                                 BootOf(n.boot) <= BootOf(o.boot)
    BY <2>2, <2>4, <2>5, <2>6, <2>7, <2>8 DEF SentKnown
  <2> QED
    BY <2>9, <2>10, <2>11 DEF SentKnown, Measures, BootOf
<1>3. ASSUME NEW h \in Handlers, Take(h) \/ Commit(h) \/ CommitUnseen(h) \/ StoreMetric(h) \/ Refresh(h)
      PROVE  SentKnown'
  BY <1>1, <1>3, SentShrinks DEF Take, Commit, CommitUnseen, StoreMetric, Refresh
<1>4. CASE Redelivered \/ RedisForgets
  <2>1. UNCHANGED <<now, host, hand, stored>> /\ queue' \subseteq queue \cup stored
    BY <1>4 DEF Redelivered, RedisForgets, tables
  <2> QED
    BY <1>1, <2>1 DEF Sent
<1>5. ASSUME UNCHANGED <<now, host, hand, stored, queue>> PROVE SentKnown'
  BY <1>1, <1>5 DEF Sent
<1>6. ASSUME NEW r \in Readers, FillCache(r) \/ FillFails(r) \/ \E p \in Pages : ReadTables(r, p)
      PROVE  SentKnown'
  BY <1>5, <1>6 DEF FillCache, FillFails, ReadTables, tables
<1>7. CASE UNCHANGED vars
  BY <1>5, <1>7 DEF vars
<1> QED
  BY <1>2, <1>3, <1>4, <1>6, <1>7 DEF Next

\* Steps that commit no inventory.
LEMMA HistoryFrame ==
    ASSUME TypeOK, AnyOrder, InOrderKnown, UNCHANGED <<history, late, overtaken>>,
           Inventories' = Inventories,
           server' = server \/ (server = None /\ server'.conf = None),
           \A h \in Handlers : hand'[h].phase = "taken" =>
               \/ hand[h].phase = "taken" /\ hand'[h].prev = hand[h].prev
               \/ hand'[h].prev = server
    PROVE  AnyOrder' /\ InOrderKnown'
<1>1. EntriesStored' /\ EventsEntered' /\ IsFiniteSet(history)' /\ IsFiniteSet(Inventories)'
  BY DEF AnyOrder, EntriesStored, EventsEntered, Entry, BootOf
<1>2. \A row : RowKnown(row) => RowKnown(row)'
  BY DEF RowKnown, _inventory_row
<1>3. RowsKnown'
  <2>1. RowKnown(server)'
    BY <1>2 DEF AnyOrder, RowsKnown, RowKnown
  <2>2. \A h \in Handlers : hand'[h].phase = "taken" => RowKnown(hand[h].prev)'
    BY <1>2 DEF AnyOrder, RowsKnown
  <2> QED
    BY <2>1, <2>2 DEF RowsKnown
<1>4. \A r : Before(r)' = Before(r)
  BY DEF Before
<1>6. ASSUME InOrder' PROVE RowIsNewest' /\ EntriesDiffer'
  <2>1. RowIsNewest /\ EntriesDiffer
    BY <1>6 DEF InOrderKnown, InOrder
  <2>2. EntriesDiffer'
    BY <1>4, <2>1 DEF EntriesDiffer, Newest, Same, BootOf
  <2>3. CASE Inventories = {}
    BY <2>1, <2>2, <2>3 DEF RowIsNewest
  <2>4. CASE Inventories # {}
    <3>1. server # None
      BY <2>1, <2>4, SentType, RowType DEF RowIsNewest
    <3>2. RowIsNewest'
      BY <2>1, <3>1 DEF RowIsNewest, Newest, Same, BootOf, _inventory_row
    <3> QED
      BY <2>1, <2>2, <3>2
  <2> QED
    BY <2>3, <2>4
<1> QED
  BY <1>1, <1>3, <1>6 DEF AnyOrder, InOrderKnown

(***************************************************************************)
(* The commit of one inventory: m is stored, after the row was compared    *)
(* with prev.                                                              *)
(***************************************************************************)
LEMMA CommitFacts ==
    ASSUME TypeOK, TypeOK', SentKnown, NEW h \in Handlers, Commit(h) \/ CommitUnseen(h)
    PROVE  \E m \in Messages, prev \in Rows \cup {None} :
              /\ m \in Sent /\ m.kind = "inventory"
              /\ prev = hand[h].prev /\ hand[h].phase = "taken"
              /\ server' = _inventory_row(m)
              /\ history' = IF prev = None \/ _inventory_changed(prev, m)
                            THEN _append_inventory_history(m) ELSE history
              /\ Inventories' = Inventories \cup {m}
              /\ InOrder' => InOrder /\ prev = server /\ \A n \in Inventories : ~(n.at > m.at)
              /\ \A g \in Handlers : hand'[g].phase = "taken" =>
                    \/ hand[g].phase = "taken" /\ hand'[g].prev = hand[g].prev
                    \/ hand'[g].prev = server'
<1>1. PICK m \in Messages, prev \in Rows \cup {None} : m = hand[h].msg /\ prev = hand[h].prev
  BY DEF Commit, CommitUnseen, Committed, TypeOK, HandOK
<1>2. /\ hand[h].phase = "taken" /\ upsert_server(prev, m) /\ stored' = stored \cup {m}
      /\ late' = (late \/ \E n \in stored : n.kind = "inventory" /\ n.at > m.at)
      /\ overtaken' = (overtaken \/ prev # server)
  BY <1>1 DEF Commit, CommitUnseen, Committed
<1>3. m \in Sent /\ m.kind = "inventory"
  BY <1>1, <1>2 DEF Sent, TypeOK, HandOK
<1>4. Inventories' = Inventories \cup {m}
  BY <1>2, <1>3 DEF Inventories
<1>5. InOrder' => InOrder /\ prev = server /\ \A n \in Inventories : ~(n.at > m.at)
  BY <1>2 DEF InOrder, Inventories
<1>6. \A g \in Handlers : hand'[g].phase = "taken" =>
          \/ hand[g].phase = "taken" /\ hand'[g].prev = hand[g].prev
          \/ hand'[g].prev = server'
  BY DEF Commit, CommitUnseen, TypeOK, HandOK
<1> QED
  BY <1>1, <1>2, <1>3, <1>4, <1>5, <1>6 DEF upsert_server

\* The comparison of two inventories sees exactly what really changed.
LEMMA ChangedIff ==
    ASSUME TypeOK, SentKnown, NEW m \in Sent, NEW n \in Sent
    PROVE  _inventory_changed(_inventory_row(n), m) <=> ~Same(m, n)
<1>1. /\ m \in Messages /\ n \in Messages
      /\ m.boot # None => Measures(m.boot) /\ m.boot \in Nat
      /\ n.boot # None => Measures(n.boot) /\ n.boot \in Nat
  BY Bootable
<1>3. boot_time_changed(n.boot, m.boot) <=> BootOf(m.boot) # BootOf(n.boot)
  <2>1. CASE None \notin {m.boot, n.boot}
    BY <1>1, <2>1, SameBoot DEF boot_time_changed
  <2>2. CASE None \in {m.boot, n.boot}
    BY <1>1, <2>2, NoBoot DEF boot_time_changed
  <2> QED
    BY <2>1, <2>2
<1> QED
  BY <1>1, <1>3 DEF _inventory_changed, _inventory_row, Same

\* Where the history stands after the commit.
LEMMA CommitEntered ==
    ASSUME TypeOK, SentKnown, AnyOrder, NEW m \in Sent, NEW prev,
           RowKnown(prev),
           history' = IF prev = None \/ _inventory_changed(prev, m)
                      THEN _append_inventory_history(m) ELSE history
    PROVE  \/ Entry(m) \notin history /\ history' = history \cup {Entry(m)}
           \/ Entry(m) \in history /\ history' = history
           \/ history' = history /\ \E n \in Inventories : Same(m, n) /\ prev = _inventory_row(n)
<1>0. m \in Messages /\ m.conf # None
  BY SentType, RegistryAssumption DEF Messages
<1>1. CASE prev = None \/ _inventory_changed(prev, m)
  <2>1. CASE \E r \in history : r.at = m.at
    <3>1. PICK r \in history : r.at = m.at
      BY <2>1
    <3>2. PICK n \in Inventories : r = Entry(n)
      BY DEF AnyOrder, EntriesStored
    <3>3. n = m
      BY <3>1, <3>2, SentType DEF SentKnown, Entry
    <3> QED
      BY <1>1, <2>1, <3>2, <3>3 DEF _append_inventory_history
  <2>2. CASE ~\E r \in history : r.at = m.at
    BY <1>1, <2>2 DEF _append_inventory_history, Entry
  <2> QED
    BY <2>1, <2>2
<1>2. CASE ~(prev = None \/ _inventory_changed(prev, m))
  <2>1. prev # None /\ prev.conf # None
    BY <1>0, <1>2 DEF _inventory_changed
  <2>2. PICK n \in Inventories : prev = _inventory_row(n)
    BY <2>1 DEF RowKnown
  <2>3. Same(m, n)
    BY <1>2, <2>2, SentType, ChangedIff
  <2> QED
    BY <1>2, <2>2, <2>3
<1> QED
  BY <1>1, <1>2

(* A commit keeps the part of the history that holds in any order. *)
LEMMA AnyOrderCommit ==
    ASSUME TypeOK, TypeOK', SentKnown, AnyOrder, NEW h \in Handlers, Commit(h) \/ CommitUnseen(h)
    PROVE  AnyOrder'
<1>1. PICK m \in Messages, prev \in Rows \cup {None} :
          /\ m \in Sent /\ prev = hand[h].prev /\ hand[h].phase = "taken"
          /\ server' = _inventory_row(m)
          /\ history' = IF prev = None \/ _inventory_changed(prev, m)
                        THEN _append_inventory_history(m) ELSE history
          /\ Inventories' = Inventories \cup {m}
          /\ \A g \in Handlers : hand'[g].phase = "taken" =>
                \/ hand[g].phase = "taken" /\ hand'[g].prev = hand[g].prev
                \/ hand'[g].prev = server'
  BY CommitFacts
<1>2. RowKnown(prev)
  BY <1>1 DEF AnyOrder, RowsKnown
<1>3. \/ history' = history \cup {Entry(m)}
      \/ history' = history /\ \E n \in Inventories : Same(m, n)
  <2>1. \/ Entry(m) \notin history /\ history' = history \cup {Entry(m)}
        \/ Entry(m) \in history /\ history' = history
        \/ history' = history /\ \E n \in Inventories : Same(m, n) /\ prev = _inventory_row(n)
    BY <1>1, <1>2, CommitEntered
  <2> QED
    BY <2>1
<1>4. EntriesStored'
  BY <1>1, <1>3 DEF AnyOrder, EntriesStored, Entry
<1>5. EventsEntered'
  <2>1. \A n \in Inventories : /\ \E r \in history' : r.started = n.started
                               /\ \E r \in history' : BootOf(r.boot) = BootOf(n.boot)
    BY <1>3 DEF AnyOrder, EventsEntered
  <2>2. /\ \E r \in history' : r.started = m.started
        /\ \E r \in history' : BootOf(r.boot) = BootOf(m.boot)
    <3>1. CASE Entry(m) \in history'
      BY <3>1 DEF Entry
    <3>2. CASE \E n \in Inventories : Same(m, n)
      BY <2>1, <3>2 DEF Same
    <3> QED
      BY <1>3, <3>1, <3>2
  <2> QED
    BY <1>1, <2>1, <2>2 DEF EventsEntered, BootOf
<1>6. RowsKnown'
  <2>1. \A row : RowKnown(row) => RowKnown(row)'
    BY <1>1 DEF RowKnown, _inventory_row
  <2>2. RowKnown(server)'
    BY <1>1 DEF RowKnown, _inventory_row
  <2>3. \A g \in Handlers : hand'[g].phase = "taken" => RowKnown(hand[g].prev)'
    BY <1>1, <2>1, <2>2 DEF AnyOrder, RowsKnown
  <2> QED
    BY <2>2, <2>3 DEF RowsKnown
<1>7. IsFiniteSet(history') /\ IsFiniteSet(Inventories')
  BY <1>1, <1>3, FS_AddElement DEF AnyOrder
<1> QED
  BY <1>4, <1>5, <1>6, <1>7 DEF AnyOrder

\* The boots reported are images of the inventories.
LEMMA BootsFinite == ASSUME AnyOrder PROVE IsFiniteSet(Boots)
<1> DEFINE f == [m \in Inventories |-> BootOf(m.boot)]
           all == {BootOf(m.boot) : m \in Inventories}
<1>1. f \in Surjection(Inventories, all)
  BY DEF Surjection
<1>2. IsFiniteSet(all)
  BY <1>1, FS_Surjection DEF AnyOrder
<1>3. Boots \subseteq all
  BY DEF Boots
<1> QED
  BY <1>2, <1>3, FS_Subset

\* Entries of different times, and only those, are different entries.
LEMMA EntriesByTime ==
    ASSUME TypeOK, SentKnown, AnyOrder
    PROVE  /\ \A r \in history : r.at \in 1..now /\ (r.boot # None => r.boot \in Nat /\ Measures(r.boot))
           /\ \A r, q \in history : r.at = q.at => r = q
<1>1. \A r \in history : \E m \in Sent : r.at = m.at /\ r.boot = m.boot /\ r = Entry(m)
  BY SentType DEF AnyOrder, EntriesStored, Entry
<1>2. \A r \in history : r.at \in 1..now /\ (r.boot # None => r.boot \in Nat /\ Measures(r.boot))
  BY <1>1, Bootable
<1>3. \A r, q \in history : r.at = q.at => r = q
  BY <1>1 DEF Entry, SentKnown
<1> QED
  BY <1>2, <1>3

\* The first inventory of a server.
LEMMA FirstCommit ==
    ASSUME TypeOK, NEW m \in Messages, history' = {Entry(m)}, Inventories' = {m},
           server' = _inventory_row(m)
    PROVE  RowIsNewest' /\ EntriesDiffer'
<1>1. m.at \in Nat
  BY DEF Messages
<1>2. RowIsNewest'
  BY <1>1 DEF RowIsNewest, Newest, Same, Entry, _inventory_row
<1>3. Before(Entry(m))' = {}
  BY <1>1 DEF Before, Entry
<1>4. EntriesDiffer'
  BY <1>3 DEF EntriesDiffer
<1> QED
  BY <1>2, <1>4

\* An inventory that says what the row says already.
LEMMA SameCommit ==
    ASSUME TypeOK, SentKnown, AnyOrder, RowIsNewest, EntriesDiffer,
           NEW m \in Sent, NEW n \in Inventories, server = _inventory_row(n), Same(m, n),
           \A k \in Inventories : k.at <= m.at,
           history' = history, Inventories' = Inventories \cup {m}, server' = _inventory_row(m)
    PROVE  RowIsNewest' /\ EntriesDiffer'
<1>1. \A r : Before(r)' = Before(r)
  BY DEF Before
<1>2. EntriesDiffer'
  BY <1>1 DEF EntriesDiffer, Newest, Same, BootOf
<1>5. m \in Messages /\ m.at \in Nat /\ n \in Messages
  BY SentType DEF Messages
<1>6. PICK l \in history : Newest(history, l) /\ Same(l, server)
  BY DEF RowIsNewest
<1>7. Same(l, _inventory_row(m))
  BY <1>6 DEF Same, _inventory_row
<1>8. RowIsNewest'
  BY <1>5, <1>6, <1>7 DEF RowIsNewest, Newest, Same, BootOf, _inventory_row
<1> QED
  BY <1>2, <1>8

\* An inventory that says something new.
LEMMA NewCommit ==
    ASSUME TypeOK, SentKnown, AnyOrder, RowIsNewest, EntriesDiffer,
           NEW m \in Sent, NEW n \in Inventories, Newest(Inventories, n), server = _inventory_row(n),
           ~Same(m, n), n.at <= m.at,
           Entry(m) \notin history, history' = history \cup {Entry(m)},
           Inventories' = Inventories \cup {m}, server' = _inventory_row(m)
    PROVE  RowIsNewest' /\ EntriesDiffer'
<1>0. m \in Messages /\ n \in Messages /\ n \in Sent /\ m.at \in Nat /\ n.at \in Nat
  BY SentType DEF Messages
<1>1. n.at < m.at
  <2>1. n # m
    BY DEF Same
  <2> QED
    BY <1>0, <2>1 DEF SentKnown
<1>2. PICK e : e = Entry(m)
  OBVIOUS
<1>3. e.at = m.at /\ e.boot = m.boot /\ e.conf = m.conf /\ e.started = m.started
  BY <1>2 DEF Entry
<1>4. \A r \in history : r.at \in Nat /\ r.at < e.at
  <2>1. ASSUME NEW r \in history PROVE r.at \in Nat /\ r.at < e.at
    <3>1. PICK k \in Inventories : r = Entry(k)
      BY DEF AnyOrder, EntriesStored
    <3>2. k.at <= n.at /\ k.at \in Nat /\ r.at = k.at
      BY <3>1, SentType DEF Newest, Messages, Entry
    <3> QED
      BY <1>0, <1>1, <1>3, <3>2
  <2> QED
    BY <2>1
<1>5. PICK l \in history : Newest(history, l) /\ Same(l, server)
  BY DEF RowIsNewest
<1>6. Same(l, n)
  BY <1>5 DEF Same, _inventory_row
<1>7. ~Same(e, l)
  BY <1>3, <1>6 DEF Same
<1>8. Before(e)' = history /\ \A r \in history : Before(r)' = Before(r)
  <2>1. e.at \in Nat /\ ~(e.at < e.at) /\ history' = history \cup {e}
    BY <1>0, <1>2, <1>3
  <2>2. Before(e)' = history
    BY <1>4, <2>1 DEF Before
  <2>3. ASSUME NEW r \in history PROVE Before(r)' = Before(r)
    <3>1. ~(e.at < r.at)
      BY <1>4, <2>1
    <3> QED
      BY <2>1, <3>1 DEF Before
  <2> QED
    BY <2>2, <2>3
<1>9. RowIsNewest'
  <2>1. Newest(Inventories \cup {m}, m)
    BY <1>0, <1>1, SentType DEF Newest, Messages
  <2>2. Newest(history \cup {e}, e)
    BY <1>0, <1>3, <1>4 DEF Newest
  <2>3. Same(e, server')
    BY <1>3 DEF Same, _inventory_row
  <2> QED
    BY <1>2, <2>1, <2>2, <2>3 DEF RowIsNewest, Newest, Same, BootOf, _inventory_row
<1>10. EntriesDiffer'
  <2>1. Before(e)' # {} => \E q \in Before(e)' : Newest(Before(e)', q) /\ ~Same(e, q)
    BY <1>5, <1>7, <1>8
  <2>2. \A r \in history : Before(r)' # {} => \E q \in Before(r)' : Newest(Before(r)', q) /\ ~Same(r, q)
    BY <1>8 DEF EntriesDiffer
  <2> QED
    BY <1>2, <2>1, <2>2 DEF EntriesDiffer, Newest, Same, BootOf
<1> QED
  BY <1>9, <1>10

(* A commit in order keeps the row newest, and successive entries different. *)
LEMMA InOrderCommit ==
    ASSUME TypeOK, TypeOK', SentKnown, AnyOrder, InOrderKnown,
           NEW h \in Handlers, Commit(h) \/ CommitUnseen(h), InOrder'
    PROVE  RowIsNewest' /\ EntriesDiffer'
<1>1. PICK m \in Messages, prev \in Rows \cup {None} :
          /\ m \in Sent /\ m.kind = "inventory" /\ prev = hand[h].prev /\ hand[h].phase = "taken"
          /\ server' = _inventory_row(m)
          /\ history' = IF prev = None \/ _inventory_changed(prev, m)
                        THEN _append_inventory_history(m) ELSE history
          /\ Inventories' = Inventories \cup {m}
          /\ InOrder /\ prev = server /\ \A n \in Inventories : ~(n.at > m.at)
  BY CommitFacts
<1>2. RowIsNewest /\ EntriesDiffer
  BY <1>1 DEF InOrderKnown
<1>3. RowKnown(prev)
  BY <1>1 DEF AnyOrder, RowsKnown
<1>4. \/ Entry(m) \notin history /\ history' = history \cup {Entry(m)}
      \/ Entry(m) \in history /\ history' = history
      \/ history' = history /\ \E n \in Inventories : Same(m, n) /\ prev = _inventory_row(n)
  BY <1>1, <1>3, CommitEntered
<1>5. \A k \in Inventories : k.at \in Nat /\ k.at <= m.at
  <2>1. m.at \in Nat /\ \A k \in Inventories : k.at \in Nat
    BY <1>1, SentType DEF Messages
  <2> QED
    BY <1>1, <2>1
<1>6. CASE Inventories = {}
  <2>1. history = {}
    BY <1>6 DEF AnyOrder, EntriesStored
  <2>2. history' = {Entry(m)} /\ Inventories' = {m}
    BY <1>1, <1>4, <1>6, <2>1
  <2> QED
    BY <1>1, <2>2, FirstCommit
<1>7. CASE Inventories # {}
  <2>1. PICK n \in Inventories : Newest(Inventories, n) /\ server = _inventory_row(n)
    BY <1>2, <1>7 DEF RowIsNewest
  <2>2. CASE Entry(m) \notin history /\ history' = history \cup {Entry(m)}
    <3>1. server # None
      BY <2>1, SentType, RowType
    <3>2. _inventory_changed(server, m)
      BY <1>1, <2>2, <3>1
    <3>3. ~Same(m, n)
      BY <1>1, <2>1, <3>2, SentType, ChangedIff
    <3> QED
      BY <1>1, <1>2, <1>5, <2>1, <2>2, <3>3, NewCommit
  <2>3. CASE Entry(m) \in history /\ history' = history
    <3>1. PICK k \in Inventories : Entry(m) = Entry(k)
      BY <2>3 DEF AnyOrder, EntriesStored
    <3>2. k = m
      BY <1>1, <3>1, SentType DEF SentKnown, Entry
    <3>3. n = m
      <4>1. n.at = m.at
        BY <1>1, <1>5, <2>1, <3>2 DEF Newest, Messages
      <4> QED
        BY <1>1, <4>1, SentType DEF SentKnown
    <3>4. Same(m, n)
      BY <3>3 DEF Same
    <3> QED
      BY <1>1, <1>2, <1>5, <2>1, <2>3, <3>4, SameCommit
  <2>4. CASE history' = history /\ \E k \in Inventories : Same(m, k) /\ prev = _inventory_row(k)
    <3>1. PICK k \in Inventories : Same(m, k) /\ server = _inventory_row(k)
      BY <1>1, <2>4
    <3> QED
      BY <1>1, <1>2, <1>5, <2>4, <3>1, SameCommit
  <2> QED
    BY <1>4, <2>2, <2>3, <2>4
<1> QED
  BY <1>6, <1>7

(* Every step keeps what is known about the history. *)
LEMMA HistoryStep == TypeOK /\ TypeOK' /\ HistoryInv /\ [Next]_vars => HistoryInv'
<1> SUFFICES ASSUME TypeOK, TypeOK', HistoryInv, [Next]_vars PROVE AnyOrder' /\ InOrderKnown'
  BY SentStep DEF HistoryInv
<1>0. SentKnown /\ AnyOrder /\ InOrderKnown
  BY DEF HistoryInv
<1>1. ASSUME NEW h \in Handlers, Commit(h) \/ CommitUnseen(h) PROVE AnyOrder' /\ InOrderKnown'
  BY <1>0, <1>1, AnyOrderCommit, InOrderCommit DEF InOrderKnown
<1>2. ASSUME NEW h \in Handlers, StoreMetric(h) PROVE AnyOrder' /\ InOrderKnown'
  <2>1. PICK m \in Messages :
            /\ m.kind = "metrics" /\ stored' = stored \cup {m} /\ UNCHANGED <<history, late, overtaken>>
            /\ server' = IF server = None THEN build_placeholder_inventory(m) ELSE server
            /\ hand' = [hand EXCEPT ![h] = [phase |-> "stored", msg |-> m, prev |-> None]]
    BY <1>2 DEF StoreMetric, ensure_server_id, TypeOK, TablesOK
  <2>2. Inventories' = Inventories
    BY <2>1 DEF Inventories
  <2>3. server' = server \/ (server = None /\ server'.conf = None)
    BY <2>1 DEF build_placeholder_inventory, _inventory_row
  <2>4. \A g \in Handlers : hand'[g].phase = "taken" => hand[g].phase = "taken" /\ hand'[g].prev = hand[g].prev
    BY <2>1 DEF TypeOK
  <2> QED
    BY <1>0, <2>1, <2>2, <2>3, <2>4, HistoryFrame
<1>3. ASSUME UNCHANGED tables,
             \A h \in Handlers : hand'[h].phase = "taken" =>
                 \/ hand[h].phase = "taken" /\ hand'[h].prev = hand[h].prev
                 \/ hand'[h].prev = server
      PROVE  AnyOrder' /\ InOrderKnown'
  BY <1>0, <1>3, HistoryFrame DEF tables, Inventories
<1>4. ASSUME NEW h \in Handlers, Take(h) \/ Refresh(h) PROVE AnyOrder' /\ InOrderKnown'
  <2>1. UNCHANGED tables /\ \A g \in Handlers : hand'[g].phase = "taken" =>
                 \/ hand[g].phase = "taken" /\ hand'[g].prev = hand[g].prev
                 \/ hand'[g].prev = server
    <3>1. CASE Take(h)
      <4>1. PICK m \in queue : hand' = [hand EXCEPT ![h] = [phase |-> "taken", msg |-> m, prev |-> server]]
        BY <3>1 DEF Take
      <4> QED
        BY <3>1, <4>1 DEF Take, TypeOK
    <3>2. CASE Refresh(h)
      BY <3>2 DEF Refresh, Idle, TypeOK
    <3> QED
      BY <1>4, <3>1, <3>2
  <2> QED
    BY <1>3, <2>1
<1>5. ASSUME NEW kind \in Pages, Publish(kind) \/ PublishChange(kind) PROVE AnyOrder' /\ InOrderKnown'
  <2>1. PICK h : Report(kind, h)
    BY <1>5 DEF Publish, PublishChange
  <2> QED
    BY <1>3, <2>1 DEF Report
<1>6. CASE Redelivered \/ RedisForgets
  BY <1>3, <1>6 DEF Redelivered, RedisForgets
<1>7. ASSUME NEW r \in Readers, FillCache(r) \/ FillFails(r) \/ \E p \in Pages : ReadTables(r, p)
      PROVE  AnyOrder' /\ InOrderKnown'
  BY <1>3, <1>7 DEF FillCache, FillFails, ReadTables
<1>8. CASE UNCHANGED vars
  BY <1>3, <1>8 DEF vars, tables
<1> QED
  BY <1>1, <1>2, <1>4, <1>5, <1>6, <1>7, <1>8 DEF Next

\* What is known of the reports and of the history holds in every state.
THEOREM HistoryInvariance == Spec => [](TypeOK /\ HistoryInv)
<1>1. Init => HistoryInv
  <2> SUFFICES ASSUME Init PROVE HistoryInv
    OBVIOUS
  <2>1. Sent = {} /\ Inventories = {} /\ history = {} /\ server = None
        /\ \A h \in Handlers : hand[h].phase # "taken"
    BY DEF Init, Sent, Inventories, Idle
  <2>2. SentKnown
    BY <2>1 DEF SentKnown
  <2>3. AnyOrder
    BY <2>1, FS_EmptySet DEF AnyOrder, EntriesStored, EventsEntered, RowsKnown, RowKnown
  <2>5. InOrderKnown
    BY <2>1 DEF InOrderKnown, RowIsNewest, EntriesDiffer
  <2> QED
    BY <2>2, <2>3, <2>5 DEF HistoryInv
<1>2. TypeOK /\ TypeOK' /\ HistoryInv /\ [Next]_vars => HistoryInv'
  BY HistoryStep
<1> QED
  BY <1>1, <1>2, TypeCorrect, PTL DEF Spec

\* Of inventories stored in order the history tells what the row says, and two
\* entries in a row differ in something that really changed (upsert_server,
\* _inventory_changed).
THEOREM HistoryExplains == Spec => []HistoryExplainsRow
<1>1. TypeOK /\ HistoryInv => HistoryExplainsRow
  <2> SUFFICES ASSUME TypeOK, HistoryInv, InOrder, Inventories # {}
               PROVE  /\ \E r \in history : (\A q \in history : q.at <= r.at) /\ Same(r, server)
                      /\ \A r \in history : Before(r) # {} => ~Same(r, Predecessor(r))
    BY DEF HistoryExplainsRow, Same
  <2>1. RowIsNewest /\ EntriesDiffer
    BY DEF HistoryInv, InOrderKnown
  <2>2. \E r \in history : (\A q \in history : q.at <= r.at) /\ Same(r, server)
    BY <2>1 DEF RowIsNewest, Newest
  <2>3. ASSUME NEW r \in history, Before(r) # {} PROVE ~Same(r, Predecessor(r))
    <3>1. PICK q \in Before(r) : Newest(Before(r), q) /\ ~Same(r, q)
      BY <2>1, <2>3 DEF EntriesDiffer
    <3>2. /\ \A p \in Before(r) : p \in history
          /\ \A p, o \in history : p.at \in Nat /\ (p.at = o.at => p = o)
      BY EntriesByTime DEF Before, HistoryInv
    <3>3. \A p \in Before(r) : (\A o \in Before(r) : o.at <= p.at) => p = q
      BY <3>1, <3>2 DEF Newest
    <3>4. Predecessor(r) = q
      BY <3>1, <3>3 DEF Predecessor, Newest
    <3> QED
      BY <3>1, <3>4
  <2> QED
    BY <2>2, <2>3
<1> QED
  BY <1>1, HistoryInvariance, PTL

\* The entries of one boot, or of the time before an entry, have a first and a last.
LEMMA Ends ==
    ASSUME TypeOK, SentKnown, AnyOrder, NEW S \in SUBSET history, S # {}
    PROVE  /\ \E r \in S : \A q \in S : r.at <= q.at
           /\ \E r \in S : \A q \in S : q.at <= r.at
<1>1. now \in Nat /\ \A r \in S : r.at \in 1..now
  BY EntriesByTime DEF TypeOK, HostOK
<1>2. \A x, y \in Nat : y < x => <<y, x>> \in OpToRel(<, Nat)
  BY Zenon DEF OpToRel
<1>3. ASSUME NEW T, T \subseteq Nat, T # {} PROVE \E x \in T : \A y \in T : x <= y
  <2>1. \E x \in T : \A y \in T : ~(<<y, x>> \in OpToRel(<, Nat))
    BY <1>3, NatLessThanWellFounded, WFMin
  <2>2. \E x \in T : \A y \in T : ~(y < x)
    BY <1>2, <1>3, <2>1, Zenon
  <2> QED
    BY <1>3, <2>2
<1> DEFINE A == {r.at : r \in S}
           B == {now - r.at : r \in S}
<1>4. A \subseteq Nat /\ A # {} /\ B \subseteq Nat /\ B # {}
  BY <1>1
<1>5. \E x \in A : \A y \in A : x <= y
  <2> HIDE DEF A
  <2> QED
    BY <1>3, <1>4
<1>6. \E x \in B : \A y \in B : x <= y
  <2> HIDE DEF B
  <2> QED
    BY <1>3, <1>4
<1>7. PICK r \in S : \A q \in S : now - r.at <= now - q.at
  BY <1>6
<1>8. \A q \in S : q.at <= r.at
  BY <1>1, <1>7
<1> QED
  BY <1>5, <1>8

\* The row before an entry is the newest of the older ones.
LEMMA PredecessorIs ==
    ASSUME TypeOK, SentKnown, AnyOrder, NEW r \in history, Before(r) # {}
    PROVE  /\ Predecessor(r) \in history /\ Predecessor(r).at < r.at
           /\ \A q \in Before(r) : q.at <= Predecessor(r).at
<1>1. Before(r) \in SUBSET history /\ \A q \in Before(r) : q.at < r.at
  BY DEF Before
<1>2. \E q \in Before(r) : \A o \in Before(r) : o.at <= q.at
  BY <1>1, Ends
<1>3. Predecessor(r) \in Before(r) /\ \A o \in Before(r) : o.at <= Predecessor(r).at
  BY <1>2, Zenon DEF Predecessor
<1> QED
  BY <1>1, <1>3

\* Boots follow one another in the history as they did on the server.
LEMMA BootsInTime ==
    ASSUME TypeOK, SentKnown, AnyOrder, NEW q \in history, NEW r \in history,
           q.boot # None, r.boot # None
    PROVE  /\ BootOf(q.boot) \in Nat /\ BootOf(r.boot) \in Nat
           /\ q.at < r.at => BootOf(q.boot) <= BootOf(r.boot)
           /\ Apart(r.boot, q.boot) <=> BootOf(r.boot) # BootOf(q.boot)
<1>1. PICK m \in Inventories, n \in Inventories : q = Entry(m) /\ r = Entry(n)
  BY DEF AnyOrder, EntriesStored
<1>2. m \in Sent /\ n \in Sent /\ q.at = m.at /\ r.at = n.at /\ q.boot = m.boot /\ r.boot = n.boot
  BY <1>1, SentType DEF Entry
<1>3. q.at < r.at => BootOf(q.boot) <= BootOf(r.boot)
  BY <1>2 DEF SentKnown
<1>4. q.boot \in Nat /\ Measures(q.boot) /\ r.boot \in Nat /\ Measures(r.boot)
  BY EntriesByTime
<1> QED
  BY <1>3, <1>4, SameBoot, NoBoot

\* The first entry of a boot is marked as a reboot.
LEMMA FirstIsMarked ==
    ASSUME TypeOK, SentKnown, AnyOrder, NEW r \in history, FirstOfBoot(r)
    PROVE  EventKind(r) = "reboot"
<1>1. CASE NoBaseline(r)
  BY <1>1 DEF EventKind
<1>2. CASE ~NoBaseline(r)
  <2>1. Before(r) # {} /\ Predecessor(r).boot # None
    BY <1>2 DEF NoBaseline
  <2>2. Predecessor(r) \in history /\ Predecessor(r).at < r.at
    BY <2>1, PredecessorIs
  <2>3. Predecessor(r) \in Before(r)
    BY <2>2 DEF Before
  <2>4. r.boot # None /\ BootOf(r.boot) # BootOf(Predecessor(r).boot)
    BY <2>3 DEF FirstOfBoot
  <2>5. Apart(r.boot, Predecessor(r).boot)
    BY <2>1, <2>2, <2>4, BootsInTime
  <2> QED
    BY <2>4, <2>5 DEF EventKind
<1> QED
  BY <1>1, <1>2

\* A boot is marked again only where there is nothing to compare with.
LEMMA MarkedAgain ==
    ASSUME TypeOK, SentKnown, AnyOrder, NEW r \in RebootRows
    PROVE  FirstOfBoot(r) \/ NoBaseline(r)
<1> SUFFICES ASSUME ~NoBaseline(r) PROVE FirstOfBoot(r)
  OBVIOUS
<1>1. r \in history /\ EventKind(r) = "reboot"
  BY DEF RebootRows
<1>2. r.boot # None /\ Apart(r.boot, Predecessor(r).boot)
  BY <1>1, RegistryAssumption DEF EventKind
<1>3. Before(r) # {} /\ Predecessor(r).boot # None
  BY DEF NoBaseline
<1> DEFINE p == Predecessor(r)
<1>4. p \in history /\ p.at < r.at /\ \A q \in Before(r) : q.at <= p.at
  BY <1>1, <1>3, PredecessorIs
<1> HIDE DEF p
<1>5. /\ BootOf(p.boot) \in Nat /\ BootOf(r.boot) \in Nat
      /\ BootOf(p.boot) <= BootOf(r.boot) /\ BootOf(p.boot) # BootOf(r.boot)
  BY <1>1, <1>2, <1>3, <1>4, BootsInTime DEF p
<1>6. ASSUME NEW q \in Before(r) PROVE BootOf(q.boot) # BootOf(r.boot)
  <2>1. q \in history /\ q.at < r.at /\ q.at <= p.at
    BY <1>4 DEF Before
  <2>2. CASE q.boot = None
    BY <1>5, <2>2, NoBoot, RegistryAssumption
  <2>3. CASE q.boot # None
    <3>1. q = p \/ q.at < p.at
      BY <1>4, <2>1, EntriesByTime
    <3>2. BootOf(q.boot) \in Nat /\ BootOf(q.boot) <= BootOf(p.boot)
      BY <1>3, <1>4, <1>5, <2>1, <2>3, <3>1, BootsInTime DEF p
    <3> QED
      BY <1>5, <3>2
  <2> QED
    BY <2>2, <2>3
<1> QED
  BY <1>2, <1>6 DEF FirstOfBoot

\* Every boot that was reported has exactly one first entry, which is marked.
LEMMA OneFirst ==
    ASSUME TypeOK, SentKnown, AnyOrder
    PROVE  Cardinality({r \in RebootRows : FirstOfBoot(r)}) = Cardinality(Boots)
<1> DEFINE firsts == {r \in RebootRows : FirstOfBoot(r)}
           f == [r \in firsts |-> BootOf(r.boot)]
<1>1. \A r \in firsts : r \in history /\ r.boot # None /\ FirstOfBoot(r)
  BY DEF RebootRows, FirstOfBoot
<1>2. \A r \in firsts : BootOf(r.boot) \in Boots
  <2>1. ASSUME NEW r \in history, r.boot # None PROVE BootOf(r.boot) \in Boots
    <3>1. PICK m \in Inventories : r = Entry(m)
      BY DEF AnyOrder, EntriesStored
    <3>2. r.boot = m.boot
      BY <3>1 DEF Entry
    <3>3. BootOf(r.boot) # None
      BY <2>1, BootsInTime, RegistryAssumption
    <3> QED
      BY <3>2, <3>3 DEF Boots
  <2> QED
    BY <1>1, <2>1
<1>3. \A b \in Boots : \E r \in firsts : BootOf(r.boot) = b
  <2> SUFFICES ASSUME NEW b \in Boots PROVE \E r \in firsts : BootOf(r.boot) = b
    OBVIOUS
  <2> DEFINE S == {r \in history : BootOf(r.boot) = b}
  <2>1. b # None /\ S # {}
    BY DEF Boots, AnyOrder, EventsEntered
  <2>2. PICK r \in S : \A q \in S : r.at <= q.at
    <3>1. S \in SUBSET history
      OBVIOUS
    <3> HIDE DEF S
    <3> QED
      BY <2>1, <3>1, Ends
  <2>3. r \in history /\ r.boot # None /\ BootOf(r.boot) = b
    BY <2>1, NoBoot
  <2>4. \A q \in Before(r) : BootOf(q.boot) # b
    <3>1. ASSUME NEW q \in Before(r), BootOf(q.boot) = b PROVE FALSE
      <4>1. q \in history /\ q.at < r.at /\ r.at <= q.at
        BY <2>2, <3>1 DEF Before
      <4> QED
        BY <2>3, <4>1, EntriesByTime
    <3> QED
      BY <3>1
  <2>5. FirstOfBoot(r)
    BY <2>3, <2>4 DEF FirstOfBoot
  <2>6. r \in RebootRows
    BY <2>3, <2>5, FirstIsMarked DEF RebootRows
  <2> QED
    BY <2>3, <2>5, <2>6
<1>4. \A r, q \in firsts : BootOf(r.boot) = BootOf(q.boot) => r = q
  <2> SUFFICES ASSUME NEW r \in firsts, NEW q \in firsts, BootOf(r.boot) = BootOf(q.boot), r # q
               PROVE  FALSE
    OBVIOUS
  <2>1. r \in history /\ q \in history /\ FirstOfBoot(r) /\ FirstOfBoot(q)
    BY <1>1
  <2>2. r.at < q.at \/ q.at < r.at
    BY <2>1, EntriesByTime
  <2>3. r \in Before(q) \/ q \in Before(r)
    BY <2>1, <2>2 DEF Before
  <2> QED
    BY <2>1, <2>3 DEF FirstOfBoot
<1>5. IsFiniteSet(firsts)
  <2>1. firsts \subseteq history
    BY <1>1
  <2> QED
    BY <2>1, FS_Subset DEF AnyOrder
<1>6. f \in Bijection(firsts, Boots)
  <2>1. f \in [firsts -> Boots] /\ \A r \in firsts : f[r] = BootOf(r.boot)
    BY <1>2
  <2> HIDE DEF f, firsts
  <2> QED
    BY <1>3, <1>4, <2>1 DEF Bijection, Injection, IsInjective, Surjection
<1> HIDE DEF f, firsts
<1>7. Cardinality(firsts) = Cardinality(Boots)
  BY <1>5, <1>6, FS_Bijection DEF ExistsBijection
<1> QED
  BY <1>7 DEF firsts

\* Restarts are counted as they were reported, no reboot is missed, and too many
\* are counted only if the history holds two measurements of one boot; the charts
\* mark every boot that was reported once, and one again only where the row before
\* is missing or lacks its boot time (report_uptime_stats,
\* report_agent_restart_stats, reboot_events).
THEOREM EventsCounted == Spec => []EventsAreCounted
<1>1. TypeOK /\ HistoryInv => EventsAreCounted
  <2> SUFFICES ASSUME TypeOK, HistoryInv PROVE EventsAreCounted
    OBVIOUS
  <2> DEFINE starts == {r.started : r \in history} \ {None}
             measured == {r.boot : r \in history} \ {None}
             f == [x \in measured |-> BootOf(x)]
             g == [r \in history |-> r.boot]
  <2>0. AnyOrder /\ SentKnown
    BY DEF HistoryInv
  <2>1. starts = {m.started : m \in Inventories} \ {None}
    BY <2>0 DEF AnyOrder, EntriesStored, EventsEntered, Entry
  <2>2. f \in Surjection(measured, Boots)
    <3>1. \A r \in history : r.boot # None => BootOf(r.boot) \in Boots
      <4>1. ASSUME NEW r \in history, r.boot # None PROVE BootOf(r.boot) \in Boots
        <5>1. BootOf(r.boot) # None
          BY <2>0, <4>1, BootsInTime, RegistryAssumption
        <5>2. \E m \in Inventories : r.boot = m.boot
          BY <2>0 DEF AnyOrder, EntriesStored, Entry
        <5> QED
          BY <5>1, <5>2 DEF Boots
      <4> QED
        BY <4>1
    <3>2. \A b \in Boots : \E x \in measured : BootOf(x) = b
      <4>1. \A b \in Boots : b # None /\ \E r \in history : BootOf(r.boot) = b
        BY <2>0 DEF AnyOrder, EventsEntered, Boots
      <4> QED
        BY <4>1, NoBoot
    <3> QED
      BY <3>1, <3>2 DEF Surjection
  <2>3. IsFiniteSet(measured)
    <3> DEFINE all == {r.boot : r \in history}
    <3>1. g \in Surjection(history, all)
      BY DEF Surjection
    <3>2. IsFiniteSet(all)
      BY <2>0, <3>1, FS_Surjection DEF AnyOrder
    <3>3. measured \subseteq all
      OBVIOUS
    <3> HIDE DEF measured, all
    <3> QED
      BY <3>2, <3>3, FS_Subset
  <2>4. /\ Cardinality(Boots) <= Cardinality(measured)
        /\ Cardinality(Boots) = Cardinality(measured) <=> f \in Injection(measured, Boots)
        /\ Cardinality(Boots) \in Nat /\ Cardinality(measured) \in Nat
    <3> HIDE DEF f, measured
    <3> QED
      BY <2>0, <2>2, <2>3, BootsFinite, FS_Surjection, FS_CardinalityType
  <2>5. f \in Injection(measured, Boots) \/ \E r, q \in history : /\ None \notin {r.boot, q.boot} /\ r.boot # q.boot
                                                                 /\ BootOf(r.boot) = BootOf(q.boot)
    <3>1. ASSUME \A r, q \in history : None \notin {r.boot, q.boot} /\ BootOf(r.boot) = BootOf(q.boot) => r.boot = q.boot
          PROVE  f \in Injection(measured, Boots)
      <4>1. \A x, y \in measured : BootOf(x) = BootOf(y) => x = y
        BY <3>1
      <4>2. \A x \in measured : f[x] = BootOf(x)
        OBVIOUS
      <4>3. f \in [measured -> Boots]
        BY <2>2 DEF Surjection
      <4> HIDE DEF f, measured
      <4> QED
        BY <4>1, <4>2, <4>3 DEF Injection, IsInjective
    <3> QED
      BY <3>1
  <2>6. {r \in reboot_events : EventKind(r) = "reboot"} = RebootRows
    BY RegistryAssumption DEF reboot_events, RebootRows
  <2>7. /\ report_uptime_stats = AtLeastZero(Cardinality(measured) - 1)
        /\ report_agent_restart_stats = AtLeastZero(Cardinality(starts) - 1)
    BY DEF report_uptime_stats, report_agent_restart_stats
  <2> HIDE DEF measured, starts, f
  <2>8. report_agent_restart_stats = AtLeastZero(Cardinality({m.started : m \in Inventories} \ {None}) - 1)
    BY <2>1, <2>7
  <2>9. /\ report_uptime_stats >= AtLeastZero(Cardinality(Boots) - 1)
        /\ report_uptime_stats > AtLeastZero(Cardinality(Boots) - 1) =>
              Cardinality(Boots) # Cardinality(measured)
    BY <2>4, <2>7 DEF AtLeastZero
  <2>10. /\ Cardinality({r \in RebootRows : FirstOfBoot(r)}) = Cardinality(Boots)
         /\ \A r \in RebootRows : FirstOfBoot(r) \/ NoBaseline(r)
    BY <2>0, OneFirst, MarkedAgain
  <2> QED
    BY <2>4, <2>5, <2>6, <2>8, <2>9, <2>10 DEF EventsAreCounted, Boots, FirstOfBoot
<1> QED
  BY <1>1, HistoryInvariance, PTL
=============================================================================
