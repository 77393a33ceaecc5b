--------------------------- MODULE IngestConsumer ---------------------------
(***************************************************************************)
(* The consumer process: agents publish messages to the broker, the broker *)
(* delivers them (at least once), and one asyncio task per delivery parses *)
(* the message, claims its message_id in Redis (SET NX), commits its       *)
(* transaction with up to three attempts, refreshes the Redis keys of the  *)
(* server and settles the delivery (ack, or nack without requeue, which    *)
(* dead-letters it).  Handlers of different deliveries interleave at every *)
(* await.  The process may crash, lose the broker connection, or be told   *)
(* to stop and drain within a budget; Redis may be unreachable or drop     *)
(* keys; the database may fail an attempt before or after its commit.      *)
(*                                                                         *)
(* A delivery is one published copy of a message: an agent that publishes  *)
(* again because it saw no confirm creates a second copy with the same     *)
(* message_id.  A redelivery is the same copy delivered again.             *)
(***************************************************************************)
EXTENDS Naturals, FiniteSets

CONSTANTS
  Copies,       \* published copies of messages
  Ids,          \* message_id values
  Agents,       \* agent_id values; one server row per agent
  MsgOf,        \* MsgOf[c]: the message_id a copy carries
  KindOf,       \* KindOf[i]: the routing key the message is published with
  AgentOf,      \* AgentOf[i]: the agent that published the message
  Malformed,    \* ids whose body fails the Pydantic model
  Unmatchable,  \* task.result ids whose task_id is not a UUID
  ClockSkewed,  \* ids whose clocks break the time invariants
  Prefetch,     \* channel.set_qos(prefetch_count)
  MaxAttempts,  \* _RETRY_MAX_ATTEMPTS
  MaxFaults     \* bound on crashes, outages, lost connections and lost keys

Kinds == {"inventory", "metrics", "error", "task.result"}

ASSUME IngestAssumption ==
  /\ MsgOf \in [Copies -> Ids]
  /\ KindOf \in [Ids -> Kinds]
  /\ AgentOf \in [Ids -> Agents]
  /\ Malformed \subseteq Ids
  /\ Unmatchable \subseteq Ids
  /\ ClockSkewed \subseteq Ids
  /\ Prefetch \in Nat \ {0}
  /\ MaxAttempts \in Nat \ {0}
  /\ MaxFaults \in Nat

VARIABLES
  broker,   \* broker[c]: where the broker holds the copy
  pc,       \* pc[c]: the next step of the handler task of the delivery
  attempt,  \* attempt[c]: the database attempt the handler is about to make
  redis,    \* the Redis keys that exist
  redisUp,  \* whether Redis answers
  servers,  \* agents with a row in server_inventory
  applied,  \* ids whose transaction has committed (observation only)
  again,    \* ids whose transaction has committed twice (observation only)
  reopened, \* ids whose claim Redis refused or lost, or whose commit was not
            \* answered (observation only)
  phase,    \* where the process is in main()
  subscribed, \* whether the broker still delivers to the process
  inBudget,   \* whether the drain budget is not yet spent
  cut,        \* cut[c]: what ended the copy's handler early (observation only)
  faults      \* faults left

vars == <<broker, pc, attempt, redis, redisUp, servers, applied, again, reopened,
          phase, subscribed, inBudget, cut, faults>>

process == <<phase, subscribed, inBudget>>
db      == <<servers, applied, again, reopened>>

BrokerStates == {"unpublished", "ready", "unacked", "acked", "dead", "expired"}
Steps  == {"none", "parse", "idempotent", "warn", "db", "redis", "ack", "nack"}
Phases == {"running", "cancelling", "waiting", "closing", "stopped"}
Causes == {"none", "crash", "connection", "undrained", "drained"}

RedisKeys ==
  ({"idempotent"} \X Ids)
    \cup ({"online", "cache:inventory", "cache:metrics", "warned"} \X Agents)

TypeOK ==
  /\ broker \in [Copies -> BrokerStates]
  /\ pc \in [Copies -> Steps]
  /\ attempt \in [Copies -> 1..MaxAttempts]
  /\ redis \subseteq RedisKeys
  /\ redisUp \in BOOLEAN
  /\ servers \subseteq Agents
  /\ applied \subseteq Ids /\ again \subseteq Ids /\ reopened \subseteq Ids
  /\ phase \in Phases
  /\ subscribed \in BOOLEAN
  /\ inBudget \in BOOLEAN
  /\ cut \in [Copies -> Causes]
  /\ faults \in 0..MaxFaults

Init ==
  /\ broker = [c \in Copies |-> "unpublished"]
  /\ pc = [c \in Copies |-> "none"]
  /\ attempt = [c \in Copies |-> 1]
  /\ redis = {}
  /\ redisUp = TRUE
  /\ servers = {}
  /\ applied = {} /\ again = {} /\ reopened = {}
  /\ phase = "running"
  /\ subscribed = TRUE
  /\ inBudget = TRUE
  /\ cut = [c \in Copies |-> "none"]
  /\ faults = MaxFaults

Inflight == {c \in Copies : pc[c] # "none"}
Kind(c)  == KindOf[MsgOf[c]]

(* The idempotency key a delivery claims. *)
IdempotentKey(c) == <<"idempotent", MsgOf[c]>>

(* What goes wrong is bounded, so that the model is finite. *)
UseFault == faults > 0 /\ faults' = faults - 1

(***************************************************************************)
(* The broker.                                                             *)
(***************************************************************************)
Publish(c) ==
  /\ broker[c] = "unpublished"
  /\ broker' = [broker EXCEPT ![c] = "ready"]
  /\ UNCHANGED <<pc, attempt, redis, redisUp, db, process, cut, faults>>

(* The broker hands over a message; aio-pika starts a task for it, and      *)
(* _track_inflight registers the task.  The prefetch count holds for each   *)
(* of the four queues.                                                      *)
Deliver(c) ==
  /\ broker[c] = "ready"
  /\ subscribed
  /\ Cardinality({d \in Inflight : Kind(d) = Kind(c)}) < Prefetch
  /\ broker' = [broker EXCEPT ![c] = "unacked"]
  /\ pc' = [pc EXCEPT ![c] = "parse"]
  /\ attempt' = [attempt EXCEPT ![c] = 1]
  /\ UNCHANGED <<redis, redisUp, db, process, cut, faults>>

(* x-message-ttl or x-max-length moves a waiting message to the DLX; the    *)
(* inventory queue is declared with neither.                                *)
Overflow(c) ==
  /\ broker[c] = "ready"
  /\ Kind(c) # "inventory"
  /\ UseFault
  /\ broker' = [broker EXCEPT ![c] = "expired"]
  /\ UNCHANGED <<pc, attempt, redis, redisUp, db, process, cut>>

(***************************************************************************)
(* The steps of a handler task.                                            *)
(***************************************************************************)

(* Only pc[c], and attempt[c] where it is given, move in a handler's step.  *)
Goto(c, step) == pc' = [pc EXCEPT ![c] = step]

(* _parse: a body that does not validate leaves message.process with an     *)
(* exception.                                                               *)
Parse(c) ==
  /\ pc[c] = "parse"
  /\ Goto(c, IF MsgOf[c] \in Malformed THEN "nack" ELSE "idempotent")
  /\ UNCHANGED <<broker, attempt, redis, redisUp, db, process, cut, faults>>

(* Mutant: the key is looked up but not claimed. *)
CheckOnly(c) ==
  /\ pc[c] = "idempotent"
  /\ LET duplicate == redisUp /\ IdempotentKey(c) \in redis
         unmatched == Kind(c) = "task.result" /\ MsgOf[c] \in Unmatchable
     IN  Goto(c, IF duplicate \/ unmatched THEN "ack"
                 ELSE IF Kind(c) = "task.result" THEN "db" ELSE "warn")
  /\ reopened' = IF redisUp THEN reopened ELSE reopened \cup {MsgOf[c]}
  /\ UNCHANGED <<broker, attempt, redis, redisUp, servers, applied, again, process, cut, faults>>

(* _check_idempotent: SET NX.  A key that exists means a duplicate, which   *)
(* is acked without being stored.  An unreachable Redis lets the message    *)
(* through.  task.result has no clock check, and returns here when its      *)
(* task_id cannot match a row.                                              *)
CheckIdempotent(c) ==
  /\ pc[c] = "idempotent"
  /\ LET duplicate == redisUp /\ IdempotentKey(c) \in redis
         unmatched == Kind(c) = "task.result" /\ MsgOf[c] \in Unmatchable
     IN  Goto(c, IF duplicate \/ unmatched THEN "ack"
                 ELSE IF Kind(c) = "task.result" THEN "db" ELSE "warn")
  /\ redis' = IF redisUp THEN redis \cup {IdempotentKey(c)} ELSE redis
  /\ reopened' = IF redisUp THEN reopened ELSE reopened \cup {MsgOf[c]}
  /\ UNCHANGED <<broker, attempt, redisUp, servers, applied, again, process, cut, faults>>

(* _log_time_invariants: claims the warning window of the agent when the    *)
(* clocks are out of order; never stops the message.  An error message has  *)
(* nothing to store.                                                        *)
LogTimeInvariants(c) ==
  /\ pc[c] = "warn"
  /\ redis' = IF redisUp /\ MsgOf[c] \in ClockSkewed
              THEN redis \cup {<<"warned", AgentOf[MsgOf[c]]>>}
              ELSE redis
  /\ Goto(c, IF Kind(c) = "error" THEN "ack" ELSE "db")
  /\ UNCHANGED <<broker, attempt, redisUp, db, process, cut, faults>>

(* What a committed transaction leaves in the database.  Inventory upserts  *)
(* the server, and metrics registers a placeholder server if there is none; *)
(* their rows are ignored where they are there already (ON CONFLICT DO      *)
(* NOTHING: modules MetricStore and ServerRegistry).  task.result updates a *)
(* task row, which module InstallTasks models.                              *)
Commit(c) ==
  /\ applied' = applied \cup {MsgOf[c]}
  /\ again' = IF MsgOf[c] \in applied THEN again \cup {MsgOf[c]} ELSE again
  /\ servers' = IF Kind(c) \in {"inventory", "metrics"}
                THEN servers \cup {AgentOf[MsgOf[c]]} ELSE servers

(* A transient failure waits and tries again; the last attempt's failure    *)
(* leaves the handler.                                                      *)
RetryOrRaise(c) ==
  IF attempt[c] < MaxAttempts
  THEN /\ attempt' = [attempt EXCEPT ![c] = @ + 1]
       /\ UNCHANGED pc
  ELSE /\ Goto(c, "nack")
       /\ UNCHANGED attempt

(* _db_retry around _db_attempt: the attempt commits.                       *)
DbCommit(c) ==
  /\ pc[c] = "db"
  /\ Commit(c)
  /\ Goto(c, IF Kind(c) = "task.result" THEN "ack" ELSE "redis")
  /\ UNCHANGED <<broker, attempt, redis, redisUp, reopened, process, cut, faults>>

(* The attempt fails with a retryable error and nothing is stored.          *)
DbTransient(c) ==
  /\ pc[c] = "db"
  /\ RetryOrRaise(c)
  /\ UNCHANGED <<broker, redis, redisUp, db, process, cut, faults>>

(* The commit reached the database but its answer did not come back: asyncpg *)
(* raises a timeout, which counts as transient.                             *)
DbCommitUnseen(c) ==
  /\ pc[c] = "db"
  /\ Commit(c)
  /\ reopened' = reopened \cup {MsgOf[c]}
  /\ RetryOrRaise(c)
  /\ UNCHANGED <<broker, redis, redisUp, process, cut, faults>>

(* _is_permanent_db_failure: raised at once.                                *)
DbPermanent(c) ==
  /\ pc[c] = "db"
  /\ Goto(c, "nack")
  /\ UNCHANGED <<broker, attempt, redis, redisUp, db, process, cut, faults>>

(* After the commit: mark the server online and drop its cached view.       *)
(* Every call is fail-open.  The restart bookkeeping that ends the metrics   *)
(* handler uses keys of its own: module AgentRestarts models that step.     *)
RefreshedKeys(c) ==
  LET a == AgentOf[MsgOf[c]]
      view == IF Kind(c) = "inventory" THEN "cache:inventory" ELSE "cache:metrics"
  IN  (redis \cup {<<"online", a>>}) \ {<<view, a>>}

UpdateRedis(c) ==
  /\ pc[c] = "redis"
  /\ redis' = IF redisUp THEN RefreshedKeys(c) ELSE redis
  /\ Goto(c, "ack")
  /\ UNCHANGED <<broker, attempt, redisUp, db, process, cut, faults>>

(* message.process on a normal exit, and on an exception (requeue=False);   *)
(* _run_logged swallows the exception, so the process keeps consuming.      *)
Ack(c) ==
  /\ pc[c] = "ack"
  /\ broker' = [broker EXCEPT ![c] = "acked"]
  /\ Goto(c, "none")
  /\ UNCHANGED <<attempt, redis, redisUp, db, process, cut, faults>>

(* Mutant: requeue=True sends a failing message round again. *)
NackAndRequeue(c) ==
  /\ pc[c] = "nack"
  /\ broker' = [broker EXCEPT ![c] = "ready"]
  /\ Goto(c, "none")
  /\ UNCHANGED <<attempt, redis, redisUp, db, process, cut, faults>>

Nack(c) ==
  /\ pc[c] = "nack"
  /\ broker' = [broker EXCEPT ![c] = "dead"]
  /\ Goto(c, "none")
  /\ UNCHANGED <<attempt, redis, redisUp, db, process, cut, faults>>

HandlerStep(c) ==
  \/ Parse(c) \/ CheckIdempotent(c) \/ LogTimeInvariants(c)
  \/ DbCommit(c) \/ DbTransient(c) \/ DbCommitUnseen(c) \/ DbPermanent(c)
  \/ UpdateRedis(c) \/ Ack(c) \/ Nack(c)

(***************************************************************************)
(* The web process fills the caches the handlers drop.                     *)
(***************************************************************************)
FillCache(k) ==
  /\ redisUp
  /\ k \in {"cache:inventory", "cache:metrics"} \X servers
  /\ k \notin redis
  /\ redis' = redis \cup {k}
  /\ UNCHANGED <<broker, pc, attempt, redisUp, db, process, cut, faults>>

(***************************************************************************)
(* Faults.                                                                 *)
(***************************************************************************)

(* The channel is gone: running handler tasks are cancelled and the broker  *)
(* takes every unsettled delivery back.                                     *)
CloseChannel(cause) ==
  /\ broker' = [c \in Copies |->
                  IF broker[c] = "unacked" THEN "ready" ELSE broker[c]]
  /\ pc' = [c \in Copies |-> "none"]
  /\ cut' = [c \in Copies |-> IF c \in Inflight THEN cause ELSE cut[c]]

Crash ==
  /\ phase # "stopped"
  /\ UseFault
  /\ CloseChannel("crash")
  /\ phase' = "stopped" /\ subscribed' = FALSE /\ inBudget' = TRUE
  /\ UNCHANGED <<attempt, redis, redisUp, db>>

(* connect_robust reconnects and subscribes again by itself.                *)
LoseConnection ==
  /\ phase # "stopped"
  /\ UseFault
  /\ CloseChannel("connection")
  /\ UNCHANGED <<attempt, redis, redisUp, db, process>>

RedisOutage ==
  /\ redisUp /\ UseFault
  /\ redisUp' = FALSE
  /\ UNCHANGED <<broker, pc, attempt, redis, db, process, cut>>

RedisRecover ==
  /\ ~redisUp
  /\ redisUp' = TRUE
  /\ UNCHANGED <<broker, pc, attempt, redis, db, process, cut, faults>>

(* A key reaches its TTL or is evicted (volatile-lru).                      *)
LoseKey(k) ==
  /\ k \in redis /\ UseFault
  /\ redis' = redis \ {k}
  /\ reopened' = reopened \cup {i \in Ids : k = <<"idempotent", i>>}
  /\ UNCHANGED <<broker, pc, attempt, redisUp, servers, applied, again, process, cut>>

(***************************************************************************)
(* Shutdown: main() after stop_event, and _drain.                          *)
(***************************************************************************)
Terminate ==
  /\ phase = "running" /\ UseFault
  /\ phase' = "cancelling"
  /\ UNCHANGED <<broker, pc, attempt, redis, redisUp, db,
                 subscribed, inBudget, cut>>

(* basic.cancel of every queue succeeds: no delivery follows.               *)
CancelConsumers ==
  /\ phase = "cancelling"
  /\ phase' = "waiting" /\ subscribed' = FALSE
  /\ UNCHANGED <<broker, pc, attempt, redis, redisUp, db,
                 inBudget, cut, faults>>

(* A basic.cancel fails and is passed over: deliveries go on.               *)
CancelFails ==
  /\ phase = "cancelling"
  /\ phase' = "waiting"
  /\ UNCHANGED <<broker, pc, attempt, redis, redisUp, db,
                 subscribed, inBudget, cut, faults>>

(* Mutant: the budget bounds the cancel calls but not the wait. *)
BudgetForCancelOnly ==
  /\ phase = "cancelling" /\ inBudget
  /\ inBudget' = FALSE
  /\ phase' = "closing"
  /\ UNCHANGED <<broker, pc, attempt, redis, redisUp, db,
                 subscribed, cut, faults>>

(* The budget runs out, while cancelling or while waiting.                  *)
BudgetSpent ==
  /\ phase \in {"cancelling", "waiting"} /\ inBudget
  /\ inBudget' = FALSE
  /\ phase' = "closing"
  /\ UNCHANGED <<broker, pc, attempt, redis, redisUp, db,
                 subscribed, cut, faults>>

(* Mutant: close without waiting for the handlers. *)
DrainedAtOnce ==
  /\ phase = "waiting"
  /\ phase' = "closing"
  /\ UNCHANGED <<broker, pc, attempt, redis, redisUp, db,
                 subscribed, inBudget, cut, faults>>

(* Every registered handler task has finished.                              *)
Drained ==
  /\ phase = "waiting" /\ Inflight = {}
  /\ phase' = "closing"
  /\ UNCHANGED <<broker, pc, attempt, redis, redisUp, db,
                 subscribed, inBudget, cut, faults>>

(* The channel and the connection close on leaving the async with, drained  *)
(* if every cancel went through and the handlers ended within the budget.   *)
Close ==
  /\ phase = "closing"
  /\ CloseChannel(IF inBudget /\ ~subscribed THEN "drained" ELSE "undrained")
  /\ phase' = "stopped" /\ subscribed' = FALSE /\ inBudget' = TRUE
  /\ UNCHANGED <<attempt, redis, redisUp, db, faults>>

(* restart: unless-stopped, or the next deployment.                         *)
Restart ==
  /\ phase = "stopped"
  /\ phase' = "running" /\ subscribed' = TRUE
  /\ UNCHANGED <<broker, pc, attempt, redis, redisUp, db,
                 inBudget, cut, faults>>

Shutdown == CancelConsumers \/ CancelFails \/ BudgetSpent \/ Drained \/ Close

Next ==
  \/ \E c \in Copies : Publish(c) \/ Deliver(c) \/ Overflow(c) \/ HandlerStep(c)
  \/ \E k \in RedisKeys : LoseKey(k) \/ FillCache(k)
  \/ Crash \/ LoseConnection \/ RedisOutage \/ RedisRecover
  \/ Terminate \/ Shutdown \/ Restart

(* The shutdown sequence is driven by its own deadline, and the container is *)
(* started again.  Handlers may hang: what needs them to run says so.        *)
Spec == Init /\ [][Next]_vars /\ WF_vars(Shutdown) /\ WF_vars(Restart)

(* The broker delivers and the event loop runs the handlers it can run.      *)
HandlersRun ==
  /\ WF_vars(\E c \in Copies : Deliver(c))
  /\ WF_vars(\E c \in Copies : HandlerStep(c))

-----------------------------------------------------------------------------
(* The first stage of the idempotency (_check_idempotent): however often a   *)
(* message is published, delivered, cut off and delivered again, and however *)
(* its handlers interleave, its transaction commits twice only if Redis did  *)
(* not take the claim or lost it, or if a commit was not answered and tried  *)
(* again.  Only then is it left to ON CONFLICT to keep the rows single.      *)
StoredOnceUnlessReopened == again \subseteq reopened

(* The message asks for a transaction. *)
Stores(i) ==
  /\ i \notin Malformed
  /\ KindOf[i] # "error"
  /\ ~(KindOf[i] = "task.result" /\ i \in Unmatchable)

(* A handler that is past the claim and has not given up on storing it. *)
Storing(c) == pc[c] \in {"warn", "db", "nack"}

(* A message that is not stored is still being stored, is kept in the      *)
(* dead-letter queue, or had a handler cut off by a failure.                *)
Accounted(i) ==
  \E d \in Copies :
    /\ MsgOf[d] = i
    /\ \/ Storing(d)
       \/ broker[d] = "dead"
       \/ cut[d] \in {"crash", "connection", "undrained"}

(* _check_idempotent acks what it takes for a duplicate.  Such a message is *)
(* nevertheless stored, or still being stored by another delivery, or kept  *)
(* in the dead-letter queue; it is dropped only when the delivery that held *)
(* its id was cut off by a crash, a lost connection, or a drain that overran *)
(* its budget or could not cancel its consumers.  A drain that ends well    *)
(* (_drain) never loses a message.                                          *)
NoSilentLoss ==
  \A c \in Copies :
    broker[c] = "acked" /\ Stores(MsgOf[c]) /\ MsgOf[c] \notin applied
      => Accounted(MsgOf[c])

(* Every delivery the broker holds is settled: acked, dead-lettered or      *)
(* expired, Redis reachable or not, provided faults stop and handlers do not *)
(* hang: a failing handler (message.process, _run_logged) gives back its     *)
(* prefetch slot.                                                           *)
EverySettled ==
  HandlersRun => \A c \in Copies :
    broker[c] = "ready" ~> broker[c] \in {"acked", "dead", "expired"}

(* After SIGTERM the process stops, even if its handlers hang (_drain).      *)
StopsWhenTold == phase = "cancelling" ~> phase = "stopped"
=============================================================================
