---------------------------- MODULE AgentRestarts ----------------------------
(***************************************************************************)
(* _track_agent_restart, the last step of the metrics handler, for one     *)
(* server: compare the message's agent_started_at with the one kept in     *)
(* Redis, count a difference, alert at the threshold, keep the new one.    *)
(* The three Redis calls of a handler interleave with those of the other   *)
(* deliveries in flight; every call is fail-open.                          *)
(***************************************************************************)
EXTENDS Naturals, FiniteSets

CONSTANTS
  Handlers,   \* metrics deliveries of the server that reach the step
  Starts,     \* agent_started_at values
  StartOf,    \* StartOf[h]: the value a delivery carries, or None
  First,      \* the value kept when the behaviour begins
  None,       \* no value
  Threshold,  \* agent_restart_alert_threshold
  MaxRedisFaults  \* bound on failing calls and expired keys

ASSUME RestartAssumption ==
  /\ IsFiniteSet(Handlers)
  /\ StartOf \in [Handlers -> Starts \cup {None}]
  /\ First \in Starts /\ None \notin Starts
  /\ Threshold \in Nat \ {0} /\ MaxRedisFaults \in Nat

VARIABLES
  last,     \* last_agent_start:{server_id}
  count,    \* agent_restarts:{server_id}
  step,     \* step[h]: the next call of the handler
  alerted,  \* whether the warning was logged
  redisFaults  \* faults so far

restartVars == <<last, count, step, alerted, redisFaults>>

RestartTypeOK ==
  /\ last \in Starts \cup {None}
  /\ count \in Nat
  /\ step \in [Handlers -> {"get", "incr", "set", "done"}]
  /\ alerted \in BOOLEAN
  /\ redisFaults \in 0..MaxRedisFaults

RestartInit ==
  /\ last = First /\ count = 0
  /\ step = [h \in Handlers |-> "get"]
  /\ alerted = FALSE /\ redisFaults = 0

GoOn(h, next) == step' = [step EXCEPT ![h] = next]
RedisFault == redisFaults < MaxRedisFaults /\ redisFaults' = redisFaults + 1

(* Mutant: the value is kept before it is compared. *)
GetAfterSet(h) ==
  /\ step[h] = "get"
  /\ GoOn(h, IF StartOf[h] = None THEN "done" ELSE "set")
  /\ last' = IF StartOf[h] = None THEN last ELSE StartOf[h]
  /\ UNCHANGED <<count, alerted, redisFaults>>

(* An unknown start time is skipped; a value that is kept and different is  *)
(* a restart.                                                               *)
Get(h) ==
  /\ step[h] = "get"
  /\ GoOn(h, CASE StartOf[h] = None -> "done"
               [] last # None /\ StartOf[h] \notin {None, last} -> "incr"
               [] OTHER -> "set")
  /\ UNCHANGED <<last, count, alerted, redisFaults>>

(* safe_get returns None: nothing to compare with. *)
GetFails(h) ==
  /\ step[h] = "get" /\ StartOf[h] # None /\ RedisFault
  /\ GoOn(h, "set")
  /\ UNCHANGED <<last, count, alerted>>

(* INCR and EXPIRE in one MULTI/EXEC; the answer decides on the warning. *)
Incr(h) ==
  /\ step[h] = "incr"
  /\ GoOn(h, "set")
  /\ count' = count + 1
  /\ alerted' = (alerted \/ count + 1 >= Threshold)
  /\ UNCHANGED <<last, redisFaults>>

(* It raises, executed or not; no answer, no warning. *)
IncrFails(h) ==
  /\ step[h] = "incr" /\ RedisFault
  /\ GoOn(h, "set")
  /\ count' \in {count, count + 1}
  /\ UNCHANGED <<last, alerted>>

Set(h) ==
  /\ step[h] = "set"
  /\ GoOn(h, "done")
  /\ last' = StartOf[h]
  /\ UNCHANGED <<count, alerted, redisFaults>>

SetFails(h) ==
  /\ step[h] = "set" /\ RedisFault
  /\ GoOn(h, "done")
  /\ UNCHANGED <<last, count, alerted>>

(* A key reaches its TTL (24 h, 1 h) or is evicted. *)
ExpireLast  == last # None /\ RedisFault /\ last' = None /\ UNCHANGED <<count, step, alerted>>
ExpireCount == count > 0 /\ RedisFault /\ count' = 0 /\ UNCHANGED <<last, step, alerted>>

RestartNext ==
  \/ \E h \in Handlers : Get(h) \/ GetFails(h) \/ Incr(h) \/ IncrFails(h)
                           \/ Set(h) \/ SetFails(h)
  \/ ExpireLast \/ ExpireCount

RestartSpec == RestartInit /\ [][RestartNext]_restartVars

-----------------------------------------------------------------------------
(* The restarts the deliveries that finished tell of. *)
Reported == {StartOf[h] : h \in {g \in Handlers : step[g] = "done"}} \ {None, First}

(* However the deliveries interleave, and in whatever order they come, each *)
(* new start time is counted, as long as Redis keeps and answers.           *)
NoRestartMissed == redisFaults = 0 => count >= Cardinality(Reported)
=============================================================================
