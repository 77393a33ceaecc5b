----------------------- MODULE IngestConsumer_proofs -----------------------
(***************************************************************************)
(* Proofs about IngestConsumer for every set of copies, messages and       *)
(* agents, every prefetch, every number of attempts and faults.            *)
(***************************************************************************)
EXTENDS IngestConsumer, AgentRestarts, FiniteSetTheorems, TLAPS

(* The keys the handlers write are Redis keys. *)
LEMMA KeysAreRedisKeys ==
  /\ \A c \in Copies : IdempotentKey(c) \in RedisKeys
  /\ \A i \in Ids : <<"warned", AgentOf[i]>> \in RedisKeys
  /\ \A i \in Ids : <<"online", AgentOf[i]>> \in RedisKeys
BY IngestAssumption DEF RedisKeys, IdempotentKey

(* Using up a fault keeps the count of the faults left within its bound. *)
LEMMA FaultType ==
  ASSUME TypeOK, UseFault
  PROVE  faults' \in 0..MaxFaults
BY IngestAssumption DEF TypeOK, UseFault

(* What closing the channel does to the broker's and the handlers' state. *)
LEMMA CloseChannelType ==
  ASSUME TypeOK, NEW cause \in Causes, CloseChannel(cause)
  PROVE  /\ broker' \in [Copies -> BrokerStates]
         /\ pc' \in [Copies -> Steps]
         /\ cut' \in [Copies -> Causes]
BY DEF TypeOK, CloseChannel, BrokerStates, Steps

(* A transient failure keeps the attempt number within its bound. *)
LEMMA RetryType ==
  ASSUME TypeOK, NEW c \in Copies, RetryOrRaise(c)
  PROVE  /\ pc' \in [Copies -> Steps]
         /\ attempt' \in [Copies -> 1..MaxAttempts]
BY IngestAssumption DEF TypeOK, RetryOrRaise, Goto, Steps

(* A commit leaves the database well formed. *)
LEMMA CommitType ==
  ASSUME TypeOK, NEW c \in Copies, Commit(c)
  PROVE  servers' \subseteq Agents /\ applied' \subseteq Ids /\ again' \subseteq Ids
<1>1. MsgOf[c] \in Ids /\ AgentOf[MsgOf[c]] \in Agents
  BY IngestAssumption
<1> QED
  BY <1>1 DEF TypeOK, Commit

(* Every step of a handler keeps the state well formed. *)
LEMMA HandlerType ==
  ASSUME TypeOK, NEW c \in Copies, HandlerStep(c)
  PROVE  TypeOK'
<1> USE DEF TypeOK, db, process, Goto
<1>0. MsgOf[c] \in Ids
  BY IngestAssumption
<1>1. CASE Parse(c)
  BY <1>1 DEF Parse, Steps
<1>2. CASE CheckIdempotent(c)
  <2>1. redis' \subseteq RedisKeys
    BY <1>2, KeysAreRedisKeys DEF CheckIdempotent
  <2> QED
    BY <1>0, <1>2, <2>1 DEF CheckIdempotent, Steps
<1>3. CASE LogTimeInvariants(c)
  <2>1. redis' \subseteq RedisKeys
    BY <1>0, <1>3, KeysAreRedisKeys DEF LogTimeInvariants
  <2> QED
    BY <1>3, <2>1 DEF LogTimeInvariants, Steps
<1>4. CASE DbCommit(c)
  BY <1>4, CommitType DEF DbCommit, Steps
<1>5. CASE DbTransient(c)
  BY <1>5, RetryType DEF DbTransient
<1>6. CASE DbCommitUnseen(c)
  BY <1>0, <1>6, RetryType, CommitType DEF DbCommitUnseen
<1>7. CASE DbPermanent(c)
  BY <1>7 DEF DbPermanent, Steps
<1>8. CASE UpdateRedis(c)
  <2>1. redis' \subseteq RedisKeys
    BY <1>0, <1>8, KeysAreRedisKeys DEF UpdateRedis, RefreshedKeys
  <2> QED
    BY <1>8, <2>1 DEF UpdateRedis, Steps
<1>9. CASE Ack(c)
  BY <1>9 DEF Ack, Steps, BrokerStates
<1>10. CASE Nack(c)
  BY <1>10 DEF Nack, Steps, BrokerStates
<1> QED
  BY <1>1, <1>2, <1>3, <1>4, <1>5, <1>6, <1>7, <1>8, <1>9, <1>10 DEF HandlerStep

(* Every reachable state of the consumer is well formed. *)
THEOREM TypeCorrect == Spec => []TypeOK
<1>1. Init => TypeOK
  BY IngestAssumption DEF Init, TypeOK, BrokerStates, Steps, Phases, Causes
<1>2. TypeOK /\ [Next]_vars => TypeOK'
  <2> SUFFICES ASSUME TypeOK, [Next]_vars
               PROVE  TypeOK'
    OBVIOUS
  <2> USE DEF TypeOK, db, process
  <2>1. ASSUME NEW c \in Copies, Publish(c)
        PROVE  TypeOK'
    BY <2>1 DEF Publish, BrokerStates
  <2>2. ASSUME NEW c \in Copies, Deliver(c)
        PROVE  TypeOK'
    BY <2>2, IngestAssumption DEF Deliver, BrokerStates, Steps
  <2>3. ASSUME NEW c \in Copies, Overflow(c)
        PROVE  TypeOK'
    BY <2>3, FaultType DEF Overflow, UseFault, BrokerStates
  <2>4. ASSUME NEW c \in Copies, HandlerStep(c)
        PROVE  TypeOK'
    BY <2>4, HandlerType
  <2>5. ASSUME NEW k \in RedisKeys, LoseKey(k)
        PROVE  TypeOK'
    BY <2>5, FaultType DEF LoseKey
  <2>6. ASSUME NEW k \in RedisKeys, FillCache(k)
        PROVE  TypeOK'
    BY <2>6 DEF FillCache
  <2>7. CASE Crash
    BY <2>7, CloseChannelType, FaultType DEF Crash, Phases, Causes
  <2>8. CASE LoseConnection
    BY <2>8, CloseChannelType, FaultType DEF LoseConnection, Causes
  <2>9. CASE RedisOutage \/ RedisRecover
    BY <2>9, FaultType DEF RedisOutage, RedisRecover
  <2>10. CASE Terminate \/ CancelConsumers \/ CancelFails \/ BudgetSpent \/ Drained
    BY <2>10, FaultType DEF Terminate, CancelConsumers, CancelFails, BudgetSpent, Drained, Phases
  <2>11. CASE Close
    BY <2>11, CloseChannelType DEF Close, Phases, Causes
  <2>12. CASE Restart
    BY <2>12 DEF Restart, Phases
  <2>13. CASE UNCHANGED vars
    BY <2>13 DEF vars
  <2> QED
    BY <2>1, <2>2, <2>3, <2>4, <2>5, <2>6, <2>7, <2>8, <2>9, <2>10, <2>11,
       <2>12, <2>13 DEF Next, Shutdown
<1> QED
  BY <1>1, <1>2, PTL DEF Spec

(***************************************************************************)
(* A message is stored once.  As long as Redis took the claim of an id and  *)
(* keeps it, and no commit of the id went unanswered, the key stands for    *)
(* the one delivery that is storing the message, or for its transaction.    *)
(***************************************************************************)

(* A handler between its claim and the end of its transaction. *)
Holding(c) == pc[c] \in {"warn", "db"}

ClaimHeld ==
  \A c \in Copies : Holding(c) /\ MsgOf[c] \notin reopened =>
    IdempotentKey(c) \in redis /\ MsgOf[c] \notin applied

OneHolder ==
  \A c, d \in Copies :
    Holding(c) /\ Holding(d) /\ MsgOf[c] = MsgOf[d] /\ MsgOf[c] \notin reopened => c = d

AppliedHeld == \A i \in applied : i \in reopened \/ <<"idempotent", i>> \in redis

OnceInv == ClaimHeld /\ OneHolder /\ AppliedHeld /\ StoredOnceUnlessReopened

(* Nothing is claimed, committed or lost, and no handler starts to hold its *)
(* claim.                                                                   *)
LEMMA OnceKept ==
  ASSUME OnceInv, UNCHANGED <<applied, again, reopened>>,
         \A c \in Copies : Holding(c)' => Holding(c),
         \A i \in Ids : <<"idempotent", i>> \in redis => <<"idempotent", i>> \in redis',
         MsgOf \in [Copies -> Ids], applied \subseteq Ids
  PROVE  OnceInv'
BY DEF OnceInv, ClaimHeld, OneHolder, AppliedHeld, StoredOnceUnlessReopened, IdempotentKey

(* The claim: whoever comes to hold an id that is not reopened found its    *)
(* key missing, so that no other handler holds it and it was never stored.  *)
LEMMA OnceClaimed ==
  ASSUME TypeOK, OnceInv, NEW c \in Copies, CheckIdempotent(c)
  PROVE  OnceInv'
<1> USE DEF TypeOK, Goto
<1>0. MsgOf \in [Copies -> Ids]
  BY IngestAssumption
<1>1. /\ reopened \subseteq reopened' /\ redis \subseteq redis'
      /\ UNCHANGED <<applied, again>>
      /\ \A d \in Copies \ {c} : pc'[d] = pc[d]
  BY DEF CheckIdempotent
<1>2. Holding(c)' /\ MsgOf[c] \notin reopened' =>
        /\ IdempotentKey(c) \notin redis /\ IdempotentKey(c) \in redis'
        /\ MsgOf[c] \notin reopened
  BY DEF CheckIdempotent, Holding
<1>3. Holding(c)' /\ MsgOf[c] \notin reopened' => MsgOf[c] \notin applied
  BY <1>2 DEF OnceInv, AppliedHeld, IdempotentKey
<1>4. ASSUME NEW d \in Copies \ {c}, Holding(c)', MsgOf[c] \notin reopened', Holding(d)',
             MsgOf[d] = MsgOf[c]
      PROVE  FALSE
  <2>1. IdempotentKey(d) \in redis
    BY <1>1, <1>2, <1>4 DEF OnceInv, ClaimHeld, Holding
  <2> QED
    BY <1>2, <1>4, <2>1 DEF IdempotentKey
<1>5. ClaimHeld'
  BY <1>1, <1>2, <1>3 DEF OnceInv, ClaimHeld, Holding, IdempotentKey
<1>6. OneHolder'
  <2> SUFFICES ASSUME NEW d \in Copies, NEW e \in Copies, Holding(d)', Holding(e)',
                      MsgOf[d] = MsgOf[e], MsgOf[d] \notin reopened', d # e
               PROVE  FALSE
    BY DEF OneHolder, Holding
  <2>1. CASE d = c \/ e = c
    BY <1>4, <2>1
  <2>2. CASE d # c /\ e # c
    BY <1>1, <2>2 DEF OnceInv, OneHolder, Holding
  <2> QED
    BY <2>1, <2>2
<1>7. AppliedHeld' /\ StoredOnceUnlessReopened'
  BY <1>1 DEF OnceInv, AppliedHeld, StoredOnceUnlessReopened
<1> QED
  BY <1>5, <1>6, <1>7 DEF OnceInv

(* The commit of a handler that holds an id which is not reopened is the    *)
(* first, and no other handler holds the id.                                *)
LEMMA OnceCommitted ==
  ASSUME TypeOK, OnceInv, NEW c \in Copies, DbCommit(c) \/ DbCommitUnseen(c)
  PROVE  OnceInv'
<1> USE DEF TypeOK, Goto
<1>0. MsgOf \in [Copies -> Ids] /\ Holding(c)
  BY IngestAssumption DEF DbCommit, DbCommitUnseen, Holding
<1>1. /\ reopened \subseteq reopened' /\ UNCHANGED redis
      /\ applied' = applied \cup {MsgOf[c]}
      /\ again' = IF MsgOf[c] \in applied THEN again \cup {MsgOf[c]} ELSE again
      /\ \A d \in Copies : Holding(d)' => Holding(d)
      /\ MsgOf[c] \in reopened' \/ ~Holding(c)'
  BY DEF DbCommit, DbCommitUnseen, Commit, RetryOrRaise, Holding
<1>2. ClaimHeld'
  <2> SUFFICES ASSUME NEW d \in Copies, Holding(d)', MsgOf[d] \notin reopened'
               PROVE  IdempotentKey(d) \in redis' /\ MsgOf[d] \notin applied'
    BY DEF ClaimHeld, Holding, IdempotentKey
  <2>1. MsgOf[d] # MsgOf[c]
    BY <1>0, <1>1 DEF OnceInv, OneHolder
  <2> QED
    BY <1>1, <2>1 DEF OnceInv, ClaimHeld
<1>3. OneHolder'
  BY <1>1 DEF OnceInv, OneHolder
<1>4. AppliedHeld'
  BY <1>0, <1>1 DEF OnceInv, AppliedHeld, ClaimHeld, IdempotentKey
<1>5. StoredOnceUnlessReopened'
  BY <1>0, <1>1 DEF OnceInv, ClaimHeld, StoredOnceUnlessReopened
<1> QED
  BY <1>2, <1>3, <1>4, <1>5 DEF OnceInv

(* A key that is lost reopens its id. *)
LEMMA OnceReopened ==
  ASSUME TypeOK, OnceInv, NEW k \in RedisKeys, LoseKey(k)
  PROVE  OnceInv'
<1>0. MsgOf \in [Copies -> Ids]
  BY IngestAssumption
<1>1. /\ reopened \subseteq reopened'
      /\ UNCHANGED <<applied, again, pc>>
  BY DEF LoseKey
<1>2. \A i \in Ids : i \notin reopened' /\ <<"idempotent", i>> \in redis
                       => <<"idempotent", i>> \in redis'
  BY DEF LoseKey
<1> QED
  BY <1>0, <1>1, <1>2
  DEF TypeOK, OnceInv, ClaimHeld, OneHolder, AppliedHeld, StoredOnceUnlessReopened, Holding,
      IdempotentKey

(* However often a message is published, redelivered, cut off or retried,   *)
(* and however its handlers interleave, its transaction commits twice only  *)
(* if its claim was refused or lost by Redis, or a commit went unanswered.  *)
THEOREM StoredOnce == Spec => []StoredOnceUnlessReopened
<1>1. Init => OnceInv
  BY DEF Init, OnceInv, ClaimHeld, OneHolder, AppliedHeld, StoredOnceUnlessReopened, Holding
<1>2. TypeOK /\ OnceInv /\ [Next]_vars => OnceInv'
  <2> SUFFICES ASSUME TypeOK, OnceInv, [Next]_vars
               PROVE  OnceInv'
    OBVIOUS
  <2>0. MsgOf \in [Copies -> Ids] /\ applied \subseteq Ids
    BY IngestAssumption DEF TypeOK
  <2>1. ASSUME NEW c \in Copies, Publish(c) \/ Deliver(c) \/ Overflow(c)
        PROVE  OnceInv'
    <3>1. /\ UNCHANGED <<applied, again, reopened, redis>>
          /\ \A d \in Copies : Holding(d)' => Holding(d)
      BY <2>1 DEF Publish, Deliver, Overflow, db, Holding, TypeOK
    <3> QED
      BY <2>0, <3>1, OnceKept
  <2>2. ASSUME NEW c \in Copies, HandlerStep(c)
        PROVE  OnceInv'
    <3>1. CASE CheckIdempotent(c)
      BY <3>1, OnceClaimed
    <3>2. CASE DbCommit(c) \/ DbCommitUnseen(c)
      BY <3>2, OnceCommitted
    <3>3. CASE UpdateRedis(c)
      <4>1. \A i \in Ids : <<"idempotent", i>> \in redis => <<"idempotent", i>> \in redis'
        BY <3>3 DEF UpdateRedis, RefreshedKeys
      <4>2. /\ UNCHANGED <<applied, again, reopened>>
            /\ \A d \in Copies : Holding(d)' => Holding(d)
        BY <3>3 DEF UpdateRedis, db, Holding, TypeOK, Goto
      <4> QED
        BY <2>0, <4>1, <4>2, OnceKept
    <3>4. CASE Parse(c) \/ LogTimeInvariants(c) \/ DbTransient(c) \/ DbPermanent(c)
                \/ Ack(c) \/ Nack(c)
      <4>1. /\ UNCHANGED <<applied, again, reopened>> /\ redis \subseteq redis'
            /\ \A d \in Copies : Holding(d)' => Holding(d)
        BY <3>4 DEF Parse, LogTimeInvariants, DbTransient, DbPermanent, Ack, Nack,
                    RetryOrRaise, db, Holding, TypeOK, Goto
      <4> QED
        BY <2>0, <4>1, OnceKept
    <3> QED
      BY <2>2, <3>1, <3>2, <3>3, <3>4 DEF HandlerStep
  <2>3. ASSUME NEW k \in RedisKeys, LoseKey(k)
        PROVE  OnceInv'
    BY <2>3, OnceReopened
  <2>4. ASSUME NEW k \in RedisKeys, FillCache(k)
        PROVE  OnceInv'
    <3>1. /\ UNCHANGED <<applied, again, reopened, pc>> /\ redis \subseteq redis'
      BY <2>4 DEF FillCache, db
    <3> QED
      BY <2>0, <3>1, OnceKept DEF Holding
  <2>5. CASE Crash \/ LoseConnection \/ Close
    <3>1. /\ UNCHANGED <<applied, again, reopened, redis>>
          /\ \A d \in Copies : Holding(d)' => Holding(d)
      BY <2>5 DEF Crash, LoseConnection, Close, CloseChannel, db, Holding
    <3> QED
      BY <2>0, <3>1, OnceKept
  <2>6. CASE RedisOutage \/ RedisRecover \/ Terminate \/ CancelConsumers \/ CancelFails
              \/ BudgetSpent \/ Drained \/ Restart \/ UNCHANGED vars
    <3>1. UNCHANGED <<applied, again, reopened, redis, pc>>
      BY <2>6 DEF RedisOutage, RedisRecover, Terminate, CancelConsumers, CancelFails,
                  BudgetSpent, Drained, Restart, vars, db
    <3> QED
      BY <2>0, <3>1, OnceKept DEF Holding
  <2> QED
    BY <2>1, <2>2, <2>3, <2>4, <2>5, <2>6 DEF Next, Shutdown
<1>3. OnceInv => StoredOnceUnlessReopened
  BY DEF OnceInv
<1> QED
  BY <1>1, <1>2, <1>3, TypeCorrect, PTL DEF Spec

(***************************************************************************)
(* No silent loss.  The inductive invariant says why a message may be      *)
(* acked: its id is explained, from the moment it is claimed in Redis on.  *)
(***************************************************************************)

(* A message that should be stored is stored, or its absence is accounted for. *)
Explained(i) == Stores(i) /\ i \notin applied => Accounted(i)

(* A running handler owns its delivery. *)
HandlerOwns == \A c \in Copies : pc[c] # "none" => broker[c] = "unacked"

(* The Redis keys are refreshed, and the message acked, after the commit. *)
StoredFirst == \A c \in Copies : pc[c] = "redis" => MsgOf[c] \in applied

ClaimExplained == \A c \in Copies : IdempotentKey(c) \in redis => Explained(MsgOf[c])

AckExplained ==
  \A c \in Copies : pc[c] = "ack" \/ broker[c] = "acked" => Explained(MsgOf[c])

(* A drain that ended well has no handler left and gets none. *)
DrainedIsEmpty == phase = "closing" /\ inBudget /\ ~subscribed => Inflight = {}

LossInv ==
  /\ TypeOK
  /\ HandlerOwns
  /\ StoredFirst
  /\ ClaimExplained
  /\ AckExplained
  /\ DrainedIsEmpty

(* The step neither ends nor moves the handlers and the deliveries that     *)
(* account for a message.                                                   *)
LEMMA ExplainedByWitness ==
  ASSUME NEW i \in Ids, Explained(i), applied \subseteq applied',
         \A d \in Copies :
           MsgOf[d] = i /\ Stores(i) /\ i \notin applied' =>
             /\ Storing(d) => Storing(d)' \/ (broker[d] = "dead")'
                                \/ cut'[d] \in {"crash", "connection", "undrained"}
             /\ broker[d] = "dead" => broker'[d] = "dead"
             /\ cut[d] \in {"crash", "connection", "undrained"}
                  => cut'[d] \in {"crash", "connection", "undrained"}
  PROVE  Explained(i)'
BY DEF Explained, Accounted, Stores, Storing

(* Closing the channel for a failure accounts for the handlers it cuts. *)
LEMMA ExplainedByCut ==
  ASSUME LossInv, NEW i \in Ids, Explained(i), UNCHANGED applied,
         NEW cause \in Causes, CloseChannel(cause),
         Inflight # {} => cause \in {"crash", "connection", "undrained"}
  PROVE  Explained(i)'
<1> SUFFICES ASSUME NEW d \in Copies
             PROVE /\ Storing(d) => cut'[d] \in {"crash", "connection", "undrained"}
                   /\ broker[d] = "dead" => broker'[d] = "dead"
                   /\ cut[d] \in {"crash", "connection", "undrained"}
                        => cut'[d] \in {"crash", "connection", "undrained"}
  BY ExplainedByWitness
<1>1. Storing(d) => d \in Inflight
  BY DEF Storing, Inflight
<1> QED
  BY <1>1 DEF CloseChannel

(* Once a message is explained it stays explained. *)
LEMMA ExplainedStable ==
  ASSUME LossInv, [Next]_vars, NEW i \in Ids, Explained(i)
  PROVE  Explained(i)'
<1> USE DEF LossInv, TypeOK, db, process, Goto
<1>1. ASSUME NEW c \in Copies, Publish(c) \/ Deliver(c) \/ Overflow(c)
      PROVE  Explained(i)'
  BY <1>1, ExplainedByWitness
     DEF Publish, Deliver, Overflow, Storing, HandlerOwns
<1>2. ASSUME NEW c \in Copies, HandlerStep(c)
      PROVE  Explained(i)'
  <2>1. CASE Parse(c) \/ CheckIdempotent(c) \/ LogTimeInvariants(c)
    BY <1>2, <2>1, ExplainedByWitness
       DEF Parse, CheckIdempotent, LogTimeInvariants, Storing, Stores, Kind
  <2>2. CASE DbCommit(c) \/ DbCommitUnseen(c)
    <3>1. applied' = applied \cup {MsgOf[c]}
      BY <2>2 DEF DbCommit, DbCommitUnseen, Commit
    <3> QED
      BY <2>2, <3>1, ExplainedByWitness
         DEF DbCommit, DbCommitUnseen, RetryOrRaise, Storing
  <2>3. CASE DbTransient(c) \/ DbPermanent(c) \/ UpdateRedis(c)
    BY <2>3, ExplainedByWitness
       DEF DbTransient, DbPermanent, UpdateRedis, RetryOrRaise, Storing
  <2>4. CASE Ack(c) \/ Nack(c)
    BY <2>4, ExplainedByWitness DEF Ack, Nack, Storing, HandlerOwns
  <2> QED
    BY <1>2, <2>1, <2>2, <2>3, <2>4 DEF HandlerStep
<1>3. CASE Crash \/ LoseConnection
  BY <1>3, ExplainedByCut DEF Crash, LoseConnection, Causes
<1>4. CASE Close
  BY <1>4, ExplainedByCut DEF Close, DrainedIsEmpty, Causes
<1>5. CASE UNCHANGED <<broker, pc, applied, cut>>
  BY <1>5, ExplainedByWitness DEF Storing
<1>6. UNCHANGED <<broker, pc, applied, cut>>
        \/ Crash \/ LoseConnection \/ Close
        \/ \E c \in Copies : Publish(c) \/ Deliver(c) \/ Overflow(c) \/ HandlerStep(c)
  BY DEF Next, vars, Shutdown, LoseKey, FillCache, RedisOutage, RedisRecover,
         Terminate, CancelConsumers, CancelFails, BudgetSpent, Drained, Restart
<1> QED
  BY <1>1, <1>2, <1>3, <1>4, <1>5, <1>6

(* A handler's step keeps the invariant.  Only the claim and the end of a   *)
(* transaction need an argument; the rest is ExplainedStable.               *)
LEMMA HandlerKeepsLossInv ==
  ASSUME LossInv, TypeOK', NEW c \in Copies, HandlerStep(c)
  PROVE  LossInv'
<1> USE DEF LossInv, TypeOK, db, process, Goto
<1>0. /\ MsgOf \in [Copies -> Ids]
      /\ \A i \in Ids : Explained(i) => Explained(i)'
  BY IngestAssumption, ExplainedStable DEF Next
<1>1. CASE Parse(c)
  BY <1>0, <1>1 DEF Parse, HandlerOwns, StoredFirst, ClaimExplained, AckExplained,
                    DrainedIsEmpty, Inflight, IdempotentKey
<1>2. CASE CheckIdempotent(c)
  <2>1. HandlerOwns' /\ StoredFirst' /\ DrainedIsEmpty'
    BY <1>2 DEF CheckIdempotent, HandlerOwns, StoredFirst, DrainedIsEmpty, Inflight
  <2>2. pc'[c] # "ack" => Storing(c)'
    BY <1>2 DEF CheckIdempotent, Storing
  <2>3. Explained(MsgOf[c])'  \/ (redisUp = FALSE /\ pc'[c] # "ack")
    <3>1. CASE redisUp /\ IdempotentKey(c) \in redis
      BY <1>0, <3>1 DEF ClaimExplained
    <3>2. CASE Kind(c) = "task.result" /\ MsgOf[c] \in Unmatchable
      BY <3>2 DEF Explained, Stores, Kind
    <3>3. CASE pc'[c] # "ack"
      BY <2>2, <3>3 DEF Explained, Accounted
    <3> QED
      BY <1>2, <3>1, <3>2, <3>3 DEF CheckIdempotent
  <2>4. ClaimExplained'
    <3> SUFFICES ASSUME NEW d \in Copies, IdempotentKey(d) \in redis'
                 PROVE  Explained(MsgOf[d])'
      BY DEF ClaimExplained, IdempotentKey
    <3>1. CASE IdempotentKey(d) \in redis
      BY <1>0, <3>1 DEF ClaimExplained
    <3>2. CASE IdempotentKey(d) = IdempotentKey(c) /\ redisUp
      BY <2>3, <3>2 DEF IdempotentKey
    <3> QED
      BY <1>2, <3>1, <3>2 DEF CheckIdempotent
  <2>5. AckExplained'
    BY <1>0, <1>2, <2>3 DEF CheckIdempotent, AckExplained
  <2> QED
    BY <2>1, <2>4, <2>5
<1>3. CASE LogTimeInvariants(c)
  <2>1. Kind(c) = "error" => Explained(MsgOf[c])'
    BY DEF Explained, Stores, Kind
  <2>2. ClaimExplained'
    BY <1>0, <1>3 DEF LogTimeInvariants, ClaimExplained, IdempotentKey
  <2> QED
    BY <1>0, <1>3, <2>1, <2>2
       DEF LogTimeInvariants, HandlerOwns, StoredFirst, AckExplained, DrainedIsEmpty,
           Inflight
<1>4. CASE DbCommit(c) \/ DbCommitUnseen(c)
  <2>1. applied' = applied \cup {MsgOf[c]}
    BY <1>4 DEF DbCommit, DbCommitUnseen, Commit
  <2>2. Explained(MsgOf[c])'
    BY <2>1 DEF Explained
  <2> QED
    BY <1>0, <1>4, <2>1, <2>2
       DEF DbCommit, DbCommitUnseen, RetryOrRaise, HandlerOwns, StoredFirst,
           ClaimExplained, AckExplained, DrainedIsEmpty, Inflight, IdempotentKey
<1>5. CASE DbTransient(c) \/ DbPermanent(c)
  BY <1>0, <1>5
     DEF DbTransient, DbPermanent, RetryOrRaise, HandlerOwns, StoredFirst,
         ClaimExplained, AckExplained, DrainedIsEmpty, Inflight, IdempotentKey
<1>6. CASE UpdateRedis(c)
  <2>1. ClaimExplained'
    BY <1>0, <1>6 DEF UpdateRedis, RefreshedKeys, ClaimExplained, IdempotentKey
  <2>2. Explained(MsgOf[c])'
    BY <1>6 DEF UpdateRedis, StoredFirst, Explained
  <2> QED
    BY <1>0, <1>6, <2>1, <2>2
       DEF UpdateRedis, HandlerOwns, StoredFirst, AckExplained, DrainedIsEmpty, Inflight
<1>7. CASE Ack(c) \/ Nack(c)
  BY <1>0, <1>7 DEF Ack, Nack, HandlerOwns, StoredFirst, ClaimExplained, AckExplained,
                    DrainedIsEmpty, Inflight, IdempotentKey
<1> QED
  BY <1>1, <1>2, <1>3, <1>4, <1>5, <1>6, <1>7 DEF HandlerStep

(* A message is acked without being stored only when a delivery that held   *)
(* its id was cut off by a failure or dead-lettered, or is still at it.     *)
THEOREM NoLoss == Spec => []NoSilentLoss
<1>1. Init => LossInv
  BY IngestAssumption
     DEF Init, LossInv, TypeOK, BrokerStates, Steps, Phases, Causes, HandlerOwns,
         StoredFirst, ClaimExplained, AckExplained, DrainedIsEmpty
<1>2. LossInv /\ TypeOK' /\ [Next]_vars => LossInv'
  <2> SUFFICES ASSUME LossInv, TypeOK', [Next]_vars
               PROVE  LossInv'
    OBVIOUS
  <2> USE DEF LossInv, TypeOK, db, process
  <2>0. /\ MsgOf \in [Copies -> Ids]
        /\ \A i \in Ids : Explained(i) => Explained(i)'
    BY IngestAssumption, ExplainedStable
  <2>1. ASSUME NEW c \in Copies, Publish(c) \/ Deliver(c) \/ Overflow(c)
        PROVE  LossInv'
    BY <2>0, <2>1 DEF Publish, Deliver, Overflow, HandlerOwns, StoredFirst,
         ClaimExplained, AckExplained, DrainedIsEmpty, Inflight, IdempotentKey
  <2>2. ASSUME NEW c \in Copies, HandlerStep(c)
        PROVE  LossInv'
    BY <2>2, HandlerKeepsLossInv
  <2>3. ASSUME NEW k \in RedisKeys, LoseKey(k) \/ FillCache(k)
        PROVE  LossInv'
    <3>1. \A c \in Copies : IdempotentKey(c) \in redis' => IdempotentKey(c) \in redis
      BY <2>3 DEF LoseKey, FillCache, IdempotentKey
    <3> QED
      BY <2>0, <2>3, <3>1 DEF LoseKey, FillCache, HandlerOwns, StoredFirst,
           ClaimExplained, AckExplained, DrainedIsEmpty, Inflight, IdempotentKey
  <2>4. ASSUME UNCHANGED <<redis, applied>>,
               \E cause \in Causes : CloseChannel(cause),
               phase' # "waiting" \/ UNCHANGED <<phase, subscribed>>,
               phase' # "closing" \/ UNCHANGED <<phase, subscribed, inBudget>>
        PROVE  LossInv'
    BY <2>0, <2>4 DEF CloseChannel, HandlerOwns, StoredFirst, ClaimExplained,
         AckExplained, DrainedIsEmpty, Inflight, IdempotentKey
  <2>5. CASE Crash \/ LoseConnection \/ Close
    BY <2>4, <2>5 DEF Crash, LoseConnection, Close, Causes
  <2>6. CASE RedisOutage \/ RedisRecover \/ Terminate \/ CancelConsumers \/ CancelFails
              \/ BudgetSpent \/ Drained \/ Restart \/ UNCHANGED vars
    BY <2>0, <2>6 DEF RedisOutage, RedisRecover, Terminate, CancelConsumers, CancelFails,
         BudgetSpent, Drained, Restart, vars, HandlerOwns, StoredFirst,
         ClaimExplained, AckExplained, DrainedIsEmpty, Inflight, IdempotentKey
  <2> QED
    BY <2>1, <2>2, <2>3, <2>5, <2>6 DEF Next, Shutdown
<1>3. LossInv => NoSilentLoss
  BY DEF LossInv, AckExplained, Explained, NoSilentLoss
<1> QED
  BY <1>1, <1>2, <1>3, TypeCorrect, PTL DEF Spec

-----------------------------------------------------------------------------
(* _track_agent_restart, the last step of the metrics handler: AgentRestarts, *)
(* for every set of deliveries and start times of a server.                   *)

(* The counter, the kept start time and the places of the handlers are well *)
(* typed in every reachable state of _track_agent_restart: what is kept is  *)
(* a start time an agent sent, or nothing.                                  *)
THEOREM RestartTypeCorrect == RestartSpec => []RestartTypeOK
<1>1. ASSUME RestartInit PROVE RestartTypeOK
  <2>1. last \in Starts \cup {None} /\ count \in Nat /\ redisFaults \in 0..MaxRedisFaults
    BY <1>1, RestartAssumption DEF RestartInit
  <2>2. step \in [Handlers -> {"get", "incr", "set", "done"}]
    BY <1>1 DEF RestartInit
  <2>3. alerted \in BOOLEAN
    BY <1>1, Zenon DEF RestartInit
  <2> QED
    BY <2>1, <2>2, <2>3 DEF RestartTypeOK
<1>2. ASSUME RestartTypeOK, [RestartNext]_restartVars PROVE RestartTypeOK'
  <2> USE <1>2, RestartAssumption DEF RestartTypeOK, GoOn, RedisFault
  <2>1. ASSUME NEW h \in Handlers, Get(h) PROVE RestartTypeOK'
    BY <2>1 DEF Get
  <2>2. ASSUME NEW h \in Handlers, GetFails(h) PROVE RestartTypeOK'
    BY <2>2 DEF GetFails
  <2>3. ASSUME NEW h \in Handlers, Incr(h) PROVE RestartTypeOK'
    BY <2>3 DEF Incr
  <2>4. ASSUME NEW h \in Handlers, IncrFails(h) PROVE RestartTypeOK'
    BY <2>4 DEF IncrFails
  <2>5. ASSUME NEW h \in Handlers, Set(h) PROVE RestartTypeOK'
    BY <2>5 DEF Set
  <2>6. ASSUME NEW h \in Handlers, SetFails(h) PROVE RestartTypeOK'
    BY <2>6 DEF SetFails
  <2>7. CASE ExpireLast
    BY <2>7 DEF ExpireLast
  <2>8. CASE ExpireCount
    BY <2>8 DEF ExpireCount
  <2>9. CASE UNCHANGED restartVars
    BY <2>9 DEF restartVars
  <2> QED
    BY <2>1, <2>2, <2>3, <2>4, <2>5, <2>6, <2>7, <2>8, <2>9 DEF RestartNext
<1> QED
  BY <1>1, <1>2, PTL DEF RestartSpec

(***************************************************************************)
(* No restart is missed.  The handlers past the comparison have counted    *)
(* their start time, or found it kept, and what is kept has been stored by *)
(* a handler that is done.                                                 *)
(***************************************************************************)

Past == {g \in Handlers : step[g] \in {"set", "done"}}

Told == {StartOf[h] : h \in Past} \ {None, First}

KeptIsStored ==
  /\ last # None
  /\ last = First \/ \E g \in Handlers : step[g] = "done" /\ last = StartOf[g]
  /\ \A g \in Handlers : step[g] \in {"incr", "set"} => StartOf[g] # None

CountInv == redisFaults = 0 => KeptIsStored /\ count >= Cardinality(Told)

(* There are finitely many of them. *)
LEMMA ToldFinite == IsFiniteSet(Told)
<1>1. IsFiniteSet(Past)
  BY RestartAssumption, FS_Subset DEF Past
<1>2. IsFiniteSet({StartOf[h] : h \in Past})
  <2> DEFINE T == {StartOf[h] : h \in Past}
             f == [h \in Past |-> StartOf[h]]
  <2>1. f \in Surjection(Past, T)
    BY DEF Surjection
  <2> QED
    BY <1>1, <2>1, FS_Surjection
<1> QED
  BY <1>2, FS_Subset DEF Told

(* However the deliveries of a server interleave, and in whatever order     *)
(* they come, _track_agent_restart counts each new start time, as long as   *)
(* Redis keeps and answers.                                                 *)
THEOREM NoneMissed == RestartSpec => []NoRestartMissed
<1>1. RestartInit => CountInv
  <2> SUFFICES ASSUME RestartInit PROVE CountInv
    OBVIOUS
  <2>1. Told = {}
    BY DEF RestartInit, Told, Past
  <2>2. Cardinality(Told) = 0
    BY <2>1, FS_EmptySet
  <2>3. count = 0 /\ KeptIsStored
    BY RestartAssumption DEF RestartInit, KeptIsStored
  <2> QED
    BY <2>2, <2>3 DEF CountInv
<1>2. ASSUME RestartTypeOK, CountInv, [RestartNext]_restartVars PROVE CountInv'
  <2> SUFFICES ASSUME redisFaults' = 0 PROVE KeptIsStored' /\ (count >= Cardinality(Told))'
    BY DEF CountInv
  <2>0. Cardinality(Told) \in Nat /\ IsFiniteSet(Told)
    BY ToldFinite, FS_CardinalityType
  <2> USE <1>2, RestartAssumption DEF RestartTypeOK, GoOn, RedisFault
  <2>1. ASSUME NEW h \in Handlers, Get(h)
        PROVE KeptIsStored' /\ (count >= Cardinality(Told))'
    <3>1. redisFaults = 0 /\ KeptIsStored /\ count >= Cardinality(Told)
      BY <2>1 DEF Get, CountInv
    <3>2. KeptIsStored'
      <4>1. \A g \in Handlers : step[g] = "done" => step'[g] = "done"
        BY <2>1 DEF Get
      <4>2. \A g \in Handlers : step'[g] \in {"incr", "set"} => StartOf[g] # None
        <5>1. step'[h] \in {"incr", "set"} => StartOf[h] # None
          BY <2>1 DEF Get
        <5>2. \A g \in Handlers \ {h} : step'[g] = step[g]
          BY <2>1 DEF Get
        <5> QED
          BY <3>1, <5>1, <5>2 DEF KeptIsStored
      <4>3. last' = last
        BY <2>1 DEF Get
      <4> QED
        BY <3>1, <4>1, <4>2, <4>3 DEF KeptIsStored
    <3>3. Past' \subseteq Past \cup {h}
      BY <2>1 DEF Get, Past
    <3>4. ASSUME h \in Past' PROVE StartOf[h] \in {None, First} \/ StartOf[h] \in Told
      <4>1. StartOf[h] = None \/ last = StartOf[h]
        BY <2>1, <3>1, <3>4 DEF Get, Past, KeptIsStored
      <4> QED
        BY <3>1, <4>1 DEF Past, Told, KeptIsStored
    <3>5. Told' \subseteq Told
      BY <3>3, <3>4 DEF Told
    <3>6. Cardinality(Told') <= Cardinality(Told) /\ Cardinality(Told') \in Nat
      BY <2>0, <3>5, FS_Subset, FS_CardinalityType
    <3> QED
      BY <2>0, <2>1, <3>1, <3>2, <3>6 DEF Get
  <2>2. ASSUME NEW h \in Handlers, Incr(h)
        PROVE KeptIsStored' /\ (count >= Cardinality(Told))'
    <3>1. redisFaults = 0 /\ KeptIsStored /\ count >= Cardinality(Told)
      BY <2>2 DEF Incr, CountInv
    <3>2. KeptIsStored'
      BY <2>2, <3>1 DEF Incr, KeptIsStored
    <3>3. Past' \subseteq Past \cup {h}
      BY <2>2 DEF Incr, Past
    <3>4. Told' \subseteq Told \cup {StartOf[h]}
      BY <3>3 DEF Told
    <3>5. /\ IsFiniteSet(Told \cup {StartOf[h]})
          /\ Cardinality(Told \cup {StartOf[h]}) <= Cardinality(Told) + 1
      <4>1. /\ IsFiniteSet(Told \cup {StartOf[h]})
            /\ \/ Cardinality(Told \cup {StartOf[h]}) = Cardinality(Told)
               \/ Cardinality(Told \cup {StartOf[h]}) = Cardinality(Told) + 1
        BY <2>0, FS_AddElement, Zenon
      <4> QED
        BY <2>0, <4>1
    <3>6. /\ Cardinality(Told') \in Nat
          /\ Cardinality(Told') <= Cardinality(Told \cup {StartOf[h]})
          /\ Cardinality(Told \cup {StartOf[h]}) \in Nat
      BY <3>4, <3>5, FS_Subset, FS_CardinalityType
    <3> QED
      BY <2>0, <2>2, <3>1, <3>2, <3>5, <3>6 DEF Incr
  <2>3. ASSUME NEW h \in Handlers, Set(h)
        PROVE KeptIsStored' /\ (count >= Cardinality(Told))'
    <3>1. redisFaults = 0 /\ KeptIsStored /\ count >= Cardinality(Told)
      BY <2>3 DEF Set, CountInv
    <3>2. step'[h] = "done" /\ last' = StartOf[h] /\ StartOf[h] # None
      BY <2>3, <3>1 DEF Set, KeptIsStored
    <3>3. \A g \in Handlers : step'[g] \in {"incr", "set"} => StartOf[g] # None
      BY <2>3, <3>1 DEF Set, KeptIsStored
    <3>4. Past' = Past
      BY <2>3 DEF Set, Past
    <3>5. Told' = Told
      BY <3>4 DEF Told
    <3> QED
      BY <2>3, <3>1, <3>2, <3>3, <3>5 DEF Set, KeptIsStored
  <2>4. CASE UNCHANGED restartVars
    BY <2>4 DEF restartVars, CountInv, KeptIsStored, Told, Past
  <2>5. ASSUME RedisFault PROVE FALSE
    BY <2>5
  <2> QED
    BY <2>1, <2>2, <2>3, <2>4, <2>5
    DEF RestartNext, GetFails, IncrFails, SetFails, ExpireLast, ExpireCount
<1>3. CountInv /\ RestartTypeOK => NoRestartMissed
  <2> SUFFICES ASSUME CountInv, RestartTypeOK, redisFaults = 0 PROVE count >= Cardinality(Reported)
    BY DEF NoRestartMissed
  <2>1. Reported \subseteq Told
    BY DEF Reported, Told, Past
  <2>2. /\ Cardinality(Reported) <= Cardinality(Told)
        /\ Cardinality(Reported) \in Nat /\ Cardinality(Told) \in Nat
    BY <2>1, ToldFinite, FS_Subset, FS_CardinalityType
  <2> QED
    BY <2>2 DEF CountInv, RestartTypeOK
<1> QED
  BY <1>1, <1>2, <1>3, RestartTypeCorrect, PTL DEF RestartSpec
=============================================================================
