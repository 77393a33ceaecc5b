---------------------------- MODULE InstallTasks ----------------------------
(***************************************************************************)
(* Remote installation tasks, end to end: operators' requests to the web   *)
(* process (task_service.create_install_tasks), the tasks table with its   *)
(* partial UNIQUE index, the per-agent broker queue with its message TTL,  *)
(* the agents (external), the consumer's task.result handler and the       *)
(* worker's reaper.  Requests of several operators interleave at every     *)
(* await; time passes at any point.                                        *)
(*                                                                         *)
(* A task is named by the request that issues it and its target server.    *)
(***************************************************************************)
EXTENDS TaskPolicy, FiniteSets

CONSTANTS
  Servers,   \* registered servers; one agent and one task queue each
  Requests,  \* POST /api/tasks/install calls
  Reports,   \* what an agent may report about a task
  NoRow,     \* the status of a task without a row, and of one whose insert
  Draft,     \* is not committed: neither is a string a report may carry
  Window,    \* install_task_deadline_sec
  MaxTime    \* bound on the clock

(* The statuses reports amount to.  The wire takes any string of 1 to 32     *)
(* characters, "pending" included, and the column stores it.                *)
Outcomes == {EffectiveResult(rep)[1] : rep \in Reports}

ASSUME InstallAssumption ==
  /\ Window \in Nat \ {0}
  /\ MaxTime \in Nat
  /\ NoRow # Draft
  /\ {NoRow, Draft} \cap (Outcomes \cup {"pending", "failure"}) = {}

Tasks == Requests \X Servers

VARIABLES
  now,       \* the clock
  pc,        \* pc[r]: where the request is
  todo,      \* todo[r]: targets not yet issued
  current,   \* current[r]: the target whose transaction is open
  dueAt,     \* dueAt[r]: the deadline_at computed for the request
  status,    \* status[t]: the task row
  reason,    \* reason[t]: failure_reason
  deadline,  \* deadline[t]: deadline_at
  message,   \* message[t]: the task.install message
  sentAt,    \* sentAt[t]: when the broker accepted it
  result,    \* result[t]: the task.result message
  report     \* report[t]: what it says

vars == <<now, pc, todo, current, dueAt, status, reason, deadline,
          message, sentAt, result, report>>

request == <<pc, todo, current, dueAt>>
table   == <<status, reason, deadline>>
install == <<message, sentAt>>
answer  == <<result, report>>

Places   == {"start", "resolve", "loop", "publish", "commit", "done", "failed"}
Statuses == {NoRow, Draft, "pending", "failure"} \cup Outcomes
FailureReasons == {None, "timeout"} \cup {EffectiveResult(rep)[2] : rep \in Reports}
Committed(t) == status[t] \notin {NoRow, Draft}

NoReport == None

TypeOK ==
  /\ now \in 0..MaxTime
  /\ pc \in [Requests -> Places]
  /\ todo \in [Requests -> SUBSET Servers]
  /\ current \in [Requests -> Servers \cup {None}]
  /\ dueAt \in [Requests -> Nat]
  /\ status \in [Tasks -> Statuses]
  /\ reason \in [Tasks -> FailureReasons]
  /\ deadline \in [Tasks -> Nat]
  /\ message \in [Tasks -> {"none", "queued", "taken", "expired"}]
  /\ sentAt \in [Tasks -> Nat]
  /\ result \in [Tasks -> {"none", "sent", "applied", "unmatched", "rejected", "lost"}]
  /\ report \in [Tasks -> Reports \cup {NoReport}]

Init ==
  /\ now = 0
  /\ pc = [r \in Requests |-> "start"]
  /\ todo = [r \in Requests |-> {}]
  /\ current = [r \in Requests |-> None]
  /\ dueAt = [r \in Requests |-> 0]
  /\ status = [t \in Tasks |-> NoRow]
  /\ reason = [t \in Tasks |-> None]
  /\ deadline = [t \in Tasks |-> 0]
  /\ message = [t \in Tasks |-> "none"]
  /\ sentAt = [t \in Tasks |-> 0]
  /\ result = [t \in Tasks |-> "none"]
  /\ report = [t \in Tasks |-> NoReport]

Goto(r, place) == pc' = [pc EXCEPT ![r] = place]

(* Rows a timeout statement selects among the tasks of the given servers.   *)
Overdue(targets) ==
  {t \in Tasks : t[2] \in targets /\ status[t] = "pending" /\ deadline[t] < now}

(* UPDATE ... SET status = 'failure', failure_reason = 'timeout'.           *)
SetTimeout(S) ==
  /\ status' = [t \in Tasks |-> IF t \in S THEN "failure" ELSE status[t]]
  /\ reason' = [t \in Tasks |-> IF t \in S THEN "timeout" ELSE reason[t]]
  /\ UNCHANGED deadline

(* find_pending_deadline_servers, after the overdue ones were expired.      *)
Busy(targets) ==
  {s \in targets : \E r \in Requests :
     status[<<r, s>>] = "pending" /\ <<r, s>> \notin Overdue(targets)}

(***************************************************************************)
(* create_install_tasks.                                                   *)
(***************************************************************************)

(* One of the selected servers does not exist: 404 for the whole request.   *)
RejectUnknown(r) ==
  /\ pc[r] = "start"
  /\ Goto(r, "failed")
  /\ UNCHANGED <<now, todo, current, dueAt, table, install, answer>>

(* Expire the targets' overdue tasks and look for pending ones in one       *)
(* transaction; refuse the whole request if any is left, else fix           *)
(* deadline_at for every task of the request.                               *)
CheckTargets(r) ==
  /\ pc[r] = "start"
  /\ now + Window < MaxTime
  /\ \E targets \in SUBSET Servers \ {{}} :
       /\ SetTimeout(Overdue(targets))
       /\ IF Busy(targets) # {}
          THEN /\ Goto(r, "failed")
               /\ UNCHANGED <<todo, dueAt>>
          ELSE /\ Goto(r, "resolve")
               /\ todo' = [todo EXCEPT ![r] = targets]
               /\ dueAt' = [dueAt EXCEPT ![r] = now + Window]
  /\ UNCHANGED <<now, current, install, answer>>

(* The package metadata comes from the ZDM server over HTTP, which takes    *)
(* time; without it nothing is published (503).                             *)
ResolvePackages(r) ==
  /\ pc[r] = "resolve"
  /\ Goto(r, "loop") \/ Goto(r, "failed")
  /\ UNCHANGED <<now, todo, current, dueAt, table, install, answer>>

(* Mutant: the index on (target_server_id, task_type) is missing. *)
InsertWithoutIndex(r, s) ==
  /\ pc[r] = "loop" /\ s \in todo[r]
  /\ status' = [status EXCEPT ![<<r, s>>] = Draft]
  /\ deadline' = [deadline EXCEPT ![<<r, s>>] = dueAt[r]]
  /\ current' = [current EXCEPT ![r] = s]
  /\ Goto(r, "publish")
  /\ UNCHANGED <<now, todo, dueAt, reason, install, answer>>

(* create_task.  The unique index makes the insert wait for another open    *)
(* transaction on the same server, and fail on a pending row (409); the      *)
(* tasks the request has already issued stay.                               *)
InsertTask(r, s) ==
  /\ pc[r] = "loop" /\ s \in todo[r]
  /\ \A q \in Requests : status[<<q, s>>] # Draft
  /\ IF \E q \in Requests : status[<<q, s>>] = "pending"
     THEN /\ Goto(r, "failed")
          /\ UNCHANGED <<status, deadline, current>>
     ELSE /\ status' = [status EXCEPT ![<<r, s>>] = Draft]
          /\ deadline' = [deadline EXCEPT ![<<r, s>>] = dueAt[r]]
          /\ current' = [current EXCEPT ![r] = s]
          /\ Goto(r, "publish")
  /\ UNCHANGED <<now, todo, dueAt, reason, install, answer>>

(* The server's details are missing, or the insert raises anything else.    *)
InsertFails(r) ==
  /\ pc[r] = "loop"
  /\ Goto(r, "failed")
  /\ UNCHANGED <<now, todo, current, dueAt, table, install, answer>>

Enqueue(t) ==
  /\ message' = [message EXCEPT ![t] = "queued"]
  /\ sentAt' = [sentAt EXCEPT ![t] = now]

Rollback(t) == status' = [status EXCEPT ![t] = NoRow]

(* Mutant: a broker error is logged and the transaction goes on to commit. *)
PublishSwallowed(r) ==
  /\ pc[r] = "publish"
  /\ Goto(r, "commit")
  /\ Enqueue(<<r, current[r]>>) \/ UNCHANGED install
  /\ UNCHANGED <<now, todo, current, dueAt, table, answer>>

(* _ensure_machine_queue and _publish_install, with publisher confirm.      *)
PublishInstall(r) ==
  /\ pc[r] = "publish"
  /\ Goto(r, "commit")
  /\ Enqueue(<<r, current[r]>>)
  /\ UNCHANGED <<now, todo, current, dueAt, table, answer>>

(* The broker refuses, or the confirm does not come in time although the    *)
(* message may have been accepted: the insert is rolled back (503).         *)
PublishFails(r) ==
  /\ pc[r] = "publish"
  /\ Goto(r, "failed")
  /\ Enqueue(<<r, current[r]>>) \/ UNCHANGED install
  /\ Rollback(<<r, current[r]>>)
  /\ UNCHANGED <<now, todo, current, dueAt, reason, deadline, answer>>

(* The insert becomes visible. *)
CommitRow(t) == status' = [status EXCEPT ![t] = "pending"]

(* session.commit() after the publish, then the next target.                *)
CommitTask(r) ==
  /\ pc[r] = "commit"
  /\ CommitRow(<<r, current[r]>>)
  /\ todo' = [todo EXCEPT ![r] = @ \ {current[r]}]
  /\ Goto(r, IF todo[r] = {current[r]} THEN "done" ELSE "loop")
  /\ UNCHANGED <<now, current, dueAt, reason, deadline, install, answer>>

(* The commit fails, or the web process dies: PostgreSQL rolls back.        *)
CommitFails(r) ==
  /\ pc[r] = "commit"
  /\ Goto(r, "failed")
  /\ Rollback(<<r, current[r]>>)
  /\ UNCHANGED <<now, todo, current, dueAt, reason, deadline, install, answer>>

(* The commit is done but its answer lost: the request fails all the same.  *)
CommitUnseen(r) ==
  /\ pc[r] = "commit"
  /\ Goto(r, "failed")
  /\ CommitRow(<<r, current[r]>>)
  /\ UNCHANGED <<now, todo, current, dueAt, reason, deadline, install, answer>>

RequestStep(r) ==
  \/ RejectUnknown(r) \/ CheckTargets(r) \/ ResolvePackages(r)
  \/ InsertFails(r) \/ \E s \in Servers : InsertTask(r, s)
  \/ PublishInstall(r) \/ PublishFails(r)
  \/ CommitTask(r) \/ CommitFails(r) \/ CommitUnseen(r)

(***************************************************************************)
(* The broker's queue and the agent.                                       *)
(***************************************************************************)

(* Mutant: the queue keeps messages for three deadline windows.            *)
LongerTtl == 3 * Window

(* x-message-ttl of the agent's queue. *)
MessageTtl == Window

Deliverable(t) == message[t] = "queued" /\ now < sentAt[t] + MessageTtl

AgentTakes(t) ==
  /\ Deliverable(t)
  /\ message' = [message EXCEPT ![t] = "taken"]
  /\ UNCHANGED <<now, request, table, sentAt, answer>>

MessageExpires(t) ==
  /\ message[t] = "queued" /\ ~Deliverable(t)
  /\ message' = [message EXCEPT ![t] = "expired"]
  /\ UNCHANGED <<now, request, table, sentAt, answer>>

(* The agent ran or refused the task and publishes what happened; it may    *)
(* also disappear and never do so.                                          *)
AgentReports(t) ==
  /\ message[t] = "taken" /\ result[t] = "none"
  /\ \E rep \in Reports : report' = [report EXCEPT ![t] = rep]
  /\ result' = [result EXCEPT ![t] = "sent"]
  /\ UNCHANGED <<now, request, table, install>>

(***************************************************************************)
(* The consumer's task.result handler and the worker's reaper.             *)
(***************************************************************************)

(* Another request has a row of the status for the same server. *)
OtherRow(t, st) == \E q \in Requests \ {t[1]} : status[<<q, t[2]>>] = st

(* A row that is not there, or not committed yet, matches nothing and the    *)
(* message is acked all the same.                                           *)
ResultUnmatched(t) ==
  /\ ~Committed(t)
  /\ result' = [result EXCEPT ![t] = "unmatched"]
  /\ UNCHANGED <<status, reason>>

(* A row that would be the server's second pending one breaks the unique     *)
(* index: an IntegrityError is permanent and the message is dead-lettered.   *)
ResultRejected(t) ==
  /\ Committed(t)
  /\ EffectiveResult(report[t])[1] = "pending" /\ OtherRow(t, "pending")
  /\ result' = [result EXCEPT ![t] = "rejected"]
  /\ UNCHANGED <<status, reason>>

(* The row takes the status and the reason the report amounts to, whatever   *)
(* its own status; the index makes "pending" wait for an open insert.        *)
ResultStored(t) ==
  /\ Committed(t)
  /\ EffectiveResult(report[t])[1] = "pending"
       => ~OtherRow(t, "pending") /\ ~OtherRow(t, Draft)
  /\ status' = [status EXCEPT ![t] = EffectiveResult(report[t])[1]]
  /\ reason' = [reason EXCEPT ![t] = EffectiveResult(report[t])[2]]
  /\ result' = [result EXCEPT ![t] = "applied"]

(* complete_task: UPDATE by public_id, without a condition on the status.    *)
HandleResult(t) ==
  /\ result[t] = "sent"
  /\ ResultUnmatched(t) \/ ResultRejected(t) \/ ResultStored(t)
  /\ UNCHANGED <<now, request, deadline, install, report>>

(* The message is dropped: see NoSilentLoss of IngestConsumer.              *)
LoseResult(t) ==
  /\ result[t] = "sent"
  /\ result' = [result EXCEPT ![t] = "lost"]
  /\ UNCHANGED <<now, request, table, install, report>>

(* Mutant: only tasks whose message expired undelivered are timed out. *)
ReapUndelivered ==
  LET S == {t \in Overdue(Servers) : message[t] = "expired"}
  IN  /\ S # {}
      /\ SetTimeout(S)
      /\ UNCHANGED <<now, request, install, answer>>

(* Mutant: the status filter is missing. *)
ReapAnyStatus ==
  LET S == {t \in Tasks : Committed(t) /\ deadline[t] < now}
  IN  /\ S # {}
      /\ SetTimeout(S)
      /\ UNCHANGED <<now, request, install, answer>>

(* expire_all_overdue_tasks, every reaper interval.                         *)
Reap ==
  /\ Overdue(Servers) # {}
  /\ SetTimeout(Overdue(Servers))
  /\ UNCHANGED <<now, request, install, answer>>

Tick ==
  /\ now < MaxTime
  /\ now' = now + 1
  /\ UNCHANGED <<request, table, install, answer>>

Next ==
  \/ \E r \in Requests : RequestStep(r)
  \/ \E t \in Tasks : AgentTakes(t) \/ MessageExpires(t) \/ AgentReports(t)
                        \/ HandleResult(t) \/ LoseResult(t)
  \/ Reap
  \/ Tick

(* The reaper ticks for ever (its loop swallows every exception) and time    *)
(* passes; agents, operators and results owe us nothing.                     *)
Spec == Init /\ [][Next]_vars /\ WF_vars(Reap) /\ WF_vars(Tick)

-----------------------------------------------------------------------------
(* uq_tasks_pending_per_server_type: two operators, or one double click,    *)
(* never leave a server with two pending tasks.                             *)
AtMostOnePending ==
  \A q, r \in Requests, s \in Servers :
    status[<<q, s>>] = "pending" /\ status[<<r, s>>] = "pending" => q = r

(* publish-then-commit: no pending task whose install message was never     *)
(* accepted by the broker.                                                  *)
NoGhostPending ==
  \A t \in Tasks : status[t] = "pending" => message[t] # "none"

(* The row was ended by a timeout statement. *)
HitByTimeout(t) ==
  status[t] = "failure" /\ reason[t] = "timeout" /\ deadline[t] < now

(* Once the agent's report is stored it is what the task says for ever,     *)
(* whatever the reaper and the next request's expiry do.  The wire leaves    *)
(* the status free: only a report that says "pending" can be timed out, and  *)
(* then not before the deadline.                                            *)
ReportedOutcomeStands ==
  \A t \in Tasks :
    result[t] = "applied" =>
      \/ <<status[t], reason[t]>> = EffectiveResult(report[t])
      \/ EffectiveResult(report[t])[1] = "pending" /\ HitByTimeout(t)

TimedOut(t) == status[t] = "failure" /\ reason[t] = "timeout" /\ result[t] # "applied"

(* A message can reach the agent of a task the engine already declared      *)
(* timed out only if it was published later than the deadline was computed  *)
(* (deadline_at and x-message-ttl are the same window).                     *)
ZombieOnlyIfPublishedLate ==
  \A t \in Tasks : Deliverable(t) /\ TimedOut(t) => sentAt[t] + Window > deadline[t]

(* The task.result handler takes a result without a row for a result of a    *)
(* deleted task: no row of that id turns up.                                 *)
UnmatchedMeansNoTask == \A t \in Tasks : result[t] = "unmatched" => ~Committed(t)

(* The reaper's promise: a pending task ends, agent or no agent, even if     *)
(* the agent reports that it is pending.                                    *)
PendingEnds == \A t \in Tasks : status[t] = "pending" ~> status[t] # "pending"

(* The tasks table implements TaskLifecycle; an open insert is not there.   *)
Lifecycle == INSTANCE TaskLifecycle WITH
  ServerOf <- [t \in Tasks |-> t[2]],
  Absent   <- NoRow,
  state    <- [t \in Tasks |-> IF Committed(t) THEN status[t] ELSE NoRow],
  reported <- {t \in Tasks : result[t] = "applied"}

(* Every step of the system is a step of the task life cycle, or none.      *)
ImplementsLifecycle == Lifecycle!Spec
=============================================================================
