----------------------------- MODULE ReportJobs -----------------------------
(***************************************************************************)
(* Asynchronous report publication: the web process enqueues a job         *)
(* (diagnostic_service.enqueue_report), worker processes claim jobs from   *)
(* the diagnostic_jobs table, generate the report (report_generator) and   *)
(* store it (report_worker).  A report of several servers also publishes   *)
(* one single-server report per server, as jobs of their own.  Requests    *)
(* and workers interleave between transactions; workers crash, are told to *)
(* stop and start again; any database call of a worker may fail, and a     *)
(* commit may succeed although its acknowledgement is lost.                *)
(*                                                                         *)
(* A job is the number of its row, in the order of created_at.  An input   *)
(* stands for (scope, input_hash, job_type).                               *)
(***************************************************************************)
EXTENDS Integers, FiniteSets

CONSTANTS
  Inputs,       \* the reports that may be asked for
  Children,     \* Children[i]: the reports of the servers of a selection, else {}
  Requests,     \* POST .../emit calls
  Workers,      \* worker processes (replicas)
  MaxAttempts,  \* _ENQUEUE_MAX_ATTEMPTS
  Stale,        \* report_worker_stale_seconds
  MaxJobs,      \* bound on the rows of the table
  MaxTime,      \* bound on the clock
  MaxFaults     \* bound on crashes, stops and failing database calls

ASSUME ReportAssumption ==
  /\ Children \in [Inputs -> SUBSET Inputs]
  /\ IsFiniteSet(Workers)
  /\ MaxAttempts \in Nat \ {0}
  /\ Stale \in Nat
  /\ MaxJobs \in Nat /\ MaxTime \in Nat /\ MaxFaults \in Nat

Jobs  == 1..MaxJobs
NoJob == 0
NoInput == "none"

VARIABLES
  now,      \* the clock
  faults,   \* faults so far
  \* the diagnostic_jobs table
  rows,     \* number of rows
  status,   \* status[j]; "free" is no row
  input,    \* input[j]: scope, input_hash, job_type
  started,  \* started[j]: started_at, -1 is NULL
  links,    \* links[j][i]: result.child_jobs, NoJob where there is none
  parent,   \* parent[j]: the job whose worker inserted the row, or NoJob
  claims,   \* claims[j]: how often the row was claimed (history)
  \* requests
  asks,     \* asks[r]: the report asked for
  rpc,      \* rpc[r]: where the request is
  tries,    \* tries[r]: attempts used up
  answer,   \* answer[r]: the job_id returned
  \* workers
  at,       \* at[w]: where the worker is
  job,      \* job[w]: the job in hand
  claimed,  \* claimed[w]: when it was claimed
  left,     \* left[w]: children not yet published
  child,    \* child[w]: the child whose insert found an active job
  link,     \* link[w]: child_jobs so far
  cause,    \* cause[w]: what raised the exception being handled
  stopping  \* stopping[w]: stop_event

vars == <<now, faults, rows, status, input, started, links, parent, claims,
          asks, rpc, tries, answer,
          at, job, claimed, left, child, link, cause, stopping>>

request == <<asks, rpc, tries, answer>>
insert  == <<rows, input, parent>>
row     == <<started, claims>>
worker  == <<at, job, claimed, left, child, link, cause, stopping>>

Terminal == {"succeeded", "failed"}
Active(i) == {j \in Jobs : input[j] = i /\ status[j] \in {"pending", "running"}}
NoLinks == [i \in Inputs |-> NoJob]
Holds(w, j) == job[w] = j /\ j # NoJob
Late(w) == now > claimed[w] + Stale

Idle == {"down", "starting", "idle"}
Busy == {"generate", "emit", "lookup", "select", "store", "fail"}

TableOK ==
  /\ rows \in 0..MaxJobs
  /\ status \in [Jobs -> {"free", "pending", "running"} \cup Terminal]
  /\ input \in [Jobs -> Inputs \cup {NoInput}]
  /\ started \in [Jobs -> -1..MaxTime]
  /\ links \in [Jobs -> [Inputs -> 0..MaxJobs]]
  /\ parent \in [Jobs -> 0..MaxJobs]
  /\ claims \in [Jobs -> Nat]

RequestOK ==
  /\ asks \in [Requests -> Inputs]
  /\ rpc \in [Requests -> {"insert", "select", "answered", "refused"}]
  /\ tries \in [Requests -> 0..MaxAttempts]
  /\ answer \in [Requests -> 0..MaxJobs]
  /\ \A r \in Requests : rpc[r] \in {"insert", "select"} => tries[r] < MaxAttempts

WorkerOK ==
  /\ at \in [Workers -> Idle \cup Busy]
  /\ job \in [Workers -> 0..MaxJobs]
  /\ claimed \in [Workers -> 0..MaxTime]
  /\ left \in [Workers -> SUBSET Inputs]
  /\ child \in [Workers -> Inputs \cup {NoInput}]
  /\ link \in [Workers -> [Inputs -> 0..MaxJobs]]
  /\ cause \in [Workers -> {"none", "generate", "emit", "select", "store"}]
  /\ stopping \in [Workers -> BOOLEAN]

(* Rows in use are filled in; a worker has a job in hand where it should.   *)
RowsOK == \A j \in Jobs :
  IF status[j] = "free" THEN j > rows ELSE j <= rows /\ input[j] \in Inputs

HandsOK == \A w \in Workers :
  /\ at[w] \in Idle <=> job[w] = NoJob
  /\ job[w] <= rows
  /\ at[w] = "lookup" => child[w] \in Inputs

TypeOK ==
  /\ now \in 0..MaxTime /\ faults \in 0..MaxFaults
  /\ TableOK /\ RequestOK /\ WorkerOK /\ RowsOK /\ HandsOK

Init ==
  /\ now = 0 /\ faults = 0 /\ rows = 0
  /\ status = [j \in Jobs |-> "free"]
  /\ input = [j \in Jobs |-> NoInput]
  /\ started = [j \in Jobs |-> -1]
  /\ links = [j \in Jobs |-> NoLinks]
  /\ parent = [j \in Jobs |-> NoJob]
  /\ claims = [j \in Jobs |-> 0]
  /\ asks \in [Requests -> Inputs]
  /\ rpc = [r \in Requests |-> "insert"]
  /\ tries = [r \in Requests |-> 0]
  /\ answer = [r \in Requests |-> NoJob]
  /\ at = [w \in Workers |-> "starting"]
  /\ job = [w \in Workers |-> NoJob]
  /\ claimed = [w \in Workers |-> 0]
  /\ left = [w \in Workers |-> {}]
  /\ child = [w \in Workers |-> NoInput]
  /\ link = [w \in Workers |-> NoLinks]
  /\ cause = [w \in Workers |-> "none"]
  /\ stopping = [w \in Workers |-> FALSE]

(***************************************************************************)
(* The repository: each operator is one statement, in the transaction of   *)
(* the action that uses it.                                                *)
(***************************************************************************)

(* A new row; the partial UNIQUE index refuses a second active one.  The    *)
(* insert of an uncommitted rival is waited for, so an insert and its       *)
(* commit are one step.                                                     *)
InsertRow(i, st, p) ==
  /\ rows < MaxJobs
  /\ rows' = rows + 1
  /\ status' = [status EXCEPT ![rows + 1] = st]
  /\ input' = [input EXCEPT ![rows + 1] = i]
  /\ parent' = [parent EXCEPT ![rows + 1] = p]

Mark(j, st) == status' = [status EXCEPT ![j] = st]

(* get_active_by_hash *)
ActiveJob(i) == IF Active(i) = {} THEN NoJob ELSE CHOOSE j \in Active(i) : TRUE

Fault == faults < MaxFaults /\ faults' = faults + 1

(***************************************************************************)
(* enqueue_report: insert, or join the active job of the same input.  A     *)
(* request may stop at any point (a database error is a 500).              *)
(***************************************************************************)

(* Mutant: the index is missing. *)
EnqueueWithoutIndex(r) ==
  /\ rpc[r] = "insert"
  /\ InsertRow(asks[r], "pending", NoJob)
  /\ answer' = [answer EXCEPT ![r] = rows + 1]
  /\ rpc' = [rpc EXCEPT ![r] = "answered"]
  /\ UNCHANGED <<now, faults, row, links, asks, tries, worker>>

(* INSERT ... ON CONFLICT DO NOTHING, and commit if it took. *)
EnqueueInsert(r) ==
  /\ rpc[r] = "insert"
  /\ IF Active(asks[r]) = {}
     THEN /\ InsertRow(asks[r], "pending", NoJob)
          /\ answer' = [answer EXCEPT ![r] = rows + 1]
          /\ rpc' = [rpc EXCEPT ![r] = "answered"]
     ELSE /\ rpc' = [rpc EXCEPT ![r] = "select"]
          /\ UNCHANGED <<insert, status, answer>>
  /\ UNCHANGED <<now, faults, row, links, asks, tries, worker>>

(* Mutant: no second attempt. *)
EnqueueSelectOnce(r) ==
  /\ rpc[r] = "select"
  /\ answer' = [answer EXCEPT ![r] = ActiveJob(asks[r])]
  /\ rpc' = [rpc EXCEPT ![r] = IF Active(asks[r]) # {} THEN "answered" ELSE "refused"]
  /\ UNCHANGED <<now, faults, insert, status, row, links, asks, tries, worker>>

(* The row in the way is looked up; if it has ended since, try again, and   *)
(* give up (ReportEnqueueError) when the attempts are used up.              *)
EnqueueSelect(r) ==
  /\ rpc[r] = "select"
  /\ IF Active(asks[r]) # {}
     THEN /\ answer' = [answer EXCEPT ![r] = ActiveJob(asks[r])]
          /\ rpc' = [rpc EXCEPT ![r] = "answered"]
          /\ UNCHANGED tries
     ELSE /\ tries' = [tries EXCEPT ![r] = @ + 1]
          /\ rpc' = [rpc EXCEPT ![r] =
                       IF tries[r] + 1 < MaxAttempts THEN "insert" ELSE "refused"]
          /\ UNCHANGED answer
  /\ UNCHANGED <<now, faults, insert, status, row, links, asks, worker>>

(***************************************************************************)
(* The worker process (worker/main, run_report_worker, _process_one).      *)
(***************************************************************************)
Goto(w, place) == at' = [at EXCEPT ![w] = place]

(* The job leaves the worker's hands; the worker goes on at the place.      *)
Release(w, place) ==
  /\ Goto(w, place)
  /\ job' = [job EXCEPT ![w] = NoJob]
  /\ claimed' = [claimed EXCEPT ![w] = 0]
  /\ left' = [left EXCEPT ![w] = {}]
  /\ child' = [child EXCEPT ![w] = NoInput]
  /\ link' = [link EXCEPT ![w] = NoLinks]
  /\ cause' = [cause EXCEPT ![w] = "none"]

Start(w) ==
  /\ at[w] = "down"
  /\ Goto(w, "starting")
  /\ UNCHANGED <<now, faults, insert, status, row, links, request,
                 job, claimed, left, child, link, cause, stopping>>

(* Mutant: old rows, whatever their status. *)
OldRows == {j \in Jobs : started[j] >= 0 /\ started[j] < now - Stale}

StaleRows == {j \in Jobs : status[j] = "running" /\ started[j] < now - Stale}

(* Mutant: everything running is taken for abandoned. *)
RecoverAllRunning(w) ==
  LET S == {j \in Jobs : status[j] = "running"}
  IN  /\ at[w] = "starting"
      /\ Goto(w, "idle")
      /\ status' = [j \in Jobs |-> IF j \in S THEN "pending" ELSE status[j]]
      /\ started' = [j \in Jobs |-> IF j \in S THEN -1 ELSE started[j]]
      /\ UNCHANGED <<now, faults, insert, claims, links, request,
                     job, claimed, left, child, link, cause, stopping>>

(* recover_stale, once per start. *)
RecoverStale(w) ==
  /\ at[w] = "starting"
  /\ Goto(w, "idle")
  /\ status' = [j \in Jobs |-> IF j \in StaleRows THEN "pending" ELSE status[j]]
  /\ started' = [j \in Jobs |-> IF j \in StaleRows THEN -1 ELSE started[j]]
  /\ UNCHANGED <<now, faults, insert, claims, links, request,
                 job, claimed, left, child, link, cause, stopping>>

(* Its failure is logged and the loop entered all the same. *)
RecoverFails(w) ==
  /\ at[w] = "starting" /\ Fault
  /\ Goto(w, "idle")
  /\ UNCHANGED <<now, insert, status, row, links, request,
                 job, claimed, left, child, link, cause, stopping>>

(* ORDER BY created_at ... SKIP LOCKED LIMIT 1: the oldest pending row but   *)
(* for those locked by the claims of other workers, which may yet commit or  *)
(* roll back.                                                                *)
IsNext(w, j) ==
  /\ status[j] = "pending"
  /\ Cardinality({k \in Jobs : k < j /\ status[k] = "pending"})
       <= Cardinality({v \in Workers \ {w} : at[v] = "idle"})

SetRunning(j) ==
  /\ Mark(j, "running")
  /\ started' = [started EXCEPT ![j] = now]
  /\ claims' = [claims EXCEPT ![j] = @ + 1]

Claim(w, j) ==
  /\ at[w] = "idle" /\ ~stopping[w]
  /\ IsNext(w, j)
  /\ SetRunning(j)
  /\ Goto(w, "generate")
  /\ job' = [job EXCEPT ![w] = j]
  /\ claimed' = [claimed EXCEPT ![w] = now]
  /\ UNCHANGED <<now, faults, insert, links, request, left, child, link, cause, stopping>>

(* The claim is committed but the answer lost: the loop polls again. *)
ClaimUnseen(w, j) ==
  /\ at[w] = "idle" /\ ~stopping[w] /\ Fault
  /\ IsNext(w, j)
  /\ SetRunning(j)
  /\ UNCHANGED <<now, insert, links, request, worker>>

Raise(w, what) ==
  /\ Goto(w, "fail")
  /\ cause' = [cause EXCEPT ![w] = what]
  /\ UNCHANGED <<now, job, claimed, left, child, link, stopping>>

(* build_report_result_for_job: the report of the environment, of one       *)
(* server, or of a selection of which only one server is known.             *)
Generate(w) ==
  /\ at[w] = "generate"
  /\ Goto(w, "store")
  /\ UNCHANGED <<now, faults, insert, status, row, links, request,
                 job, claimed, left, child, link, cause, stopping>>

(* A selection of several known servers: the contents of its children are    *)
(* all built before the first is published; those without data are skipped. *)
GenerateChildren(w, built) ==
  /\ at[w] = "generate"
  /\ Children[input[job[w]]] # {} /\ built \subseteq Children[input[job[w]]]
  /\ left' = [left EXCEPT ![w] = built]
  /\ Goto(w, IF built = {} THEN "select" ELSE "emit")
  /\ UNCHANGED <<now, faults, insert, status, row, links, request,
                 job, claimed, child, link, cause, stopping>>

(* ReportGenerationError (nothing to report on) or any other exception. *)
GenerateFails(w) ==
  /\ at[w] = "generate"
  /\ Raise(w, "generate")
  /\ UNCHANGED <<faults, insert, status, row, links, request>>

NextChild(w, c, j) ==
  /\ left' = [left EXCEPT ![w] = @ \ {c}]
  /\ link' = [link EXCEPT ![w][c] = j]
  /\ Goto(w, IF left[w] = {c} THEN "select" ELSE "emit")

(* Mutant: the row of a child is left to the workers. *)
EmitPending(w, c) ==
  /\ at[w] = "emit" /\ c \in left[w]
  /\ IF Active(c) = {}
     THEN /\ InsertRow(c, "pending", job[w])
          /\ NextChild(w, c, rows + 1)
          /\ UNCHANGED child
     ELSE /\ Goto(w, "lookup")
          /\ child' = [child EXCEPT ![w] = c]
          /\ UNCHANGED <<insert, status, left, link>>
  /\ UNCHANGED <<now, faults, row, links, request, job, claimed, cause, stopping>>

(* emit_report: insert the finished report of one server as succeeded, in   *)
(* one transaction; an active job of the same input is in the way if an     *)
(* operator asked for that report in the same minute.                       *)
EmitChild(w, c) ==
  /\ at[w] = "emit" /\ c \in left[w]
  /\ IF Active(c) = {}
     THEN /\ InsertRow(c, "succeeded", job[w])
          /\ NextChild(w, c, rows + 1)
          /\ UNCHANGED child
     ELSE /\ Goto(w, "lookup")
          /\ child' = [child EXCEPT ![w] = c]
          /\ UNCHANGED <<insert, status, left, link>>
  /\ UNCHANGED <<now, faults, row, links, request, job, claimed, cause, stopping>>

(* get_active_by_hash, then rollback: the child is linked to that job, or   *)
(* to none if it has ended meanwhile.                                       *)
EmitLookup(w) ==
  /\ at[w] = "lookup"
  /\ NextChild(w, child[w], ActiveJob(child[w]))
  /\ child' = [child EXCEPT ![w] = NoInput]
  /\ UNCHANGED <<now, faults, insert, status, row, links, request,
                 job, claimed, cause, stopping>>

(* The row is committed but its acknowledgement lost: the generation fails. *)
EmitUnseen(w, c) ==
  /\ at[w] = "emit" /\ c \in left[w] /\ Fault
  /\ Active(c) = {}
  /\ InsertRow(c, "succeeded", job[w])
  /\ Raise(w, "emit")
  /\ UNCHANGED <<row, links, request>>

EmitFails(w) ==
  /\ at[w] \in {"emit", "lookup"}
  /\ Raise(w, "emit")
  /\ UNCHANGED <<faults, insert, status, row, links, request>>

(* get_selection_report: the body of a selection, after its children. *)
Select(w) ==
  /\ at[w] = "select"
  /\ Goto(w, "store")
  /\ UNCHANGED <<now, faults, insert, status, row, links, request,
                 job, claimed, left, child, link, cause, stopping>>

SelectFails(w) ==
  /\ at[w] = "select"
  /\ Raise(w, "select")
  /\ UNCHANGED <<faults, insert, status, row, links, request>>

SetSucceeded(w) ==
  /\ Mark(job[w], "succeeded")
  /\ links' = [links EXCEPT ![job[w]] = link[w]]

(* finish_succeeded: UPDATE by id, whatever the status. *)
Store(w) ==
  /\ at[w] = "store"
  /\ SetSucceeded(w)
  /\ Release(w, "idle")
  /\ UNCHANGED <<now, faults, insert, row, request, stopping>>

(* It raises, committed or not: _process_one goes on to finish_failed. *)
StoreFails(w) ==
  /\ at[w] = "store" /\ Fault
  /\ SetSucceeded(w) \/ UNCHANGED <<status, links>>
  /\ Raise(w, "store")
  /\ UNCHANGED <<insert, row, request>>

(* finish_failed: UPDATE by id, whatever the status. *)
Fail(w) ==
  /\ at[w] = "fail"
  /\ Mark(job[w], "failed")
  /\ Release(w, "idle")
  /\ UNCHANGED <<now, faults, insert, row, links, request, stopping>>

(* Mutant: the exception leaves the loop. *)
FailKillsLoop(w) ==
  /\ at[w] = "fail" /\ Fault
  /\ Release(w, "dead")
  /\ UNCHANGED <<now, insert, status, row, links, request, stopping>>

(* It raises too: the loop logs it and goes on, the row stays running. *)
FailFails(w) ==
  /\ at[w] = "fail" /\ Fault
  /\ Release(w, "idle")
  /\ UNCHANGED <<now, insert, status, row, links, request, stopping>>

(* SIGTERM.  An idle worker leaves its loop; one with a job in hand may     *)
(* finish it within the shutdown timeout, and is cancelled after that       *)
(* without a word to the database.                                          *)
Terminate(w) ==
  /\ at[w] # "down" /\ ~stopping[w] /\ Fault
  /\ stopping' = [stopping EXCEPT ![w] = TRUE]
  /\ UNCHANGED <<now, insert, status, row, links, request,
                 at, job, claimed, left, child, link, cause>>

Exit(w) ==
  /\ stopping[w] /\ at[w] = "idle"
  /\ Goto(w, "down")
  /\ stopping' = [stopping EXCEPT ![w] = FALSE]
  /\ UNCHANGED <<now, faults, insert, status, row, links, request,
                 job, claimed, left, child, link, cause>>

DrainTimeout(w) ==
  /\ stopping[w] /\ at[w] \in Busy
  /\ Release(w, "down")
  /\ stopping' = [stopping EXCEPT ![w] = FALSE]
  /\ UNCHANGED <<now, faults, insert, status, row, links, request>>

Crash(w) ==
  /\ at[w] # "down" /\ Fault
  /\ Release(w, "down")
  /\ stopping' = [stopping EXCEPT ![w] = FALSE]
  /\ UNCHANGED <<now, insert, status, row, links, request>>

Tick ==
  /\ now < MaxTime
  /\ now' = now + 1
  /\ UNCHANGED <<faults, insert, status, row, links, request, worker>>

(* What a running worker does by itself. *)
WorkerStep(w) ==
  \/ Start(w) \/ RecoverStale(w) \/ RecoverFails(w)
  \/ \E j \in Jobs : Claim(w, j) \/ ClaimUnseen(w, j)
  \/ Generate(w) \/ GenerateFails(w)
  \/ \E built \in SUBSET Inputs : GenerateChildren(w, built)
  \/ \E c \in Inputs : EmitChild(w, c) \/ EmitUnseen(w, c)
  \/ EmitLookup(w) \/ EmitFails(w)
  \/ Select(w) \/ SelectFails(w) \/ Store(w) \/ StoreFails(w)
  \/ Fail(w) \/ FailFails(w) \/ Exit(w) \/ DrainTimeout(w)

Next ==
  \/ \E r \in Requests : EnqueueInsert(r) \/ EnqueueSelect(r)
  \/ \E w \in Workers : WorkerStep(w) \/ Terminate(w) \/ Crash(w)
  \/ Tick

(* A worker's loop runs on and its container is restarted                   *)
(* (restart: unless-stopped); requests and time owe nothing.                *)
Spec == Init /\ [][Next]_vars /\ \A w \in Workers : WF_vars(WorkerStep(w))

-----------------------------------------------------------------------------
(* uq_diagnostic_jobs_active_per_input: a double click, a selection that    *)
(* publishes the same single report, and a stale job put back in the queue  *)
(* never make two active jobs of one input.                                 *)
OneActivePerInput == \A j, k \in Jobs :
  /\ status[j] \in {"pending", "running"} /\ status[k] \in {"pending", "running"}
  /\ input[j] = input[k]
  => j = k

(* Several replicas: two workers have the same job in hand only if one of   *)
(* them claimed it more than report_worker_stale_seconds ago.               *)
SharedOnlyWhenLate == \A v, w \in Workers :
  v # w /\ job[v] = job[w] /\ job[v] # NoJob => Late(v) \/ Late(w)

(* A report said to be ready (or failed) does not go back to the queue, and *)
(* its verdict changes only if the row was claimed twice or the worker lost *)
(* the acknowledgement of its own finish_succeeded.                         *)
VerdictStands == [][\A j \in Jobs : status[j] \in Terminal =>
                      /\ status'[j] \in Terminal
                      /\ \/ status'[j] = status[j]
                         \/ claims[j] > 1
                         \/ \E w \in Workers : Holds(w, j) /\ cause[w] = "store"]_vars

(* The enqueue gives up only when that many jobs of the input ended under   *)
(* its hands.                                                               *)
RefusedOnlyIfOvertaken == \A r \in Requests :
  rpc[r] = "refused" =>
    Cardinality({j \in Jobs : input[j] = asks[r] /\ status[j] \in Terminal}) >= MaxAttempts

(* The links of a selection lead to reports of the right server, and to one *)
(* that is not ready only if an operator had asked for that one.            *)
LinksAreReports == \A j \in Jobs, c \in Inputs :
  status[j] = "succeeded" /\ links[j][c] # NoJob =>
    LET k == links[j][c]
    IN  /\ c \in Children[input[j]]
        /\ input[k] = c
        /\ status[k] # "succeeded" => parent[k] = NoJob

Stranded(j) == status[j] = "running" /\ \A w \in Workers : ~Holds(w, j)

(* A job in the queue ends, unless a fault takes it from its worker.        *)
EveryJobEnds == \A j \in Jobs :
  status[j] = "pending" ~> status[j] \in Terminal \/ Stranded(j)

(* The table implements JobLifecycle: the stages of the workers, the clock   *)
(* and the requests are not seen, only who has which row in hand.            *)
Unsure == {w \in Workers : cause[w] = "store"}

Lifecycle == INSTANCE JobLifecycle WITH turns <- claims, hand <- job, unsure <- Unsure

ImplementsLifecycle == Lifecycle!Spec
=============================================================================
