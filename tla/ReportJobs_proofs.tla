-------------------------- MODULE ReportJobs_proofs --------------------------
(***************************************************************************)
(* Proofs for ReportJobs: the types, one active job per input, when two    *)
(* workers may share a job, when a verdict may change, where the links of  *)
(* a selection lead, when an enqueue gives up, and the refinement of       *)
(* JobLifecycle.                                                           *)
(***************************************************************************)
EXTENDS ReportJobs, FiniteSetTheorems, TLAPS

(* Steps that leave the table and the requests alone. *)
Quiet ==
  /\ now' = now /\ faults' \in 0..MaxFaults
  /\ UNCHANGED <<insert, status, row, links, request>>

(* Types of the requests and the table, when they do not change. *)
LEMMA QuietType ==
  ASSUME TypeOK, Quiet
  PROVE  now' \in 0..MaxTime /\ faults' \in 0..MaxFaults /\ TableOK' /\ RequestOK' /\ RowsOK'
<1>1. TableOK' /\ RowsOK'
  BY DEF TypeOK, Quiet, TableOK, RowsOK, Jobs, insert, row
<1>2. RequestOK'
  BY DEF TypeOK, Quiet, RequestOK, request
<1> QED
  BY <1>1, <1>2 DEF TypeOK, Quiet

(* A counted fault stays within its bound. *)
LEMMA FaultType == ASSUME TypeOK, Fault PROVE faults' \in 0..MaxFaults
BY ReportAssumption DEF TypeOK, Fault

(* A worker that moves on with its job, its hands unchanged. *)
LEMMA GotoType ==
  ASSUME TypeOK, NEW w \in Workers, NEW p \in Idle \cup Busy, Goto(w, p),
         rows' \in Nat, rows <= rows',
         at[w] \in Idle <=> p \in Idle, p # "lookup",
         cause' \in [Workers -> {"none", "generate", "emit", "select", "store"}],
         UNCHANGED <<job, claimed, left, child, link, stopping>>
  PROVE  WorkerOK' /\ HandsOK'
<1>1. WorkerOK'
  BY DEF TypeOK, WorkerOK, Goto
<1>2. HandsOK'
  BY DEF TypeOK, TableOK, WorkerOK, HandsOK, Goto, Idle, Busy
<1> QED
  BY <1>1, <1>2

(* A worker that lets go of its job. *)
LEMMA ReleaseType ==
  ASSUME TypeOK, NEW w \in Workers, NEW p \in Idle, Release(w, p), rows' = rows,
         stopping' \in [Workers -> BOOLEAN]
  PROVE  WorkerOK' /\ HandsOK'
<1> USE ReportAssumption
<1>1. NoLinks \in [Inputs -> 0..MaxJobs]
  BY DEF NoLinks, NoJob
<1>2. WorkerOK'
  <2>1. link' \in [Workers -> [Inputs -> 0..MaxJobs]]
    BY <1>1 DEF TypeOK, WorkerOK, Release
  <2>2. left' \in [Workers -> SUBSET Inputs]
    BY DEF TypeOK, WorkerOK, Release
  <2>3. /\ job' \in [Workers -> 0..MaxJobs]
        /\ claimed' \in [Workers -> 0..MaxTime]
    BY DEF TypeOK, WorkerOK, Release, NoJob
  <2>4. /\ at' \in [Workers -> Idle \cup Busy]
        /\ child' \in [Workers -> Inputs \cup {NoInput}]
        /\ cause' \in [Workers -> {"none", "generate", "emit", "select", "store"}]
    BY DEF TypeOK, WorkerOK, Release, Goto
  <2> QED
    BY <2>1, <2>2, <2>3, <2>4 DEF WorkerOK
<1>3. HandsOK'
  BY DEF TypeOK, TableOK, WorkerOK, HandsOK, Release, Goto, Idle, Busy, NoJob
<1> QED
  BY <1>2, <1>3

(* A worker that raises an exception. *)
LEMMA RaiseType ==
  ASSUME TypeOK, NEW w \in Workers, at[w] \in Busy,
         NEW x \in {"generate", "emit", "select", "store"}, Raise(w, x),
         rows' \in Nat, rows <= rows'
  PROVE  WorkerOK' /\ HandsOK'
<1>1. cause' \in [Workers -> {"none", "generate", "emit", "select", "store"}]
  BY DEF TypeOK, WorkerOK, Raise
<1>2. at[w] \notin Idle /\ "fail" \notin Idle /\ "fail" \in Idle \cup Busy
  BY DEF Idle, Busy
<1> QED
  BY <1>1, <1>2, GotoType DEF Raise

(* A row that is inserted, or marked running, is one of the table. *)
LEMMA InsertType ==
  ASSUME TypeOK, NEW i \in Inputs, NEW st \in {"pending", "succeeded"}, NEW p \in 0..MaxJobs,
         InsertRow(i, st, p), UNCHANGED <<row, links>>
  PROVE  TableOK' /\ RowsOK'
<1>1. rows \in Nat /\ rows + 1 \in Jobs /\ rows' = rows + 1 /\ rows' \in 0..MaxJobs
  BY ReportAssumption DEF TypeOK, TableOK, InsertRow, Jobs
<1>2. /\ status' \in [Jobs -> {"free", "pending", "running"} \cup Terminal]
      /\ input' \in [Jobs -> Inputs \cup {NoInput}]
      /\ parent' \in [Jobs -> 0..MaxJobs]
  BY <1>1 DEF TypeOK, TableOK, InsertRow, Terminal
<1>3. TableOK'
  BY <1>1, <1>2 DEF TypeOK, TableOK, row
<1>4. \A j \in Jobs : /\ status'[j] = IF j = rows + 1 THEN st ELSE status[j]
                      /\ input'[j] = IF j = rows + 1 THEN i ELSE input[j]
  BY <1>1 DEF TypeOK, TableOK, InsertRow
<1>5. RowsOK'
  BY <1>1, <1>4 DEF TypeOK, RowsOK, Jobs
<1> QED
  BY <1>3, <1>5

(* Types of the table when a row is claimed. *)
LEMMA RunningType ==
  ASSUME TypeOK, NEW w, NEW j \in Jobs, IsNext(w, j), SetRunning(j), UNCHANGED <<insert, links>>
  PROVE  TableOK' /\ RowsOK'
<1> USE ReportAssumption
<1>1. \A k \in Jobs : status'[k] = IF k = j THEN "running" ELSE status[k]
  BY DEF TypeOK, TableOK, SetRunning, Mark
<1>2. /\ status' \in [Jobs -> {"free", "pending", "running"} \cup Terminal]
      /\ started' \in [Jobs -> -1..MaxTime]
      /\ claims' \in [Jobs -> Nat]
  BY DEF TypeOK, TableOK, SetRunning, Mark
<1>3. TableOK'
  BY <1>2 DEF TypeOK, TableOK, insert
<1>4. RowsOK'
  BY <1>1 DEF TypeOK, RowsOK, IsNext, insert
<1> QED
  BY <1>3, <1>4

(* Every step keeps the types. *)
LEMMA TypeStep == TypeOK /\ [Next]_vars => TypeOK'
<1> SUFFICES ASSUME TypeOK, [Next]_vars PROVE TypeOK'
  OBVIOUS
<1> USE ReportAssumption
<1>0. /\ "down" \in Idle /\ "starting" \in Idle /\ "idle" \in Idle
      /\ Busy \cap Idle = {}
      /\ \A p \in {"generate", "emit", "lookup", "select", "store", "fail"} : p \in Busy
      /\ rows \in Nat /\ rows <= rows
  BY DEF Idle, Busy, TypeOK, TableOK
<1>1. ASSUME NEW r \in Requests, EnqueueInsert(r) PROVE TypeOK'
  <2>1. CASE Active(asks[r]) = {}
    <3>1. TableOK' /\ RowsOK'
      BY <1>1, <2>1, InsertType DEF EnqueueInsert, TypeOK, RequestOK, NoJob
    <3>2. RequestOK'
      <4>1. rows + 1 \in 0..MaxJobs
        BY <1>1, <2>1 DEF EnqueueInsert, InsertRow, TypeOK, TableOK
      <4> QED
        BY <1>1, <2>1, <4>1 DEF EnqueueInsert, TypeOK, RequestOK
    <3>3. WorkerOK' /\ HandsOK'
      BY <1>1, <2>1 DEF EnqueueInsert, InsertRow, TypeOK, TableOK, WorkerOK, HandsOK, worker
    <3> QED
      BY <1>1, <3>1, <3>2, <3>3 DEF TypeOK, EnqueueInsert
  <2>2. CASE Active(asks[r]) # {}
    <3>1. TableOK' /\ RowsOK'
      BY <1>1, <2>2 DEF EnqueueInsert, TypeOK, TableOK, RowsOK, Jobs, row, insert
    <3>2. RequestOK'
      BY <1>1, <2>2 DEF EnqueueInsert, TypeOK, RequestOK
    <3>3. WorkerOK' /\ HandsOK'
      BY <1>1, <2>2 DEF EnqueueInsert, TypeOK, WorkerOK, HandsOK, worker, insert
    <3> QED
      BY <1>1, <3>1, <3>2, <3>3 DEF TypeOK, EnqueueInsert
  <2> QED
    BY <2>1, <2>2
<1>2. ASSUME NEW r \in Requests, EnqueueSelect(r) PROVE TypeOK'
  <2>1. ActiveJob(asks[r]) \in 0..MaxJobs
    BY DEF ActiveJob, Active, Jobs, NoJob
  <2>2. RequestOK'
    BY <1>2, <2>1 DEF EnqueueSelect, TypeOK, RequestOK
  <2>3. TableOK' /\ RowsOK'
    BY <1>2 DEF EnqueueSelect, TypeOK, TableOK, RowsOK, Jobs, row, insert
  <2>4. WorkerOK' /\ HandsOK'
    BY <1>2 DEF EnqueueSelect, TypeOK, WorkerOK, HandsOK, worker, insert
  <2> QED
    BY <1>2, <2>2, <2>3, <2>4 DEF TypeOK, EnqueueSelect
<1>3. ASSUME NEW w \in Workers, NEW j \in Jobs, Claim(w, j) PROVE TypeOK'
  <2>1. TableOK' /\ RowsOK'
    BY <1>3, RunningType DEF Claim
  <2>2. RequestOK'
    BY <1>3 DEF Claim, TypeOK, RequestOK, request
  <2>3. j <= rows /\ input[j] \in Inputs /\ j # NoJob /\ j \in 0..MaxJobs
    BY <1>3 DEF Claim, IsNext, TypeOK, RowsOK, Jobs, NoJob
  <2>5. WorkerOK'
    BY <1>0, <1>3, <2>3 DEF Claim, Goto, TypeOK, WorkerOK
  <2>6. HandsOK'
    BY <1>0, <1>3, <2>3 DEF Claim, Goto, TypeOK, WorkerOK, HandsOK, insert, Busy, Idle
  <2> QED
    BY <1>3, <2>1, <2>2, <2>5, <2>6 DEF TypeOK, Claim
<1>4. ASSUME NEW w \in Workers, NEW j \in Jobs, ClaimUnseen(w, j) PROVE TypeOK'
  <2>1. TableOK' /\ RowsOK'
    BY <1>4, RunningType DEF ClaimUnseen
  <2>2. RequestOK' /\ WorkerOK' /\ HandsOK'
    BY <1>4 DEF ClaimUnseen, TypeOK, RequestOK, WorkerOK, HandsOK, request, worker, insert
  <2> QED
    BY <1>4, <2>1, <2>2, FaultType DEF TypeOK, ClaimUnseen
<1>5. ASSUME NEW w \in Workers, RecoverStale(w) PROVE TypeOK'
  <2>1. TableOK' /\ RowsOK'
    BY <1>5 DEF RecoverStale, StaleRows, TypeOK, TableOK, RowsOK, Jobs, insert
  <2>2. WorkerOK' /\ HandsOK'
    BY <1>0, <1>5, GotoType DEF RecoverStale, TypeOK, WorkerOK, insert
  <2>3. RequestOK'
    BY <1>5 DEF RecoverStale, TypeOK, RequestOK, request
  <2> QED
    BY <1>5, <2>1, <2>2, <2>3 DEF TypeOK, RecoverStale
<1>6. ASSUME NEW w \in Workers, Start(w) \/ RecoverFails(w) \/ Generate(w) \/ Select(w)
      PROVE  TypeOK'
  <2>1. Quiet
    BY <1>6, FaultType DEF Start, RecoverFails, Generate, Select, Quiet, TypeOK
  <2>2. WorkerOK' /\ HandsOK'
    BY <1>0, <1>6, GotoType DEF Start, RecoverFails, Generate, Select, TypeOK, WorkerOK, insert
  <2> QED
    BY <2>1, <2>2, QuietType DEF TypeOK
<1>b. ASSUME NEW w \in Workers, NEW built \in SUBSET Inputs, GenerateChildren(w, built)
      PROVE  TypeOK'
  <2>1. Quiet
    BY <1>b DEF GenerateChildren, Quiet, TypeOK
  <2>2. WorkerOK'
    BY <1>0, <1>b DEF GenerateChildren, Goto, TypeOK, WorkerOK
  <2>3. HandsOK'
    BY <1>b DEF GenerateChildren, Goto, TypeOK, WorkerOK, HandsOK, insert, Idle, Busy
  <2> QED
    BY <2>1, <2>2, <2>3, QuietType DEF TypeOK
<1>7. ASSUME NEW w \in Workers, GenerateFails(w) \/ EmitFails(w) \/ SelectFails(w)
      PROVE  TypeOK'
  <2>1. Quiet
    BY <1>7 DEF GenerateFails, EmitFails, SelectFails, Raise, Quiet, TypeOK
  <2>2. WorkerOK' /\ HandsOK'
    BY <1>0, <1>7, RaiseType DEF GenerateFails, EmitFails, SelectFails, insert
  <2> QED
    BY <2>1, <2>2, QuietType DEF TypeOK
<1>c. ASSUME NEW w \in Workers, NEW c \in Inputs, EmitUnseen(w, c) PROVE TypeOK'
  <2>1. TableOK' /\ RowsOK'
    BY <1>c, InsertType DEF EmitUnseen, TypeOK, WorkerOK
  <2>2. at[w] \in Busy /\ rows' \in Nat /\ rows <= rows'
    BY <1>0, <1>c DEF EmitUnseen, InsertRow, TypeOK, TableOK
  <2>3. WorkerOK' /\ HandsOK'
    BY <1>c, <2>2, RaiseType DEF EmitUnseen
  <2>4. RequestOK' /\ faults' \in 0..MaxFaults /\ now' = now
    BY <1>c, FaultType DEF EmitUnseen, Raise, TypeOK, RequestOK, request
  <2> QED
    BY <2>1, <2>3, <2>4 DEF TypeOK
<1>8. ASSUME NEW w \in Workers, NEW c \in Inputs, NEW j \in 0..MaxJobs, NextChild(w, c, j),
             at[w] \in Busy, rows' \in Nat, rows <= rows',
             child' \in [Workers -> Inputs \cup {NoInput}],
             \A u \in Workers : u # w => child'[u] = child[u],
             UNCHANGED <<job, claimed, cause, stopping>>
      PROVE  WorkerOK' /\ HandsOK'
  <2>1. link' \in [Workers -> [Inputs -> 0..MaxJobs]]
    BY <1>8 DEF NextChild, TypeOK, WorkerOK
  <2>2. left' \in [Workers -> SUBSET Inputs]
    BY <1>8 DEF NextChild, TypeOK, WorkerOK
  <2>3. at' \in [Workers -> Idle \cup Busy]
    BY <1>0, <1>8 DEF NextChild, Goto, TypeOK, WorkerOK
  <2>4. WorkerOK'
    BY <1>8, <2>1, <2>2, <2>3 DEF TypeOK, WorkerOK
  <2>5. HandsOK'
    BY <1>8 DEF NextChild, Goto, TypeOK, TableOK, WorkerOK, HandsOK, Idle, Busy
  <2> QED
    BY <2>4, <2>5
<1>9. ASSUME NEW w \in Workers, NEW c \in Inputs, EmitChild(w, c) PROVE TypeOK'
  <2>1. CASE Active(c) = {}
    <3>1. TableOK' /\ RowsOK'
      BY <1>9, <2>1, InsertType DEF EmitChild, TypeOK, WorkerOK
    <3>2. /\ rows + 1 \in 0..MaxJobs /\ rows' \in Nat /\ rows <= rows'
          /\ at[w] \in Busy
          /\ child' \in [Workers -> Inputs \cup {NoInput}]
          /\ \A u \in Workers : u # w => child'[u] = child[u]
      BY <1>0, <1>9, <2>1 DEF EmitChild, InsertRow, TypeOK, TableOK, WorkerOK
    <3>3. WorkerOK' /\ HandsOK'
      BY <1>8, <1>9, <2>1, <3>2 DEF EmitChild
    <3>4. RequestOK'
      BY <1>9 DEF EmitChild, TypeOK, RequestOK, request
    <3> QED
      BY <1>9, <3>1, <3>3, <3>4 DEF TypeOK, EmitChild
  <2>2. CASE Active(c) # {}
    <3>1. TableOK' /\ RowsOK'
      BY <1>9, <2>2 DEF EmitChild, TypeOK, TableOK, RowsOK, Jobs, row, insert
    <3>2. WorkerOK'
      <4>1. at' \in [Workers -> Idle \cup Busy]
        BY <1>0, <1>9, <2>2 DEF EmitChild, Goto, TypeOK, WorkerOK
      <4>2. child' = [child EXCEPT ![w] = c]
        BY <1>9, <2>2 DEF EmitChild
      <4>3. child' \in [Workers -> Inputs \cup {NoInput}]
        BY <4>2 DEF TypeOK, WorkerOK
      <4> QED
        BY <1>9, <2>2, <4>1, <4>3 DEF EmitChild, TypeOK, WorkerOK
    <3>3. HandsOK'
      BY <1>9, <2>2 DEF EmitChild, Goto, TypeOK, WorkerOK, HandsOK, insert, Idle, Busy
    <3>4. RequestOK'
      BY <1>9 DEF EmitChild, TypeOK, RequestOK, request
    <3> QED
      BY <1>9, <3>1, <3>2, <3>3, <3>4 DEF TypeOK, EmitChild
  <2> QED
    BY <2>1, <2>2
<1>10. ASSUME NEW w \in Workers, EmitLookup(w) PROVE TypeOK'
  <2>1. Quiet
    BY <1>10 DEF EmitLookup, Quiet, TypeOK
  <2>2. /\ child[w] \in Inputs /\ ActiveJob(child[w]) \in 0..MaxJobs
        /\ at[w] \in Busy /\ rows' \in Nat /\ rows <= rows'
        /\ child' \in [Workers -> Inputs \cup {NoInput}]
        /\ \A u \in Workers : u # w => child'[u] = child[u]
    BY <1>0, <1>10 DEF EmitLookup, TypeOK, WorkerOK, HandsOK, ActiveJob, Active, Jobs, NoJob, insert
  <2>3. WorkerOK' /\ HandsOK'
    BY <1>8, <1>10, <2>2 DEF EmitLookup
  <2> QED
    BY <2>1, <2>3, QuietType DEF TypeOK
<1>11. ASSUME NEW w \in Workers, at[w] \in Busy,
              \/ SetSucceeded(w)
              \/ Mark(job[w], "failed") /\ UNCHANGED links
              \/ UNCHANGED <<status, links>>,
              UNCHANGED <<insert, row>>
       PROVE  TableOK' /\ RowsOK'
  <2>1. job[w] \in Jobs /\ job[w] <= rows
    BY <1>0, <1>11 DEF TypeOK, WorkerOK, HandsOK, Jobs, NoJob
  <2>2. status[job[w]] # "free" /\ input[job[w]] \in Inputs
    BY <2>1 DEF TypeOK, TableOK, RowsOK, Jobs
  <2>3. link[w] \in [Inputs -> 0..MaxJobs]
    BY DEF TypeOK, WorkerOK
  <2>4. links' \in [Jobs -> [Inputs -> 0..MaxJobs]]
    BY <1>11, <2>1, <2>3 DEF SetSucceeded, TypeOK, TableOK
  <2>5. TableOK'
    BY <1>11, <2>1, <2>4 DEF SetSucceeded, Mark, TypeOK, TableOK, Terminal, insert, row
  <2>6. RowsOK'
    BY <1>11, <2>1, <2>2 DEF SetSucceeded, Mark, TypeOK, TableOK, RowsOK, insert
  <2> QED
    BY <2>5, <2>6
<1>12. ASSUME NEW w \in Workers, Store(w) \/ Fail(w) PROVE TypeOK'
  <2>1. TableOK' /\ RowsOK'
    BY <1>0, <1>11, <1>12 DEF Store, Fail
  <2>2. WorkerOK' /\ HandsOK'
    BY <1>0, <1>12, ReleaseType DEF Store, Fail, TypeOK, WorkerOK, insert
  <2>3. RequestOK'
    BY <1>12 DEF Store, Fail, TypeOK, RequestOK, request
  <2> QED
    BY <1>12, <2>1, <2>2, <2>3 DEF TypeOK, Store, Fail
<1>13. ASSUME NEW w \in Workers, StoreFails(w) PROVE TypeOK'
  <2>1. TableOK' /\ RowsOK'
    BY <1>0, <1>11, <1>13 DEF StoreFails
  <2>2. WorkerOK' /\ HandsOK'
    BY <1>0, <1>13, RaiseType DEF StoreFails, insert
  <2>3. RequestOK'
    BY <1>13 DEF StoreFails, TypeOK, RequestOK, request
  <2> QED
    BY <1>13, <2>1, <2>2, <2>3, FaultType DEF TypeOK, StoreFails, Raise
<1>14. ASSUME NEW w \in Workers, FailFails(w) \/ DrainTimeout(w) \/ Crash(w) PROVE TypeOK'
  <2>1. Quiet
    BY <1>14, FaultType DEF FailFails, DrainTimeout, Crash, Quiet, TypeOK
  <2>2. rows' = rows /\ stopping' \in [Workers -> BOOLEAN]
    BY <1>14 DEF FailFails, DrainTimeout, Crash, TypeOK, WorkerOK, insert
  <2>3. WorkerOK' /\ HandsOK'
    BY <1>0, <1>14, <2>2, ReleaseType DEF FailFails, DrainTimeout, Crash
  <2> QED
    BY <2>1, <2>3, QuietType DEF TypeOK
<1>15. ASSUME NEW w \in Workers, Terminate(w) \/ Exit(w) PROVE TypeOK'
  <2>1. Quiet
    BY <1>15, FaultType DEF Terminate, Exit, Quiet, TypeOK
  <2>a. UNCHANGED <<job, claimed, left, child, link, cause>>
    BY <1>15 DEF Terminate, Exit
  <2>b. at' \in [Workers -> Idle \cup Busy] /\ stopping' \in [Workers -> BOOLEAN]
    <3>1. CASE Terminate(w)
      BY <3>1 DEF Terminate, TypeOK, WorkerOK
    <3>2. CASE Exit(w)
      BY <1>0, <3>2 DEF Exit, Goto, TypeOK, WorkerOK
    <3> QED
      BY <1>15, <3>1, <3>2
  <2>2. WorkerOK'
    BY <2>a, <2>b DEF TypeOK, WorkerOK
  <2>3. HandsOK'
    BY <1>0, <1>15 DEF Terminate, Exit, Goto, TypeOK, WorkerOK, HandsOK, insert, Idle
  <2> QED
    BY <2>1, <2>2, <2>3, QuietType DEF TypeOK
<1>16. CASE Tick
  <2>1. now' \in 0..MaxTime
    BY <1>16 DEF Tick, TypeOK
  <2>2. TableOK' /\ RowsOK'
    BY <1>16 DEF Tick, TypeOK, TableOK, RowsOK, Jobs, insert, row
  <2>3. RequestOK' /\ WorkerOK' /\ HandsOK'
    BY <1>16 DEF Tick, TypeOK, RequestOK, WorkerOK, HandsOK, request, worker, insert
  <2> QED
    BY <1>16, <2>1, <2>2, <2>3 DEF Tick, TypeOK
<1>17. CASE UNCHANGED vars
  BY <1>17 DEF vars, TypeOK, TableOK, RowsOK, RequestOK, WorkerOK, HandsOK, Jobs
<1> QED
  BY <1>1, <1>2, <1>3, <1>4, <1>5, <1>6, <1>b, <1>7, <1>9, <1>10, <1>12, <1>13, <1>14, <1>15,
     <1>16, <1>17, <1>c DEF Next, WorkerStep

(***************************************************************************)
(* The inductive invariant: what holding a job tells about its row.        *)
(***************************************************************************)

(* Unless its claim is late, a worker's job is still running on that claim, *)
(* or has a verdict; in no case is it back in the queue.                    *)
HolderKnown == \A w \in Workers : job[w] # NoJob =>
  \/ Late(w)
  \/ status[job[w]] = "running" /\ started[job[w]] = claimed[w]
  \/ status[job[w]] \in Terminal

ClaimsCounted == \A v, w \in Workers : job[w] # NoJob =>
  /\ claims[job[w]] >= 1
  /\ v # w /\ job[v] = job[w] => claims[job[w]] >= 2

(* A verdict on a job still in hand came from elsewhere, or unnoticed.      *)
VerdictKnown == \A w \in Workers :
  job[w] # NoJob /\ status[job[w]] \in Terminal => claims[job[w]] > 1 \/ cause[w] = "store"

CauseKnown == \A w \in Workers : cause[w] = "store" => at[w] = "fail"

HoldInv == SharedOnlyWhenLate /\ HolderKnown /\ ClaimsCounted /\ VerdictKnown /\ CauseKnown

IInv == TypeOK /\ OneActivePerInput /\ HoldInv

(* Nothing about the rows in hand has changed, and nobody has taken a job.  *)
LEMMA HoldFrame ==
  ASSUME TypeOK, TypeOK', HoldInv, now' = now,
         \A w \in Workers : job'[w] # NoJob =>
           /\ job'[w] = job[w] /\ claimed'[w] = claimed[w]
           /\ status'[job[w]] = status[job[w]] /\ started'[job[w]] = started[job[w]]
           /\ claims'[job[w]] = claims[job[w]]
           /\ cause[w] = "store" => cause'[w] = "store"
  PROVE  SharedOnlyWhenLate' /\ HolderKnown' /\ ClaimsCounted' /\ VerdictKnown'
<1>1. SharedOnlyWhenLate'
  BY DEF HoldInv, SharedOnlyWhenLate, Late
<1>2. HolderKnown'
  BY DEF HoldInv, HolderKnown, Late
<1>3. ClaimsCounted'
  BY DEF HoldInv, ClaimsCounted
<1>4. VerdictKnown'
  BY DEF HoldInv, VerdictKnown
<1> QED
  BY <1>1, <1>2, <1>3, <1>4

(* Every step keeps what is known about the jobs in hand. *)
LEMMA HoldStep == TypeOK /\ TypeOK' /\ HoldInv /\ [Next]_vars => HoldInv'
<1> SUFFICES ASSUME TypeOK, TypeOK', HoldInv, [Next]_vars PROVE HoldInv'
  OBVIOUS
<1> USE ReportAssumption
<1>0. \A w \in Workers : /\ job[w] # NoJob => job[w] \in Jobs /\ job[w] <= rows
                         /\ claimed[w] \in Nat /\ now \in Nat
  BY DEF TypeOK, WorkerOK, HandsOK, Jobs, NoJob
<1>a. ASSUME UNCHANGED status \/ \E st : status' = [status EXCEPT ![rows + 1] = st]
      PROVE  \A k \in Jobs : k <= rows => status'[k] = status[k]
  <2>1. CASE UNCHANGED status
    BY <2>1
  <2>2. CASE \E st : status' = [status EXCEPT ![rows + 1] = st]
    <3>1. PICK st : status' = [status EXCEPT ![rows + 1] = st]
      BY <2>2
    <3>2. ASSUME NEW k \in Jobs, k <= rows PROVE k # rows + 1
      BY <3>2 DEF Jobs, TypeOK, TableOK
    <3> QED
      BY <3>1, <3>2 DEF TypeOK, TableOK
  <2> QED
    BY <1>a, <2>1, <2>2
<1>1. ASSUME NEW r \in Requests, EnqueueInsert(r) \/ EnqueueSelect(r) PROVE HoldInv'
  <2>1. /\ UNCHANGED <<now, started, claims, job, claimed, cause, at>>
        /\ UNCHANGED status \/ \E st : status' = [status EXCEPT ![rows + 1] = st]
    BY <1>1 DEF EnqueueInsert, EnqueueSelect, InsertRow, row, worker
  <2>2. \A k \in Jobs : k <= rows => status'[k] = status[k]
    BY <2>1, <1>a
  <2> QED
    BY <1>0, <2>1, <2>2, HoldFrame DEF HoldInv, CauseKnown
<1>2. ASSUME NEW w \in Workers, NEW c \in Inputs, EmitChild(w, c) PROVE HoldInv'
  <2>1. /\ UNCHANGED <<now, started, claims, job, claimed, cause>>
        /\ UNCHANGED status \/ \E st : status' = [status EXCEPT ![rows + 1] = st]
    BY <1>2 DEF EmitChild, InsertRow, row
  <2>2. \A k \in Jobs : k <= rows => status'[k] = status[k]
    BY <2>1, <1>a
  <2>3. at[w] = "emit" /\ \E p : at' = [at EXCEPT ![w] = p]
    BY <1>2 DEF EmitChild, NextChild, Goto
  <2>4. \A u \in Workers : at[u] = "fail" => at'[u] = "fail"
    BY <2>3 DEF TypeOK, WorkerOK
  <2> QED
    BY <1>0, <2>1, <2>2, <2>4, HoldFrame DEF HoldInv, CauseKnown
<1>c. ASSUME NEW w \in Workers, NEW c \in Inputs, EmitUnseen(w, c) PROVE HoldInv'
  <2>1. /\ UNCHANGED <<now, started, claims, job, claimed>>
        /\ \E st : status' = [status EXCEPT ![rows + 1] = st]
        /\ at[w] # "fail" /\ cause'[w] # "store"
        /\ \A u \in Workers : u # w => cause'[u] = cause[u] /\ at'[u] = at[u]
    <3>1. /\ UNCHANGED <<now, started, claims, job, claimed>>
          /\ status' = [status EXCEPT ![rows + 1] = "succeeded"]
      BY <1>c DEF EmitUnseen, InsertRow, Raise, row
    <3>2. at[w] = "emit" /\ at' = [at EXCEPT ![w] = "fail"] /\ cause' = [cause EXCEPT ![w] = "emit"]
      BY <1>c DEF EmitUnseen, Raise, Goto
    <3> QED
      BY <3>1, <3>2 DEF TypeOK, WorkerOK
  <2>2. \A k \in Jobs : k <= rows => status'[k] = status[k]
    BY <2>1, <1>a
  <2>3. cause[w] # "store"
    BY <2>1 DEF HoldInv, CauseKnown
  <2> QED
    BY <1>0, <2>1, <2>2, <2>3, HoldFrame DEF HoldInv, CauseKnown
<1>3. ASSUME NEW w \in Workers,
             \/ Start(w) \/ RecoverFails(w) \/ Generate(w) \/ Select(w)
             \/ EmitLookup(w) \/ Terminate(w) \/ Exit(w)
      PROVE  HoldInv'
  <2>1. /\ UNCHANGED <<now, status, started, claims, job, claimed, cause>>
        /\ \A u \in Workers : at[u] = "fail" => at'[u] = "fail"
    BY <1>3 DEF Start, RecoverFails, Generate, Select, EmitLookup, NextChild, Terminate, Exit,
                Goto, row, TypeOK, WorkerOK
  <2> QED
    BY <1>0, <2>1, HoldFrame DEF HoldInv, CauseKnown
<1>b. ASSUME NEW w \in Workers, NEW built \in SUBSET Inputs, GenerateChildren(w, built)
      PROVE  HoldInv'
  <2>1. /\ UNCHANGED <<now, status, started, claims, job, claimed, cause>>
        /\ \A u \in Workers : at[u] = "fail" => at'[u] = "fail"
    BY <1>b DEF GenerateChildren, Goto, row, TypeOK, WorkerOK
  <2> QED
    BY <1>0, <2>1, HoldFrame DEF HoldInv, CauseKnown
<1>4. ASSUME NEW w \in Workers, GenerateFails(w) \/ EmitFails(w) \/ SelectFails(w)
      PROVE  HoldInv'
  <2>1. /\ UNCHANGED <<now, status, started, claims, job, claimed>>
        /\ at[w] # "fail" /\ cause'[w] # "store"
        /\ \A u \in Workers : u # w => cause'[u] = cause[u] /\ at'[u] = at[u]
    BY <1>4 DEF GenerateFails, EmitFails, SelectFails, Raise, Goto, row, TypeOK, WorkerOK
  <2>2. cause[w] # "store"
    BY <2>1 DEF HoldInv, CauseKnown
  <2> QED
    BY <1>0, <2>1, <2>2, HoldFrame DEF HoldInv, CauseKnown
<1>5. ASSUME NEW w \in Workers, FailFails(w) \/ DrainTimeout(w) \/ Crash(w) PROVE HoldInv'
  <2>1. /\ UNCHANGED <<now, status, started, claims>>
        /\ job'[w] = NoJob /\ cause'[w] = "none"
        /\ \A u \in Workers : u # w => /\ job'[u] = job[u] /\ claimed'[u] = claimed[u]
                                       /\ cause'[u] = cause[u] /\ at'[u] = at[u]
    BY <1>5 DEF FailFails, DrainTimeout, Crash, Release, Goto, row, TypeOK, WorkerOK
  <2> QED
    BY <1>0, <2>1, HoldFrame DEF HoldInv, CauseKnown
<1>6. ASSUME NEW w \in Workers, RecoverStale(w) PROVE HoldInv'
  <2>1. /\ UNCHANGED <<now, claims, job, claimed, cause>>
        /\ \A u \in Workers : at[u] = "fail" => at'[u] = "fail"
        /\ \A k \in Jobs : k \notin StaleRows => status'[k] = status[k] /\ started'[k] = started[k]
        /\ \A k \in StaleRows : status'[k] = "pending"
    BY <1>6 DEF RecoverStale, StaleRows, Goto, TypeOK, WorkerOK
  <2>2. \A u \in Workers : job[u] # NoJob /\ job[u] \in StaleRows => Late(u)
    <3> SUFFICES ASSUME NEW u \in Workers, job[u] # NoJob, job[u] \in StaleRows
                 PROVE  Late(u)
      OBVIOUS
    <3>1. /\ status[job[u]] = "running" /\ started[job[u]] < now - Stale
          /\ started[job[u]] \in Int /\ now \in Int /\ Stale \in Int
      BY DEF StaleRows, TypeOK, TableOK
    <3>2. Late(u) \/ started[job[u]] = claimed[u]
      BY <3>1 DEF HoldInv, HolderKnown, Terminal
    <3> QED
      BY <1>0, <3>1, <3>2 DEF Late
  <2>3. HolderKnown'
    BY <1>0, <2>1, <2>2 DEF HoldInv, HolderKnown, Late
  <2>4. VerdictKnown'
    BY <1>0, <2>1 DEF HoldInv, VerdictKnown, StaleRows, Terminal
  <2>5. SharedOnlyWhenLate' /\ ClaimsCounted' /\ CauseKnown'
    BY <2>1 DEF HoldInv, SharedOnlyWhenLate, ClaimsCounted, CauseKnown, Late
  <2> QED
    BY <2>3, <2>4, <2>5 DEF HoldInv
<1>7. ASSUME NEW w \in Workers, NEW j \in Jobs, IsNext(w, j), SetRunning(j)
      PROVE  /\ \A k \in Jobs : k # j => /\ status'[k] = status[k] /\ started'[k] = started[k]
                                         /\ claims'[k] = claims[k]
             /\ status'[j] = "running" /\ started'[j] = now /\ claims'[j] = claims[j] + 1
             /\ claims[j] \in Nat
             /\ \A u \in Workers : job[u] = j => Late(u)
  <2>1. \A u \in Workers : job[u] = j => Late(u)
    BY <1>0, <1>7 DEF IsNext, HoldInv, HolderKnown, Terminal, Jobs, NoJob
  <2> QED
    BY <1>7, <2>1 DEF SetRunning, Mark, TypeOK, TableOK
<1>8. ASSUME NEW w \in Workers, NEW j \in Jobs, Claim(w, j) PROVE HoldInv'
  <2>1. /\ now' = now /\ cause' = cause /\ job[w] = NoJob /\ at[w] # "fail"
        /\ job'[w] = j /\ claimed'[w] = now /\ j # NoJob
        /\ \A u \in Workers : u # w => /\ job'[u] = job[u] /\ claimed'[u] = claimed[u]
                                       /\ at'[u] = at[u]
    BY <1>8 DEF Claim, Goto, TypeOK, WorkerOK, HandsOK, Idle, Jobs, NoJob
  <2>2. IsNext(w, j) /\ SetRunning(j)
    BY <1>8 DEF Claim
  <2>3. SharedOnlyWhenLate'
    BY <1>7, <2>1, <2>2 DEF HoldInv, SharedOnlyWhenLate, Late
  <2>4. HolderKnown'
    BY <1>0, <1>7, <2>1, <2>2 DEF HoldInv, HolderKnown, Late
  <2>5. ClaimsCounted'
    BY <1>0, <1>7, <2>1, <2>2 DEF HoldInv, ClaimsCounted
  <2>6. VerdictKnown'
    BY <1>0, <1>7, <2>1, <2>2 DEF HoldInv, VerdictKnown, Terminal
  <2>7. CauseKnown'
    BY <2>1 DEF HoldInv, CauseKnown
  <2> QED
    BY <2>3, <2>4, <2>5, <2>6, <2>7 DEF HoldInv
<1>9. ASSUME NEW w \in Workers, NEW j \in Jobs, ClaimUnseen(w, j) PROVE HoldInv'
  <2>1. UNCHANGED <<now, job, claimed, cause, at>> /\ IsNext(w, j) /\ SetRunning(j)
    BY <1>9 DEF ClaimUnseen, worker
  <2>2. HolderKnown'
    BY <1>0, <1>7, <2>1 DEF HoldInv, HolderKnown, Late
  <2>3. ClaimsCounted'
    BY <1>0, <1>7, <2>1 DEF HoldInv, ClaimsCounted
  <2>4. VerdictKnown'
    BY <1>0, <1>7, <2>1 DEF HoldInv, VerdictKnown, Terminal
  <2>5. SharedOnlyWhenLate' /\ CauseKnown'
    BY <2>1 DEF HoldInv, SharedOnlyWhenLate, CauseKnown, Late
  <2> QED
    BY <2>2, <2>3, <2>4, <2>5 DEF HoldInv
<1>10. ASSUME NEW w \in Workers, Store(w) \/ Fail(w) \/ StoreFails(w) PROVE HoldInv'
  <2>1. job[w] # NoJob /\ job[w] \in Jobs
    BY <1>0, <1>10 DEF Store, Fail, StoreFails, TypeOK, HandsOK, Idle
  <2>2. /\ UNCHANGED <<now, started, claims>>
        /\ \A k \in Jobs : k # job[w] => status'[k] = status[k]
        /\ status'[job[w]] = status[job[w]] \/ status'[job[w]] \in Terminal
        /\ \A u \in Workers : u # w => /\ job'[u] = job[u] /\ claimed'[u] = claimed[u]
                                       /\ cause'[u] = cause[u] /\ at'[u] = at[u]
        /\ \/ job'[w] = NoJob /\ cause'[w] = "none"
           \/ /\ job'[w] = job[w] /\ claimed'[w] = claimed[w]
              /\ cause'[w] = "store" /\ at'[w] = "fail"
    BY <1>10, <2>1 DEF Store, Fail, StoreFails, SetSucceeded, Mark, Raise, Release, Goto, row,
                       Terminal, TypeOK, TableOK, WorkerOK
  <2>3. SharedOnlyWhenLate'
    BY <2>2 DEF HoldInv, SharedOnlyWhenLate, Late
  <2>4. HolderKnown'
    BY <1>0, <2>1, <2>2 DEF HoldInv, HolderKnown, Late
  <2>5. ClaimsCounted'
    BY <1>0, <2>2 DEF HoldInv, ClaimsCounted
  <2>6. \A u \in Workers : u # w /\ job[u] = job[w] => claims[job[u]] > 1
    BY <1>0, <2>1 DEF HoldInv, ClaimsCounted, TypeOK, TableOK
  <2>7. VerdictKnown'
    BY <1>0, <2>1, <2>2, <2>6 DEF HoldInv, VerdictKnown
  <2>8. CauseKnown'
    BY <2>2 DEF HoldInv, CauseKnown
  <2> QED
    BY <2>3, <2>4, <2>5, <2>7, <2>8 DEF HoldInv
<1>11. CASE Tick
  <2>1. /\ UNCHANGED <<status, started, claims, job, claimed, cause, at>>
        /\ now' = now + 1 /\ now \in Nat
    BY <1>11 DEF Tick, row, worker, TypeOK
  <2>2. \A u \in Workers : Late(u) => Late(u)'
    BY <1>0, <2>1 DEF Late
  <2>3. SharedOnlyWhenLate' /\ HolderKnown'
    BY <2>1, <2>2 DEF HoldInv, SharedOnlyWhenLate, HolderKnown
  <2>4. ClaimsCounted' /\ VerdictKnown' /\ CauseKnown'
    BY <2>1 DEF HoldInv, ClaimsCounted, VerdictKnown, CauseKnown
  <2> QED
    BY <2>3, <2>4 DEF HoldInv
<1>12. CASE UNCHANGED vars
  BY <1>12 DEF vars, HoldInv, SharedOnlyWhenLate, HolderKnown, ClaimsCounted, VerdictKnown,
               CauseKnown, Late
<1> QED
  BY <1>1, <1>2, <1>3, <1>b, <1>4, <1>5, <1>6, <1>8, <1>9, <1>10, <1>11, <1>12, <1>c
     DEF Next, WorkerStep

(* The index keeps an input's active jobs apart. *)
LEMMA OneActiveStep ==
  TypeOK /\ TypeOK' /\ OneActivePerInput /\ [Next]_vars => OneActivePerInput'
<1> SUFFICES ASSUME TypeOK, TypeOK', OneActivePerInput, [Next]_vars PROVE OneActivePerInput'
  OBVIOUS
<1> USE ReportAssumption
<1> DEFINE On(j) == status[j] \in {"pending", "running"}
(* No row becomes active, and no active row changes its input. *)
<1>1. ASSUME \A j \in Jobs : On(j)' => On(j) /\ input'[j] = input[j]
      PROVE  OneActivePerInput'
  BY <1>1 DEF OneActivePerInput
<1>2. ASSUME NEW i \in Inputs, NEW st \in {"pending", "succeeded"}, NEW p, InsertRow(i, st, p),
             Active(i) = {}
      PROVE  OneActivePerInput'
  <2>1. rows + 1 \in Jobs /\ \A j \in Jobs :
          /\ status'[j] = IF j = rows + 1 THEN st ELSE status[j]
          /\ input'[j] = IF j = rows + 1 THEN i ELSE input[j]
    BY <1>2 DEF InsertRow, TypeOK, TableOK, Jobs
  <2>2. \A j \in Jobs : ~(On(j) /\ input[j] = i)
    BY <1>2 DEF Active
  <2> QED
    BY <2>1, <2>2 DEF OneActivePerInput
<1>3. ASSUME NEW r \in Requests, EnqueueInsert(r) PROVE OneActivePerInput'
  <2>1. CASE Active(asks[r]) = {}
    BY <1>2, <1>3, <2>1 DEF EnqueueInsert, TypeOK, RequestOK
  <2>2. CASE Active(asks[r]) # {}
    BY <1>1, <1>3, <2>2 DEF EnqueueInsert, insert
  <2> QED
    BY <2>1, <2>2
<1>4. ASSUME NEW w \in Workers, NEW c \in Inputs, EmitChild(w, c) PROVE OneActivePerInput'
  <2>1. CASE Active(c) = {}
    BY <1>2, <1>4, <2>1 DEF EmitChild
  <2>2. CASE Active(c) # {}
    BY <1>1, <1>4, <2>2 DEF EmitChild, insert
  <2> QED
    BY <2>1, <2>2
<1>c. ASSUME NEW w \in Workers, NEW c \in Inputs, EmitUnseen(w, c) PROVE OneActivePerInput'
  BY <1>2, <1>c DEF EmitUnseen
<1>5. ASSUME NEW w \in Workers, RecoverStale(w) PROVE OneActivePerInput'
  BY <1>1, <1>5 DEF RecoverStale, StaleRows, insert
<1>6. ASSUME NEW w \in Workers, NEW j \in Jobs, Claim(w, j) \/ ClaimUnseen(w, j)
      PROVE  OneActivePerInput'
  <2>1. /\ input' = input /\ status[j] = "pending"
        /\ \A k \in Jobs : status'[k] = IF k = j THEN "running" ELSE status[k]
    BY <1>6 DEF Claim, ClaimUnseen, IsNext, SetRunning, Mark, insert, TypeOK, TableOK
  <2> QED
    BY <1>1, <2>1
<1>7. ASSUME NEW w \in Workers, Store(w) \/ StoreFails(w) \/ Fail(w) PROVE OneActivePerInput'
  <2>1. /\ input' = input
        /\ \A k \in Jobs : status'[k] = status[k] \/ status'[k] \in {"succeeded", "failed"}
    BY <1>7 DEF Store, StoreFails, Fail, SetSucceeded, Mark, insert, TypeOK, TableOK
  <2> QED
    BY <1>1, <2>1
<1>8. ASSUME UNCHANGED <<status, input>> PROVE OneActivePerInput'
  BY <1>1, <1>8
<1>9. ASSUME NEW r \in Requests, EnqueueSelect(r) PROVE UNCHANGED <<status, input>>
  BY <1>9 DEF EnqueueSelect, insert
<1>10. ASSUME NEW w \in Workers,
             \/ Start(w) \/ RecoverFails(w) \/ Generate(w) \/ Select(w) \/ EmitLookup(w)
             \/ Terminate(w) \/ Exit(w) \/ GenerateFails(w) \/ EmitFails(w) \/ SelectFails(w)
             \/ FailFails(w) \/ DrainTimeout(w) \/ Crash(w)
      PROVE  UNCHANGED <<status, input>>
  BY <1>10 DEF Start, RecoverFails, Generate, Select, EmitLookup, Terminate, Exit, GenerateFails,
               EmitFails, SelectFails, FailFails, DrainTimeout, Crash, insert
<1>b. ASSUME NEW w \in Workers, NEW built \in SUBSET Inputs, GenerateChildren(w, built)
      PROVE  UNCHANGED <<status, input>>
  BY <1>b DEF GenerateChildren, insert
<1>11. CASE Tick
  BY <1>8, <1>11 DEF Tick, insert
<1>12. CASE UNCHANGED vars
  BY <1>8, <1>12 DEF vars
<1> QED
  BY <1>3, <1>4, <1>5, <1>6, <1>7, <1>8, <1>9, <1>10, <1>b, <1>c, <1>11, <1>12
     DEF Next, WorkerStep

(* The invariant holds, for every number of requests, workers and rows.     *)
THEOREM Invariance == Spec => []IInv
<1>1. Init => IInv
  <2> SUFFICES ASSUME Init PROVE IInv
    OBVIOUS
  <2> USE ReportAssumption
  <2>1. TableOK /\ RowsOK
    BY DEF Init, TableOK, RowsOK, Jobs, NoJob, NoLinks
  <2>2. RequestOK
    BY DEF Init, RequestOK, NoJob
  <2>3. WorkerOK
    BY DEF Init, WorkerOK, NoJob, NoLinks, Idle
  <2>4. HandsOK
    BY DEF Init, HandsOK, NoJob, Idle
  <2>5. TypeOK
    BY <2>1, <2>2, <2>3, <2>4 DEF Init, TypeOK
  <2>6. OneActivePerInput /\ HoldInv
    BY DEF Init, OneActivePerInput, HoldInv, SharedOnlyWhenLate, HolderKnown, ClaimsCounted,
           VerdictKnown, CauseKnown
  <2> QED
    BY <2>5, <2>6 DEF IInv
<1>2. IInv /\ [Next]_vars => IInv'
  BY TypeStep, HoldStep, OneActiveStep DEF IInv
<1> QED
  BY <1>1, <1>2, PTL DEF Spec

(* Type correctness of the queue, its requests and its workers. *)
THEOREM TypeCorrect == Spec => []TypeOK
BY Invariance, PTL DEF IInv

(* At most one pending or running job per input, whatever clicks, child     *)
(* reports and recoveries interleave (uq_diagnostic_jobs_active_per_input). *)
THEOREM OneActive == Spec => []OneActivePerInput
BY Invariance, PTL DEF IInv

(* Two replicas work on the same job only after the stale window of one of  *)
(* the claims (claim_next_pending, recover_stale_running).                  *)
THEOREM Sharing == Spec => []SharedOnlyWhenLate
BY Invariance, PTL DEF IInv, HoldInv

(* A verdict is overwritten only on a row claimed twice or after a lost     *)
(* acknowledgement (mark_succeeded, mark_failed have no status condition).  *)
THEOREM Verdicts == Spec => VerdictStands
<1> DEFINE Stands(j) == status[j] \in Terminal =>
                      /\ status'[j] \in Terminal
                      /\ \/ status'[j] = status[j]
                         \/ claims[j] > 1
                         \/ \E w \in Workers : Holds(w, j) /\ cause[w] = "store"
<1>1. IInv /\ [Next]_vars => [\A j \in Jobs : Stands(j)]_vars
  <2> SUFFICES ASSUME IInv, Next, NEW j \in Jobs, status[j] \in Terminal PROVE Stands(j)
    BY DEF Terminal
  <2>1. TypeOK
    BY DEF IInv
  <2>2. ASSUME NEW w \in Workers, Store(w) \/ StoreFails(w) \/ Fail(w) PROVE Stands(j)
    <3>0. job[w] # NoJob /\ job[w] \in Jobs
      <4>1. at[w] \notin Idle
        BY <2>2 DEF Store, StoreFails, Fail, Idle
      <4>2. job[w] # NoJob
        BY <2>1, <4>1 DEF TypeOK, HandsOK
      <4>3. job[w] \in 0..MaxJobs
        BY <2>1 DEF TypeOK, WorkerOK
      <4> QED
        BY <4>2, <4>3, ReportAssumption DEF Jobs, NoJob
    <3>1. /\ \A k \in Jobs : k # job[w] => status'[k] = status[k]
          /\ status'[job[w]] = status[job[w]] \/ status'[job[w]] \in Terminal
      BY <2>1, <2>2, <3>0 DEF Store, StoreFails, Fail, SetSucceeded, Mark, TypeOK, TableOK,
                              Terminal
    <3> QED
      BY <3>0, <3>1 DEF IInv, HoldInv, VerdictKnown, Holds
  <2>3. ASSUME status'[j] = status[j] PROVE Stands(j)
    BY <2>3
  <2>4. ASSUME NEW i, NEW st, NEW p, InsertRow(i, st, p) PROVE status'[j] = status[j]
    <3>1. rows \in Nat /\ j <= rows
      BY <2>1, ReportAssumption DEF TypeOK, TableOK, RowsOK, Terminal, Jobs
    <3>2. j # rows + 1
      BY <3>1 DEF Jobs
    <3> QED
      BY <2>1, <2>4, <3>2 DEF InsertRow, TypeOK, TableOK
  <2>5. ASSUME NEW r \in Requests, EnqueueInsert(r) \/ EnqueueSelect(r) PROVE status'[j] = status[j]
    BY <2>4, <2>5 DEF EnqueueInsert, EnqueueSelect
  <2>6. ASSUME NEW w \in Workers, NEW c \in Inputs, EmitChild(w, c) \/ EmitUnseen(w, c)
        PROVE  status'[j] = status[j]
    BY <2>4, <2>6 DEF EmitChild, EmitUnseen
  <2>7. ASSUME NEW w \in Workers, RecoverStale(w) PROVE status'[j] = status[j]
    BY <2>7 DEF RecoverStale, StaleRows, Terminal
  <2>8. ASSUME NEW w \in Workers, NEW k \in Jobs, Claim(w, k) \/ ClaimUnseen(w, k)
        PROVE  status'[j] = status[j]
    BY <2>1, <2>8 DEF Claim, ClaimUnseen, IsNext, SetRunning, Mark, Terminal, TypeOK, TableOK
  <2>9. ASSUME NEW w \in Workers,
             \/ Start(w) \/ RecoverFails(w) \/ Generate(w) \/ Select(w) \/ EmitLookup(w)
             \/ Terminate(w) \/ Exit(w) \/ GenerateFails(w) \/ EmitFails(w) \/ SelectFails(w)
             \/ FailFails(w) \/ DrainTimeout(w) \/ Crash(w)
        PROVE  status'[j] = status[j]
    BY <2>9 DEF Start, RecoverFails, Generate, Select, EmitLookup, Terminate, Exit, GenerateFails,
                EmitFails, SelectFails, FailFails, DrainTimeout, Crash
  <2>b. ASSUME NEW w \in Workers, NEW built \in SUBSET Inputs, GenerateChildren(w, built)
        PROVE  status'[j] = status[j]
    BY <2>b DEF GenerateChildren
  <2>10. CASE Tick
    BY <2>3, <2>10 DEF Tick
  <2> QED
    BY <2>2, <2>3, <2>5, <2>6, <2>7, <2>8, <2>9, <2>b, <2>10 DEF Next, WorkerStep
<1> QED
  BY <1>1, Invariance, PTL DEF Spec, VerdictStands

(***************************************************************************)
(* Rows are never taken back: a row keeps its input and its parent, and a  *)
(* verdict may change but not disappear.                                   *)
(***************************************************************************)
Kept(j) == status[j] # "free" =>
  /\ status'[j] # "free" /\ input'[j] = input[j] /\ parent'[j] = parent[j]
  /\ status[j] \in Terminal => status'[j] \in Terminal

(* No step takes a row back, and only requests move requests. *)
LEMMA RowsKept ==
  ASSUME TypeOK, [Next]_vars
  PROVE  /\ \A j \in Jobs : Kept(j)
         /\ rows <= rows' /\ asks' = asks
         /\ UNCHANGED request \/ \E r \in Requests : EnqueueInsert(r) \/ EnqueueSelect(r)
<1> USE ReportAssumption
<1> DEFINE AllKept == (\A j \in Jobs : Kept(j)) /\ rows <= rows'
<1>0. rows \in Nat
  BY DEF TypeOK, TableOK
<1>1. ASSUME UNCHANGED insert,
             \A j \in Jobs : \/ status'[j] = status[j]
                             \/ status[j] = "running" /\ status'[j] = "pending"
                             \/ status[j] = "pending" /\ status'[j] = "running"
                             \/ status'[j] \in Terminal
      PROVE  AllKept
  BY <1>0, <1>1 DEF Kept, insert, Terminal
<1>2. ASSUME NEW i, NEW st, NEW p, InsertRow(i, st, p) PROVE AllKept
  <2>1. \A j \in Jobs : status[j] # "free" => j # rows + 1
    BY <1>0 DEF TypeOK, RowsOK, Jobs
  <2> QED
    BY <1>0, <1>2, <2>1 DEF InsertRow, TypeOK, TableOK, Kept
<1>3. ASSUME NEW r \in Requests, EnqueueInsert(r) \/ EnqueueSelect(r) PROVE AllKept /\ asks' = asks
  BY <1>1, <1>2, <1>3 DEF EnqueueInsert, EnqueueSelect
<1>4. ASSUME NEW w \in Workers, NEW c \in Inputs, EmitChild(w, c) \/ EmitUnseen(w, c)
      PROVE  AllKept /\ UNCHANGED request
  BY <1>1, <1>2, <1>4 DEF EmitChild, EmitUnseen
<1>5. ASSUME NEW w \in Workers, RecoverStale(w) PROVE AllKept /\ UNCHANGED request
  BY <1>1, <1>5 DEF RecoverStale, StaleRows
<1>6. ASSUME NEW w \in Workers, NEW j \in Jobs, Claim(w, j) \/ ClaimUnseen(w, j)
      PROVE  AllKept /\ UNCHANGED request
  <2>1. /\ status[j] = "pending" /\ \A k \in Jobs : k # j => status'[k] = status[k]
        /\ status'[j] = "running" /\ UNCHANGED <<insert, request>>
    BY <1>6 DEF Claim, ClaimUnseen, IsNext, SetRunning, Mark, TypeOK, TableOK
  <2> QED
    BY <1>1, <2>1
<1>7. ASSUME NEW w \in Workers, Store(w) \/ StoreFails(w) \/ Fail(w) PROVE AllKept /\ UNCHANGED request
  <2>1. \A k \in Jobs : status'[k] = status[k] \/ status'[k] \in Terminal
    BY <1>7 DEF Store, StoreFails, Fail, SetSucceeded, Mark, TypeOK, TableOK, Terminal
  <2> QED
    BY <1>1, <1>7, <2>1 DEF Store, StoreFails, Fail
<1>8. ASSUME NEW w \in Workers,
             \/ Start(w) \/ RecoverFails(w) \/ Generate(w) \/ Select(w) \/ EmitLookup(w)
             \/ Terminate(w) \/ Exit(w) \/ GenerateFails(w) \/ EmitFails(w) \/ SelectFails(w)
             \/ FailFails(w) \/ DrainTimeout(w) \/ Crash(w)
      PROVE  AllKept /\ UNCHANGED request
  <2>1. UNCHANGED <<insert, status, request>>
    BY <1>8 DEF Start, RecoverFails, Generate, Select, EmitLookup, Terminate, Exit, GenerateFails,
                EmitFails, SelectFails, FailFails, DrainTimeout, Crash
  <2> QED
    BY <1>1, <2>1
<1>9. ASSUME NEW w \in Workers, NEW built \in SUBSET Inputs, GenerateChildren(w, built)
      PROVE  AllKept /\ UNCHANGED request
  BY <1>1, <1>9 DEF GenerateChildren
<1>10. CASE Tick
  BY <1>1, <1>10 DEF Tick, request
<1>11. CASE UNCHANGED vars
  BY <1>1, <1>11 DEF vars, insert, request
<1> QED
  BY <1>3, <1>4, <1>5, <1>6, <1>7, <1>8, <1>9, <1>10, <1>11 DEF Next, WorkerStep, request

(***************************************************************************)
(* The links of a selection.  A row that a worker inserted is finished and *)
(* is never claimed; what a worker has linked, and has left to link, are   *)
(* children of the report in its hand.                                     *)
(***************************************************************************)
ChildRowsDone == \A k \in Jobs : parent[k] # NoJob => status[k] = "succeeded"

Linked(j, c, k) == /\ j \in Jobs /\ status[j] # "free" /\ c \in Children[input[j]]
                   /\ k \in Jobs /\ status[k] # "free" /\ input[k] = c

TableLinks == \A j \in Jobs, c \in Inputs : links[j][c] # NoJob => Linked(j, c, links[j][c])

HandKnown(w) ==
  /\ job[w] # NoJob => parent[job[w]] = NoJob
  /\ \A c \in Inputs : link[w][c] # NoJob => Linked(job[w], c, link[w][c])
  /\ \A c \in left[w] : job[w] # NoJob /\ c \in Children[input[job[w]]]
  /\ at[w] = "lookup" => child[w] \in left[w]

LinkInv == ChildRowsDone /\ TableLinks /\ \A w \in Workers : HandKnown(w)

(* What a worker knows stays known while it goes on, or lets go of its job. *)
GoesOn(w) ==
  /\ job'[w] = job[w] /\ link'[w] = link[w] /\ left'[w] = left[w]
  /\ at'[w] = "lookup" => at[w] = "lookup" /\ child'[w] = child[w]

LetsGo(w) == job'[w] = NoJob /\ link'[w] = NoLinks /\ left'[w] = {} /\ at'[w] # "lookup"

(* A link to a row stays one. *)
LEMMA LinkedStays ==
  ASSUME TypeOK, [Next]_vars PROVE \A j, c, k : Linked(j, c, k) => Linked(j, c, k)'
BY RowsKept DEF Linked, Kept

(* What a worker has linked stays known while it goes on. *)
LEMMA HandStays ==
  ASSUME TypeOK, [Next]_vars, NEW w \in Workers, HandKnown(w), GoesOn(w) \/ LetsGo(w)
  PROVE  HandKnown(w)'
<1>1. CASE LetsGo(w)
  BY <1>1 DEF LetsGo, HandKnown, NoLinks
<1>2. CASE GoesOn(w)
  <2>1. job[w] # NoJob => job[w] \in Jobs /\ status[job[w]] # "free"
    BY ReportAssumption DEF TypeOK, TableOK, WorkerOK, HandsOK, RowsOK, Jobs, NoJob
  <2>2. job[w] # NoJob => parent'[job[w]] = parent[job[w]] /\ input'[job[w]] = input[job[w]]
    BY <2>1, RowsKept DEF Kept
  <2>3. \A c \in Inputs : link[w][c] # NoJob => Linked(job[w], c, link[w][c])'
    BY <1>2, LinkedStays DEF HandKnown, GoesOn
  <2> QED
    BY <1>2, <2>2, <2>3 DEF HandKnown, GoesOn
<1> QED
  BY <1>1, <1>2

(* Every step keeps the links right. *)
LEMMA LinkStep == TypeOK /\ TypeOK' /\ LinkInv /\ [Next]_vars => LinkInv'
<1> SUFFICES ASSUME TypeOK, TypeOK', LinkInv, [Next]_vars PROVE LinkInv'
  OBVIOUS
<1> USE ReportAssumption
<1>0. rows \in Nat /\ \A w \in Workers : job[w] # NoJob => job[w] \in Jobs /\ status[job[w]] # "free"
  <2>1. rows \in Nat
    BY DEF TypeOK, TableOK
  <2>2. ASSUME NEW w \in Workers, job[w] # NoJob PROVE job[w] \in Jobs /\ status[job[w]] # "free"
    BY <2>1, <2>2 DEF TypeOK, WorkerOK, HandsOK, RowsOK, Jobs, NoJob
  <2> QED
    BY <2>1, <2>2
<1>1. ASSUME links' = links PROVE TableLinks'
  BY <1>1, LinkedStays DEF LinkInv, TableLinks
<1>2. ASSUME parent' = parent, \A k \in Jobs : status'[k] = status[k] \/ parent[k] = NoJob
      PROVE  ChildRowsDone'
  BY <1>2 DEF LinkInv, ChildRowsDone
<1>3. ASSUME NEW i, NEW st, NEW q, InsertRow(i, st, q), q = NoJob \/ st = "succeeded"
      PROVE  ChildRowsDone'
  BY <1>0, <1>3 DEF LinkInv, ChildRowsDone, InsertRow, TypeOK, TableOK
<1>4. ASSUME NEW w \in Workers, \A u \in Workers : u # w => GoesOn(u), HandKnown(w)'
      PROVE  \A u \in Workers : HandKnown(u)'
  BY <1>4, HandStays DEF LinkInv
<1>5. ASSUME \A u \in Workers : GoesOn(u) \/ LetsGo(u) PROVE \A u \in Workers : HandKnown(u)'
  BY <1>5, HandStays DEF LinkInv
<1>6. ASSUME NEW r \in Requests, EnqueueInsert(r) \/ EnqueueSelect(r) PROVE LinkInv'
  <2>1. UNCHANGED <<links, worker>>
    BY <1>6 DEF EnqueueInsert, EnqueueSelect
  <2>2. ChildRowsDone'
    BY <1>2, <1>3, <1>6 DEF EnqueueInsert, EnqueueSelect, insert
  <2>3. \A u \in Workers : GoesOn(u)
    BY <2>1 DEF worker, GoesOn
  <2> QED
    BY <1>1, <1>5, <2>1, <2>2, <2>3 DEF LinkInv
<1>7. ASSUME NEW w \in Workers, NEW c \in Inputs, NEW k \in 0..MaxJobs, NextChild(w, c, k),
             UNCHANGED job, \A u \in Workers : u # w => child'[u] = child[u],
             c \in left[w], k # NoJob => k \in Jobs /\ status'[k] # "free" /\ input'[k] = c
      PROVE  \A u \in Workers : HandKnown(u)'
  <2>1. HandKnown(w) /\ job[w] \in Jobs /\ c \in Children[input[job[w]]] /\ status[job[w]] # "free"
    BY <1>0, <1>7 DEF LinkInv, HandKnown
  <2>2. status'[job[w]] # "free" /\ input'[job[w]] = input[job[w]] /\ parent'[job[w]] = parent[job[w]]
    BY <2>1, RowsKept DEF Kept
  <2>3. /\ left'[w] = left[w] \ {c} /\ at'[w] # "lookup"
        /\ \A d \in Inputs : link'[w][d] = IF d = c THEN k ELSE link[w][d]
    BY <1>7 DEF NextChild, Goto, TypeOK, WorkerOK
  <2>4. k # NoJob => Linked(job[w], c, k)'
    BY <1>7, <2>1, <2>2 DEF Linked
  <2>5. \A d \in Inputs : link'[w][d] # NoJob => Linked(job[w], d, link[w][d])'
    BY <1>7, <2>1, <2>3, <2>4, LinkedStays DEF HandKnown
  <2>6. HandKnown(w)'
    BY <1>7, <2>1, <2>2, <2>3, <2>5 DEF HandKnown
  <2>7. \A u \in Workers : u # w => GoesOn(u)
    BY <1>7 DEF NextChild, Goto, GoesOn, TypeOK, WorkerOK
  <2> QED
    BY <1>4, <2>6, <2>7
<1>8. ASSUME NEW w \in Workers, NEW c \in Inputs, EmitChild(w, c) PROVE LinkInv'
  <2>1. CASE Active(c) = {}
    <3>1. InsertRow(c, "succeeded", job[w]) /\ NextChild(w, c, rows + 1) /\ UNCHANGED <<child, job, links>>
          /\ c \in left[w]
      BY <1>8, <2>1 DEF EmitChild
    <3>2. rows + 1 \in Jobs /\ rows + 1 \in 0..MaxJobs
          /\ status'[rows + 1] = "succeeded" /\ input'[rows + 1] = c
      BY <1>0, <3>1 DEF InsertRow, Jobs, TypeOK, TableOK
    <3>3. \A u \in Workers : HandKnown(u)'
      BY <1>7, <3>1, <3>2
    <3> QED
      BY <1>1, <1>3, <3>1, <3>3 DEF LinkInv
  <2>2. CASE Active(c) # {}
    <3>1. UNCHANGED <<insert, status, links, left, link, job>> /\ Goto(w, "lookup")
          /\ child' = [child EXCEPT ![w] = c] /\ c \in left[w]
      BY <1>8, <2>2 DEF EmitChild
    <3>2. at'[w] = "lookup" /\ child'[w] = c /\ \A u \in Workers : u # w => GoesOn(u)
      BY <3>1 DEF Goto, GoesOn, TypeOK, WorkerOK
    <3>3. HandKnown(w)'
      <4>1. HandKnown(w)
        BY DEF LinkInv
      <4> QED
        BY <3>1, <3>2, <4>1 DEF HandKnown, Linked, insert
    <3> QED
      BY <1>1, <1>2, <1>4, <3>1, <3>2, <3>3 DEF LinkInv, insert
  <2> QED
    BY <2>1, <2>2
<1>9. ASSUME NEW w \in Workers, EmitLookup(w) PROVE LinkInv'
  <2>1. /\ UNCHANGED <<insert, status, links, job>> /\ at[w] = "lookup"
        /\ NextChild(w, child[w], ActiveJob(child[w])) /\ child' = [child EXCEPT ![w] = NoInput]
    BY <1>9 DEF EmitLookup
  <2>2. child[w] \in left[w] /\ child[w] \in Inputs
    BY <2>1 DEF LinkInv, HandKnown, TypeOK, WorkerOK
  <2>3. PICK k \in 0..MaxJobs : /\ k = ActiveJob(child[w])
                                /\ k # NoJob => k \in Active(child[w])
    BY DEF ActiveJob, Active, Jobs, NoJob
  <2>4. k # NoJob => k \in Jobs /\ status'[k] # "free" /\ input'[k] = child[w]
    BY <2>1, <2>3 DEF Active, insert
  <2>5. \A u \in Workers : u # w => child'[u] = child[u]
    BY <2>1 DEF TypeOK, WorkerOK
  <2>6. \A u \in Workers : HandKnown(u)'
    BY <1>7, <2>1, <2>2, <2>3, <2>4, <2>5
  <2> QED
    BY <1>1, <1>2, <2>1, <2>6 DEF LinkInv, insert
<1>10. ASSUME NEW w \in Workers, NEW c \in Inputs, EmitUnseen(w, c) PROVE LinkInv'
  <2>1. UNCHANGED <<links, job, left, child, link>> /\ InsertRow(c, "succeeded", job[w]) /\ Goto(w, "fail")
    BY <1>10 DEF EmitUnseen, Raise
  <2>2. \A u \in Workers : GoesOn(u)
    BY <2>1 DEF Goto, GoesOn, TypeOK, WorkerOK
  <2> QED
    BY <1>1, <1>3, <1>5, <2>1, <2>2 DEF LinkInv
<1>11. ASSUME NEW w \in Workers, NEW built \in SUBSET Inputs, GenerateChildren(w, built)
       PROVE  LinkInv'
  <2>1. /\ UNCHANGED <<insert, status, links, job, child, link>> /\ at[w] = "generate"
        /\ left' = [left EXCEPT ![w] = built] /\ built \subseteq Children[input[job[w]]]
        /\ at'[w] # "lookup" /\ \A u \in Workers : u # w => at'[u] = at[u]
    BY <1>11 DEF GenerateChildren, Goto, TypeOK, WorkerOK
  <2>2. left'[w] = built /\ \A u \in Workers : u # w => GoesOn(u)
    BY <2>1 DEF GoesOn, TypeOK, WorkerOK
  <2>3. job[w] # NoJob
    BY <2>1 DEF TypeOK, HandsOK, Idle
  <2>4. HandKnown(w)'
    <3>1. HandKnown(w)
      BY DEF LinkInv
    <3> QED
      BY <2>1, <2>2, <2>3, <3>1 DEF HandKnown, Linked, insert
  <2> QED
    BY <1>1, <1>2, <1>4, <2>1, <2>2, <2>4 DEF LinkInv, insert
<1>12. ASSUME NEW w \in Workers, NEW j \in Jobs, Claim(w, j) PROVE LinkInv'
  <2>1. /\ UNCHANGED <<insert, links, left, child, link>> /\ at[w] = "idle" /\ status[j] = "pending"
        /\ job' = [job EXCEPT ![w] = j] /\ Goto(w, "generate") /\ SetRunning(j)
    BY <1>12 DEF Claim, IsNext
  <2>2. /\ \A k \in Jobs : status'[k] = IF k = j THEN "running" ELSE status[k]
        /\ parent[j] = NoJob
    BY <2>1 DEF SetRunning, Mark, TypeOK, TableOK, LinkInv, ChildRowsDone
  <2>3. \A u \in Workers : u # w => GoesOn(u)
    BY <2>1 DEF Goto, GoesOn, TypeOK, WorkerOK
  <2>4. job[w] = NoJob /\ job'[w] = j /\ at'[w] = "generate" /\ HandKnown(w)
    BY <2>1 DEF Goto, TypeOK, WorkerOK, HandsOK, Idle, LinkInv
  <2>5. HandKnown(w)'
    BY <2>1, <2>2, <2>4 DEF HandKnown, Linked, insert, Jobs, NoJob
  <2> QED
    BY <1>1, <1>2, <1>4, <2>1, <2>2, <2>3, <2>5 DEF LinkInv, insert
<1>13. ASSUME NEW w \in Workers, NEW j \in Jobs, ClaimUnseen(w, j) PROVE LinkInv'
  <2>1. UNCHANGED <<insert, links, worker>> /\ status[j] = "pending" /\ SetRunning(j)
    BY <1>13 DEF ClaimUnseen, IsNext
  <2>2. /\ \A k \in Jobs : status'[k] = IF k = j THEN "running" ELSE status[k]
        /\ parent[j] = NoJob
    BY <2>1 DEF SetRunning, Mark, TypeOK, TableOK, LinkInv, ChildRowsDone
  <2>3. \A u \in Workers : GoesOn(u)
    BY <2>1 DEF GoesOn, worker
  <2> QED
    BY <1>1, <1>2, <1>5, <2>1, <2>2, <2>3 DEF LinkInv, insert
<1>14. ASSUME NEW w \in Workers, RecoverStale(w) PROVE LinkInv'
  <2>1. UNCHANGED <<insert, links, job, left, child, link>> /\ Goto(w, "idle")
    BY <1>14 DEF RecoverStale
  <2>2. \A k \in Jobs : status'[k] = status[k] \/ parent[k] = NoJob
    BY <1>14 DEF RecoverStale, StaleRows, LinkInv, ChildRowsDone
  <2>3. \A u \in Workers : GoesOn(u)
    BY <2>1 DEF Goto, GoesOn, TypeOK, WorkerOK
  <2> QED
    BY <1>1, <1>2, <1>5, <2>1, <2>2, <2>3 DEF LinkInv, insert
<1>15. ASSUME NEW w \in Workers, Store(w) \/ StoreFails(w) \/ Fail(w) PROVE LinkInv'
  <2>1. job[w] # NoJob /\ job[w] \in Jobs /\ status[job[w]] # "free" /\ HandKnown(w)
    BY <1>0, <1>15 DEF Store, StoreFails, Fail, TypeOK, HandsOK, Idle, LinkInv
  <2>2. \A k \in Jobs : status'[k] = status[k] \/ parent[k] = NoJob
    BY <1>15, <2>1 DEF Store, StoreFails, Fail, SetSucceeded, Mark, TypeOK, TableOK, HandKnown
  <2>3. parent' = parent
    BY <1>15 DEF Store, StoreFails, Fail, insert
  <2>4. links' = links \/ links' = [links EXCEPT ![job[w]] = link[w]]
    BY <1>15 DEF Store, StoreFails, Fail, SetSucceeded
  <2>5. TableLinks'
    <3>1. ASSUME NEW j \in Jobs, NEW c \in Inputs, links'[j][c] # NoJob
          PROVE  Linked(j, c, links[j][c])'
      <4>1. CASE links'[j] = links[j]
        BY <3>1, <4>1, LinkedStays DEF LinkInv, TableLinks
      <4>2. CASE j = job[w] /\ links'[j] = link[w]
        BY <2>1, <3>1, <4>2, LinkedStays DEF HandKnown
      <4> QED
        BY <2>4, <4>1, <4>2 DEF TypeOK, TableOK
    <3> QED
      BY <3>1 DEF TableLinks
  <2>6. \A u \in Workers : GoesOn(u) \/ LetsGo(u)
    <3>1. CASE Release(w, "idle")
      BY <3>1 DEF Release, Goto, GoesOn, LetsGo, TypeOK, WorkerOK
    <3>2. CASE Raise(w, "store")
      BY <3>2 DEF Raise, Goto, GoesOn, TypeOK, WorkerOK
    <3> QED
      BY <1>15, <3>1, <3>2 DEF Store, StoreFails, Fail
  <2> QED
    BY <1>2, <1>5, <2>2, <2>3, <2>5, <2>6 DEF LinkInv
<1>16. ASSUME NEW w \in Workers,
             \/ Start(w) \/ RecoverFails(w) \/ Generate(w) \/ Select(w)
             \/ Terminate(w) \/ Exit(w) \/ GenerateFails(w) \/ EmitFails(w) \/ SelectFails(w)
       PROVE  LinkInv'
  <2>1. UNCHANGED <<insert, status, links, job, left, child, link>>
    BY <1>16 DEF Start, RecoverFails, Generate, Select, Terminate, Exit, GenerateFails,
                 EmitFails, SelectFails, Raise
  <2>2. at' = at \/ \E q \in {"starting", "idle", "store", "down", "fail"} : at' = [at EXCEPT ![w] = q]
    BY <1>16 DEF Start, RecoverFails, Generate, Select, Terminate, Exit, GenerateFails,
                 EmitFails, SelectFails, Raise, Goto
  <2>3. \A u \in Workers : GoesOn(u)
    BY <2>1, <2>2 DEF GoesOn, TypeOK, WorkerOK
  <2> QED
    BY <1>1, <1>2, <1>5, <2>1, <2>3 DEF LinkInv, insert
<1>17. ASSUME NEW w \in Workers, FailFails(w) \/ DrainTimeout(w) \/ Crash(w) PROVE LinkInv'
  <2>1. UNCHANGED <<insert, status, links>> /\ \E q \in {"idle", "down"} : Release(w, q)
    BY <1>17 DEF FailFails, DrainTimeout, Crash
  <2>2. \A u \in Workers : GoesOn(u) \/ LetsGo(u)
    BY <2>1 DEF Release, Goto, GoesOn, LetsGo, TypeOK, WorkerOK
  <2> QED
    BY <1>1, <1>2, <1>5, <2>1, <2>2 DEF LinkInv, insert
<1>18. ASSUME UNCHANGED <<insert, status, links, worker>> PROVE LinkInv'
  BY <1>1, <1>2, <1>5, <1>18 DEF LinkInv, insert, worker, GoesOn
<1>19. CASE Tick
  BY <1>18, <1>19 DEF Tick
<1>20. CASE UNCHANGED vars
  BY <1>18, <1>20 DEF vars, insert, worker
<1> QED
  BY <1>6, <1>8, <1>9, <1>10, <1>11, <1>12, <1>13, <1>14, <1>15, <1>16, <1>17, <1>19, <1>20
     DEF Next, WorkerStep

(* The links of a selection lead to the reports of its own servers, and one *)
(* that is not ready was asked for by an operator (emit_report).            *)
THEOREM Links == Spec => []LinksAreReports
<1>1. Init => LinkInv
  BY DEF Init, LinkInv, ChildRowsDone, TableLinks, HandKnown, NoLinks
<1>2. IInv /\ IInv' /\ LinkInv /\ [Next]_vars => LinkInv'
  BY LinkStep DEF IInv
<1>3. LinkInv => LinksAreReports
  BY DEF LinkInv, ChildRowsDone, TableLinks, Linked, LinksAreReports
<1> QED
  BY <1>1, <1>2, <1>3, Invariance, PTL DEF Spec

(***************************************************************************)
(* What a request knows of the rows of its input: each attempt that it has *)
(* used up saw one more of them end.                                       *)
(***************************************************************************)
EndedOf(i) == {j \in Jobs : input[j] = i /\ status[j] \in Terminal}
UsedOf(i)  == {j \in Jobs : input[j] = i /\ status[j] # "free"}

TriesCounted == \A r \in Requests :
  /\ rpc[r] = "insert"  => Cardinality(EndedOf(asks[r])) >= tries[r]
  /\ rpc[r] = "select"  => Cardinality(UsedOf(asks[r])) >= tries[r] + 1
  /\ rpc[r] = "refused" => Cardinality(EndedOf(asks[r])) >= MaxAttempts

(* Sets of rows are finite, and a larger one has more of them. *)
LEMMA RowSets ==
  ASSUME NEW T \in SUBSET Jobs, NEW S \in SUBSET T
  PROVE  /\ Cardinality(S) \in Nat /\ Cardinality(T) \in Nat
         /\ Cardinality(S) <= Cardinality(T)
         /\ S # T => Cardinality(S) + 1 <= Cardinality(T)
<1>1. IsFiniteSet(Jobs)
  BY FS_Interval, ReportAssumption DEF Jobs
<1>2. IsFiniteSet(T) /\ IsFiniteSet(S)
  BY <1>1, FS_Subset
<1>3. Cardinality(S) \in Nat /\ Cardinality(T) \in Nat
  BY <1>2, FS_CardinalityType
<1>4. Cardinality(S) <= Cardinality(T) /\ (Cardinality(T) = Cardinality(S) => T = S)
  BY <1>2, FS_Subset
<1> QED
  BY <1>3, <1>4

(* Every step keeps the count of tries below that of the jobs. *)
LEMMA TriesStep == TypeOK /\ TypeOK' /\ TriesCounted /\ [Next]_vars => TriesCounted'
<1> SUFFICES ASSUME TypeOK, TypeOK', TriesCounted, [Next]_vars PROVE TriesCounted'
  OBVIOUS
<1>0. asks' = asks
  BY RowsKept
<1>1. ASSUME NEW i
      PROVE  /\ Cardinality(EndedOf(i)) \in Nat /\ Cardinality(EndedOf(i)') \in Nat
             /\ Cardinality(UsedOf(i)) \in Nat /\ Cardinality(UsedOf(i)') \in Nat
             /\ Cardinality(EndedOf(i)) <= Cardinality(EndedOf(i)')
             /\ Cardinality(UsedOf(i)) <= Cardinality(UsedOf(i)')
  <2>1. EndedOf(i)' \in SUBSET Jobs /\ EndedOf(i) \in SUBSET EndedOf(i)'
    BY RowsKept DEF EndedOf, Kept, Terminal
  <2>2. UsedOf(i)' \in SUBSET Jobs /\ UsedOf(i) \in SUBSET UsedOf(i)'
    BY RowsKept DEF UsedOf, Kept
  <2> QED
    BY <2>1, <2>2, RowSets
(* Requests that have not moved. *)
<1>2. ASSUME NEW r \in Requests, rpc'[r] = rpc[r], tries'[r] = tries[r]
      PROVE  /\ rpc'[r] = "insert"  => Cardinality(EndedOf(asks[r])') >= tries'[r]
             /\ rpc'[r] = "select"  => Cardinality(UsedOf(asks[r])') >= tries'[r] + 1
             /\ rpc'[r] = "refused" => Cardinality(EndedOf(asks[r])') >= MaxAttempts
  <2>1. PICK i : i = asks[r]
    OBVIOUS
  <2>2. tries[r] \in Nat /\ MaxAttempts \in Nat
    BY ReportAssumption DEF TypeOK, RequestOK
  <2>3. EndedOf(asks[r])' = EndedOf(i)' /\ UsedOf(asks[r])' = UsedOf(i)'
    BY <1>0, <2>1 DEF EndedOf, UsedOf
  <2> QED
    BY <1>1, <1>2, <2>1, <2>2, <2>3 DEF TriesCounted
<1>3. ASSUME NEW r \in Requests, EnqueueInsert(r) PROVE TriesCounted'
  <2>1. tries' = tries /\ \A s \in Requests : s # r => rpc'[s] = rpc[s]
    BY <1>3 DEF EnqueueInsert, TypeOK, RequestOK
  <2>2. rpc[r] = "insert" /\ rpc'[r] = IF Active(asks[r]) = {} THEN "answered" ELSE "select"
    BY <1>3 DEF EnqueueInsert, TypeOK, RequestOK
  <2>3. ASSUME Active(asks[r]) # {} PROVE Cardinality(UsedOf(asks[r])) >= tries[r] + 1
    <3>1. EndedOf(asks[r]) \in SUBSET UsedOf(asks[r]) /\ EndedOf(asks[r]) # UsedOf(asks[r])
      BY <2>3 DEF EndedOf, UsedOf, Active, Terminal
    <3>2. UsedOf(asks[r]) \in SUBSET Jobs
      BY DEF UsedOf
    <3>3. Cardinality(EndedOf(asks[r])) >= tries[r] /\ tries[r] \in Nat
      BY <2>2, ReportAssumption DEF TriesCounted, TypeOK, RequestOK
    <3> QED
      BY <3>1, <3>2, <3>3, RowSets
  <2>4. rpc'[r] = "select" => Cardinality(UsedOf(asks[r])') >= tries'[r] + 1
    <3>1. PICK i : i = asks[r]
      OBVIOUS
    <3>2. UsedOf(asks[r])' = UsedOf(i)' /\ tries[r] \in Nat
      BY <1>0, <3>1, ReportAssumption DEF UsedOf, TypeOK, RequestOK
    <3> QED
      BY <1>1, <2>1, <2>2, <2>3, <3>1, <3>2
  <2> QED
    BY <1>0, <1>2, <2>1, <2>2, <2>4 DEF TriesCounted
<1>4. ASSUME NEW r \in Requests, EnqueueSelect(r) PROVE TriesCounted'
  <2>1. /\ rpc[r] = "select" /\ \A s \in Requests : s # r => rpc'[s] = rpc[s] /\ tries'[s] = tries[s]
        /\ UNCHANGED <<status, input>> /\ tries[r] \in Nat /\ MaxAttempts \in Nat
        /\ \/ rpc'[r] = "answered"
           \/ /\ Active(asks[r]) = {} /\ tries'[r] = tries[r] + 1
              /\ rpc'[r] = IF tries[r] + 1 < MaxAttempts THEN "insert" ELSE "refused"
    BY <1>4, ReportAssumption DEF EnqueueSelect, TypeOK, RequestOK, insert
  <2>2. ASSUME Active(asks[r]) = {} PROVE Cardinality(EndedOf(asks[r])') >= tries[r] + 1
    <3>1. UsedOf(asks[r]) = EndedOf(asks[r])'
      BY <1>0, <2>1, <2>2 DEF UsedOf, EndedOf, Active, Terminal, TypeOK, TableOK
    <3> QED
      BY <2>1, <3>1 DEF TriesCounted
  <2>3. /\ rpc'[r] = "insert" => Cardinality(EndedOf(asks[r])') >= tries'[r]
        /\ rpc'[r] = "refused" => Cardinality(EndedOf(asks[r])') >= MaxAttempts
        /\ rpc'[r] # "select"
    <3>1. CASE rpc'[r] = "answered"
      BY <3>1
    <3>2. CASE rpc'[r] # "answered"
      <4>1. PICK n : n = Cardinality(EndedOf(asks[r])')
        OBVIOUS
      <4>2. n >= tries[r] + 1 /\ n \in Nat
        <5>1. PICK i : i = asks[r]
          OBVIOUS
        <5>2. EndedOf(asks[r])' = EndedOf(i)'
          BY <1>0, <5>1 DEF EndedOf
        <5> QED
          BY <1>1, <2>1, <2>2, <3>2, <4>1, <5>2
      <4> QED
        BY <2>1, <3>2, <4>1, <4>2
    <3> QED
      BY <3>1, <3>2
  <2> QED
    BY <1>0, <1>2, <2>1, <2>3 DEF TriesCounted
<1>5. CASE UNCHANGED request
  BY <1>2, <1>5 DEF TriesCounted, request
<1> QED
  BY <1>3, <1>4, <1>5, RowsKept

(* The enqueue gives up only if that many jobs of its input ended between   *)
(* its inserts and its selects (ReportEnqueueError).                        *)
THEOREM Overtaken == Spec => []RefusedOnlyIfOvertaken
<1>1. Init => TriesCounted
  <2> SUFFICES ASSUME Init, NEW r \in Requests
               PROVE  rpc[r] = "insert" /\ Cardinality(EndedOf(asks[r])) >= tries[r]
    BY DEF Init, TriesCounted
  <2>1. EndedOf(asks[r]) = {}
    BY DEF Init, EndedOf, Terminal
  <2> QED
    BY <2>1, FS_EmptySet DEF Init
<1>2. IInv /\ IInv' /\ TriesCounted /\ [Next]_vars => TriesCounted'
  BY TriesStep DEF IInv
<1>3. TriesCounted => RefusedOnlyIfOvertaken
  BY DEF TriesCounted, RefusedOnlyIfOvertaken, EndedOf
<1> QED
  BY <1>1, <1>2, <1>3, Invariance, PTL DEF Spec

(***************************************************************************)
(* Refinement: the table and the workers' hands implement JobLifecycle.    *)
(***************************************************************************)

(* Steps that leave the table's statuses and everybody's hands alone.       *)
LEMMA InvisibleRefines ==
  ASSUME UNCHANGED <<status, input, claims, job>>, Unsure' = Unsure
  PROVE  UNCHANGED Lifecycle!jvars
BY DEF Lifecycle!jvars

(* A worker that is unsure is about to write a failure. *)
LEMMA UnsureFails ==
  ASSUME IInv, NEW w \in Workers
  PROVE  w \in Unsure => at[w] = "fail"
BY DEF IInv, HoldInv, CauseKnown, Unsure

(* The insert that the index lets through adds the next row of the table. *)
LEMMA InsertRefines ==
  ASSUME IInv, NEW i \in Inputs, NEW st \in {"pending", "succeeded"}, NEW p,
         Active(i) = {}, InsertRow(i, st, p), UNCHANGED <<claims, job>>, Unsure' = Unsure
  PROVE  Lifecycle!Next
<1>1. PICK j : j = rows + 1
  OBVIOUS
<1>2. j \in Jobs /\ rows \in Nat
  BY <1>1, ReportAssumption DEF InsertRow, IInv, TypeOK, TableOK, Jobs
<1>3. status[j] = "free" /\ \A k \in Jobs : k < j => status[k] # "free"
  <2>1. status[j] = "free"
    BY <1>1, <1>2 DEF IInv, TypeOK, RowsOK
  <2>2. ASSUME NEW k \in Jobs, k < j PROVE status[k] # "free"
    BY <1>1, <1>2, <2>2 DEF IInv, TypeOK, RowsOK, Jobs
  <2> QED
    BY <2>1, <2>2
<1>4. \A k \in Jobs : input[k] = i => status[k] \notin {"pending", "running"}
  BY DEF Active
<1>5. Lifecycle!Add(j, i, st)
  BY <1>1, <1>3, <1>4 DEF InsertRow, Lifecycle!Add, Lifecycle!Jobs, Lifecycle!Live, Jobs
<1> QED
  BY <1>2, <1>5 DEF Lifecycle!Next, Lifecycle!Jobs, Jobs

(* JobLifecycle counts with the same operator. *)
LEMMA SameCardinality == ASSUME NEW S PROVE Lifecycle!Cardinality(S) = Cardinality(S)
BY Zenon DEF Cardinality, Lifecycle!Cardinality

(* A claim takes a row of the queue in turn, whether or not the worker      *)
(* learns of it.                                                            *)
LEMMA ClaimRefines ==
  ASSUME IInv, NEW w \in Workers, NEW j \in Jobs, Claim(w, j) \/ ClaimUnseen(w, j)
  PROVE  Lifecycle!Next
<1>1. /\ status[j] = "pending" /\ at[w] = "idle" /\ IsNext(w, j)
      /\ status' = [status EXCEPT ![j] = "running"]
      /\ claims' = [claims EXCEPT ![j] = @ + 1]
      /\ UNCHANGED <<input, cause>>
  BY DEF Claim, ClaimUnseen, IsNext, SetRunning, Mark, insert, worker
<1>2. \/ job[w] = 0 /\ job' = [job EXCEPT ![w] = j]
      \/ UNCHANGED job
  BY DEF Claim, ClaimUnseen, worker, IInv, TypeOK, HandsOK, Idle, NoJob
<1>3. Unsure' = Unsure
  BY <1>1 DEF Unsure
(* The older rows are no more than the other idle workers, which are fewer   *)
(* than the workers with nothing in hand.                                    *)
<1>4. Cardinality({k \in Jobs : k < j /\ status[k] = "pending"})
        < Cardinality({v \in Workers : job[v] = 0})
  <2>1. PICK Older : Older = {k \in Jobs : k < j /\ status[k] = "pending"}
    OBVIOUS
  <2>2. PICK Others : Others = {v \in Workers \ {w} : at[v] = "idle"}
    OBVIOUS
  <2>3. PICK Free : Free = {v \in Workers : job[v] = 0}
    OBVIOUS
  <2>4. w \in Free /\ Others \subseteq Free \ {w}
    BY <1>1, <2>2, <2>3 DEF IInv, TypeOK, HandsOK, Idle, NoJob
  <2>5. IsFiniteSet(Free)
    BY <2>3, FS_Subset, ReportAssumption
  <2>6. /\ IsFiniteSet(Free \ {w}) /\ Cardinality(Free \ {w}) = Cardinality(Free) - 1
        /\ Cardinality(Free) \in Nat
    BY <2>4, <2>5, FS_RemoveElement, FS_CardinalityType
  <2>7. Cardinality(Others) <= Cardinality(Free \ {w}) /\ Cardinality(Others) \in Nat
    BY <2>4, <2>6, FS_Subset, FS_CardinalityType
  <2>8. Cardinality(Older) <= Cardinality(Others)
    BY <1>1, <2>1, <2>2 DEF IsNext
  <2>9. Cardinality(Older) \in Nat
    <3>1. IsFiniteSet(Jobs) /\ Older \subseteq Jobs
      BY <2>1, FS_Interval, ReportAssumption DEF Jobs
    <3> QED
      BY <3>1, FS_Subset, FS_CardinalityType
  <2> QED
    BY <2>1, <2>3, <2>6, <2>7, <2>8, <2>9
<1>5. Lifecycle!Claim(j)
  <2>1. \/ \E v \in Workers : job[v] = 0 /\ job' = [job EXCEPT ![v] = j]
        \/ UNCHANGED job
    BY <1>2
  <2>2. Lifecycle!Jobs = Jobs
    BY DEF Lifecycle!Jobs, Jobs
  <2>3. Lifecycle!Cardinality({k \in Lifecycle!Jobs : k < j /\ status[k] = "pending"})
          < Lifecycle!Cardinality({v \in Workers : job[v] = 0})
    BY <1>4, <2>2, SameCardinality, Zenon
  <2> QED
    BY <1>1, <1>3, <2>1, <2>3, Zenon DEF Lifecycle!Claim
<1> QED
  BY <1>5 DEF Lifecycle!Next, Lifecycle!Jobs, Jobs

(* A worker at work may write a verdict for its row. *)
LEMMA BusyMayWrite ==
  ASSUME IInv, NEW w \in Workers, at[w] \notin Idle
  PROVE  Lifecycle!MayWrite(w)
<1>1. job[w] # 0 /\ job[w] \in Jobs /\ job[w] <= rows
  BY ReportAssumption DEF IInv, TypeOK, HandsOK, WorkerOK, NoJob, Jobs
<1>2. status[job[w]] # "free"
  BY <1>1, ReportAssumption DEF IInv, TypeOK, TableOK, RowsOK, Jobs
<1>3. claims[job[w]] > 0
  BY <1>1 DEF IInv, HoldInv, ClaimsCounted, TypeOK, TableOK, NoJob
<1>4. status[job[w]] \in Terminal => claims[job[w]] > 1 \/ w \in Unsure
  BY <1>1 DEF IInv, HoldInv, VerdictKnown, Unsure, NoJob
<1> QED
  BY <1>1, <1>2, <1>3, <1>4 DEF Lifecycle!MayWrite, Lifecycle!Terminal, Terminal

(* A worker that lets go of its row is no longer unsure of it. *)
LEMMA ReleaseRefines ==
  ASSUME IInv, NEW w \in Workers, NEW place, Release(w, place)
  PROVE  Lifecycle!PutDown(w)
<1>1. Unsure' = Unsure \ {w}
  BY DEF Release, Unsure, IInv, TypeOK, WorkerOK
<1> QED
  BY <1>1 DEF Release, Lifecycle!PutDown, NoJob

(* The verdict of a worker, stored. *)
LEMMA FinishRefines ==
  ASSUME IInv, NEW w \in Workers, Store(w) \/ Fail(w)
  PROVE  Lifecycle!Next
<1>1. Lifecycle!MayWrite(w)
  BY BusyMayWrite DEF Store, Fail, Idle
<1>2. PICK v \in Terminal : /\ status' = [status EXCEPT ![job[w]] = v]
                            /\ w \in Unsure => v = "failed"
  <2>1. CASE Store(w)
    BY <2>1, UnsureFails DEF Store, SetSucceeded, Mark, Terminal
  <2>2. CASE Fail(w)
    BY <2>2 DEF Fail, Mark, Terminal
  <2> QED
    BY <2>1, <2>2
<1>3. Lifecycle!PutDown(w)
  BY ReleaseRefines DEF Store, Fail
<1>4. UNCHANGED <<input, claims>>
  BY DEF Store, Fail, insert, row
<1>5. Lifecycle!Finish(w, v)
  BY <1>1, <1>2, <1>3, <1>4 DEF Lifecycle!Finish
<1> QED
  BY <1>5 DEF Lifecycle!Next, Lifecycle!Terminal, Terminal

(* The verdict of a worker that does not learn whether it is stored. *)
LEMMA FinishUnseenRefines ==
  ASSUME IInv, NEW w \in Workers, StoreFails(w)
  PROVE  Lifecycle!Next
<1>1. Lifecycle!MayWrite(w) /\ w \notin Unsure
  BY BusyMayWrite, UnsureFails DEF StoreFails, Idle
<1>2. status' = [status EXCEPT ![job[w]] = "succeeded"] \/ UNCHANGED status
  BY DEF StoreFails, SetSucceeded, Mark
<1>3. Unsure' = Unsure \cup {w}
  BY DEF StoreFails, Raise, Unsure, IInv, TypeOK, WorkerOK
<1>4. UNCHANGED <<input, claims, job>>
  BY DEF StoreFails, Raise, insert, row
<1>5. Lifecycle!FinishUnseen(w)
  BY <1>1, <1>2, <1>3, <1>4 DEF Lifecycle!FinishUnseen
<1> QED
  BY <1>5 DEF Lifecycle!Next

(* A worker that stops, crashes or fails twice: idle, it had nothing in     *)
(* hand; busy, the row is left as it is.                                    *)
LEMMA AbandonRefines ==
  ASSUME IInv, NEW w \in Workers, FailFails(w) \/ DrainTimeout(w) \/ Crash(w)
  PROVE  Lifecycle!Next \/ UNCHANGED Lifecycle!jvars
<1>1. Lifecycle!PutDown(w)
  BY ReleaseRefines DEF FailFails, DrainTimeout, Crash
<1>2. UNCHANGED <<status, input, claims>>
  BY DEF FailFails, DrainTimeout, Crash, insert, row
<1>3. CASE job[w] # 0
  <2>1. Lifecycle!Abandon(w)
    BY <1>1, <1>2, <1>3 DEF Lifecycle!Abandon
  <2> QED
    BY <2>1 DEF Lifecycle!Next
<1>4. CASE job[w] = 0
  <2>1. w \notin Unsure
    BY <1>4, UnsureFails DEF IInv, TypeOK, HandsOK, NoJob, Idle
  <2>2. job' = job /\ Unsure' = Unsure
    BY <1>1, <1>4, <2>1 DEF Lifecycle!PutDown, IInv, TypeOK, WorkerOK
  <2> QED
    BY <1>2, <2>2, InvisibleRefines
<1> QED
  BY <1>3, <1>4

(* An exception of an earlier stage leaves the worker sure of its row. *)
LEMMA RaiseRefines ==
  ASSUME IInv, NEW w \in Workers, NEW what \in {"generate", "emit", "select"},
         at[w] # "fail", Raise(w, what)
  PROVE  UNCHANGED job /\ Unsure' = Unsure
<1>1. w \notin Unsure
  BY UnsureFails
<1> QED
  BY <1>1 DEF Raise, Unsure, IInv, TypeOK, WorkerOK

(* The report jobs behave as JobLifecycle allows: added where no active job *)
(* of the input is in the way, passed over only for free workers, put back  *)
(* only while running, and finished for good but for the cases of MayWrite. *)
THEOREM Refinement == Spec => ImplementsLifecycle
<1>1. Init => Lifecycle!Init
  <2> SUFFICES ASSUME Init PROVE Lifecycle!Init
    OBVIOUS
  <2>1. Unsure = {}
    BY DEF Init, Unsure
  <2> QED
    BY <2>1 DEF Init, Lifecycle!Init, Lifecycle!Jobs, Jobs, NoInput, NoJob
<1>2. IInv /\ [Next]_vars => [Lifecycle!Next]_(Lifecycle!jvars)
  <2> SUFFICES ASSUME IInv, [Next]_vars
               PROVE  Lifecycle!Next \/ UNCHANGED Lifecycle!jvars
    BY DEF Lifecycle!jvars
  <2>1. ASSUME NEW r \in Requests, EnqueueInsert(r) \/ EnqueueSelect(r)
        PROVE  Lifecycle!Next \/ UNCHANGED Lifecycle!jvars
    <3>1. UNCHANGED <<claims, job, cause>> /\ asks[r] \in Inputs
      BY <2>1 DEF EnqueueInsert, EnqueueSelect, row, worker, IInv, TypeOK, RequestOK
    <3>2. Unsure' = Unsure
      BY <3>1 DEF Unsure
    <3>3. CASE EnqueueInsert(r) /\ Active(asks[r]) = {}
      <4>1. InsertRow(asks[r], "pending", NoJob)
        BY <3>3 DEF EnqueueInsert
      <4> QED
        BY <3>1, <3>2, <3>3, <4>1, InsertRefines
    <3>4. CASE ~(EnqueueInsert(r) /\ Active(asks[r]) = {})
      <4>1. UNCHANGED <<status, input>>
        BY <2>1, <3>4 DEF EnqueueInsert, EnqueueSelect, insert
      <4> QED
        BY <3>1, <3>2, <4>1, InvisibleRefines
    <3> QED
      BY <3>3, <3>4
  <2>2. ASSUME NEW w \in Workers, RecoverStale(w)
        PROVE  Lifecycle!Next
    <3>1. Unsure' = Unsure
      BY <2>2 DEF RecoverStale, Unsure
    <3>2. Lifecycle!Requeue(StaleRows)
      BY <2>2, <3>1 DEF RecoverStale, StaleRows, insert, Lifecycle!Requeue, Lifecycle!Jobs, Jobs
    <3> QED
      BY <3>2 DEF Lifecycle!Next, StaleRows, Lifecycle!Jobs, Jobs
  <2>3. ASSUME NEW w \in Workers, NEW c \in Inputs, EmitChild(w, c)
        PROVE  Lifecycle!Next \/ UNCHANGED Lifecycle!jvars
    <3>1. UNCHANGED <<claims, job, cause>>
      BY <2>3 DEF EmitChild, row
    <3>2. Unsure' = Unsure
      BY <3>1 DEF Unsure
    <3>3. CASE Active(c) = {}
      <4>1. InsertRow(c, "succeeded", job[w])
        BY <2>3, <3>3 DEF EmitChild
      <4> QED
        BY <3>1, <3>2, <3>3, <4>1, InsertRefines
    <3>4. CASE Active(c) # {}
      <4>1. UNCHANGED <<status, input>>
        BY <2>3, <3>4 DEF EmitChild, insert
      <4> QED
        BY <3>1, <3>2, <4>1, InvisibleRefines
    <3> QED
      BY <3>3, <3>4
  <2>4. ASSUME NEW w \in Workers, NEW c \in Inputs, EmitUnseen(w, c)
        PROVE  Lifecycle!Next
    <3>1. at[w] # "fail" /\ Raise(w, "emit") /\ UNCHANGED claims
      BY <2>4 DEF EmitUnseen, row
    <3>2. UNCHANGED job /\ Unsure' = Unsure
      BY <3>1, RaiseRefines
    <3>3. Active(c) = {} /\ InsertRow(c, "succeeded", job[w])
      BY <2>4 DEF EmitUnseen
    <3> QED
      BY <3>1, <3>2, <3>3, InsertRefines
  <2>5. ASSUME NEW w \in Workers, GenerateFails(w) \/ EmitFails(w) \/ SelectFails(w)
        PROVE  UNCHANGED Lifecycle!jvars
    <3>1. /\ at[w] # "fail" /\ UNCHANGED <<status, input, claims>>
          /\ \E what \in {"generate", "emit", "select"} : Raise(w, what)
      BY <2>5 DEF GenerateFails, EmitFails, SelectFails, insert, row
    <3> QED
      BY <3>1, RaiseRefines, InvisibleRefines
  <2>6. ASSUME NEW w \in Workers,
               \/ Start(w) \/ RecoverFails(w) \/ Generate(w) \/ EmitLookup(w) \/ Select(w)
               \/ Exit(w) \/ Terminate(w)
        PROVE  UNCHANGED Lifecycle!jvars
    <3>1. UNCHANGED <<status, input, claims, job, cause>>
      BY <2>6 DEF Start, RecoverFails, Generate, EmitLookup, Select, Exit, Terminate, insert, row
    <3>2. Unsure' = Unsure
      BY <3>1 DEF Unsure
    <3> QED
      BY <3>1, <3>2, InvisibleRefines
  <2>7. ASSUME NEW w \in Workers, NEW built \in SUBSET Inputs, GenerateChildren(w, built)
        PROVE  UNCHANGED Lifecycle!jvars
    <3>1. UNCHANGED <<status, input, claims, job, cause>>
      BY <2>7 DEF GenerateChildren, insert, row
    <3>2. Unsure' = Unsure
      BY <3>1 DEF Unsure
    <3> QED
      BY <3>1, <3>2, InvisibleRefines
  <2>8. CASE Tick \/ UNCHANGED vars
    <3>1. UNCHANGED <<status, input, claims, job, cause>>
      BY <2>8 DEF Tick, vars, insert, row, worker
    <3>2. Unsure' = Unsure
      BY <3>1 DEF Unsure
    <3> QED
      BY <3>1, <3>2, InvisibleRefines
  <2>9. ASSUME NEW w \in Workers, WorkerStep(w)
        PROVE  Lifecycle!Next \/ UNCHANGED Lifecycle!jvars
    BY <2>2, <2>3, <2>4, <2>5, <2>6, <2>7, <2>9, ClaimRefines, FinishRefines,
       FinishUnseenRefines, AbandonRefines DEF WorkerStep
  <2> QED
    BY <2>1, <2>6, <2>8, <2>9, AbandonRefines DEF Next
<1> QED
  BY <1>1, <1>2, Invariance, PTL DEF Spec, ImplementsLifecycle, Lifecycle!Spec
=============================================================================
