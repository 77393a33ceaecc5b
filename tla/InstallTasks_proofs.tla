------------------------ MODULE InstallTasks_proofs ------------------------
(***************************************************************************)
(* Proofs about InstallTasks for every set of servers, requests and        *)
(* reports, and every window.                                              *)
(***************************************************************************)
EXTENDS InstallTasks, TLAPS

(* A timeout statement only writes statuses. *)
LEMMA TimeoutType ==
  ASSUME TypeOK, NEW S, SetTimeout(S)
  PROVE  /\ status' \in [Tasks -> Statuses]
         /\ reason' \in [Tasks -> FailureReasons]
         /\ deadline' \in [Tasks -> Nat]
BY DEF TypeOK, SetTimeout, Statuses, FailureReasons

(* The target of an open transaction is one of the task ids. *)
LEMMA TaskOf ==
  ASSUME NEW r \in Requests, NEW s \in Servers
  PROVE  <<r, s>> \in Tasks /\ <<r, s>>[1] = r /\ <<r, s>>[2] = s
BY DEF Tasks

(* The tags of a missing and of an open row are no status a row can have. *)
LEMMA Tags ==
  /\ NoRow # Draft
  /\ NoRow \notin {"pending", "failure"} /\ Draft \notin {"pending", "failure"}
  /\ \A rep \in Reports : /\ EffectiveResult(rep)[1] \in Statuses
                          /\ EffectiveResult(rep)[1] \notin {NoRow, Draft}
<1>1. \A rep \in Reports : EffectiveResult(rep)[1] \in Outcomes
  BY DEF Outcomes
<1> QED
  BY <1>1, InstallAssumption DEF Statuses

(***************************************************************************)
(* The inductive invariant.                                                *)
(***************************************************************************)

(* An open transaction belongs to the request that is publishing it. *)
OpenInsert ==
  /\ \A r \in Requests, s \in Servers :
       status[<<r, s>>] = Draft => pc[r] \in {"publish", "commit"} /\ current[r] = s
  /\ \A r \in Requests :
       pc[r] \in {"publish", "commit"} =>
         current[r] \in Servers /\ status[<<r, current[r]>>] = Draft

(* The index counts the open inserts too. *)
OneLive ==
  \A q, r \in Requests, s \in Servers :
    /\ status[<<q, s>>] \in {Draft, "pending"}
    /\ status[<<r, s>>] \in {Draft, "pending"}
    => q = r

(* A target still to do has no row yet. *)
FreshTargets ==
  \A r \in Requests, s \in Servers :
    \/ pc[r] \in {"start", "resolve"}
    \/ pc[r] = "loop" /\ s \in todo[r]
    \/ pc[r] \in {"publish", "commit"} /\ s \in todo[r] /\ s # current[r]
    => status[<<r, s>>] = NoRow

(* What is committed, or about to be, was published, and so was what an      *)
(* agent reports about.                                                      *)
Published ==
  /\ \A t \in Tasks : status[t] = "pending" => message[t] # "none"
  /\ \A r \in Requests : pc[r] = "commit" => message[<<r, current[r]>>] # "none"
  /\ \A t \in Tasks : result[t] # "none" => message[t] # "none"

(* What the row of a stored report says. *)
Outcome(t) ==
  \/ /\ status[t] = EffectiveResult(report[t])[1]
     /\ reason[t] = EffectiveResult(report[t])[2]
  \/ EffectiveResult(report[t])[1] = "pending" /\ HitByTimeout(t)

(* A stored report is one an agent sent, about a row that stays. *)
Reported ==
  \A t \in Tasks :
    /\ result[t] # "none" => report[t] \in Reports
    /\ result[t] = "applied" => Committed(t) /\ Outcome(t)

(* Without a report a task fails only after its deadline. *)
FailedLate ==
  \A t \in Tasks : status[t] = "failure" /\ result[t] # "applied" => deadline[t] < now

IInv ==
  /\ TypeOK
  /\ OpenInsert
  /\ OneLive
  /\ FreshTargets
  /\ Published
  /\ Reported
  /\ FailedLate

(* The invariant holds initially. *)
LEMMA InitIInv == Init => IInv
<1> SUFFICES ASSUME Init PROVE IInv
  OBVIOUS
<1>1. TypeOK
  <2>1. None \in FailureReasons
    BY DEF FailureReasons
  <2> QED
    BY <2>1, InstallAssumption DEF Init, TypeOK, Places, Statuses, NoReport
<1>2. \A r \in Requests, s \in Servers : <<r, s>> \in Tasks
  BY DEF Tasks
<1>3. OpenInsert /\ OneLive /\ FreshTargets
  BY <1>2, Tags DEF Init, OpenInsert, OneLive, FreshTargets
<1>4. Published /\ Reported /\ FailedLate
  <2>1. \A r \in Requests : pc[r] # "commit"
    BY DEF Init
  <2> QED
    BY <2>1, Tags DEF Init, Published, Reported, FailedLate
<1> QED
  BY <1>1, <1>3, <1>4 DEF IInv

(* Timing out overdue tasks keeps the invariant: they are pending, hence    *)
(* neither open nor reported.                                               *)
LEMMA TimeoutKeepsIInv ==
  ASSUME IInv, NEW targets, SetTimeout(Overdue(targets)),
         UNCHANGED <<now, message, result, report>>
  PROVE  /\ status' \in [Tasks -> Statuses]
         /\ deadline' \in [Tasks -> Nat]
         /\ OneLive' /\ Reported' /\ FailedLate'
         /\ \A t \in Tasks : /\ (status'[t] = Draft) = (status[t] = Draft)
                             /\ (status'[t] = NoRow) = (status[t] = NoRow)
                             /\ status'[t] = "pending" => status[t] = "pending"
<1> USE DEF IInv, TypeOK, SetTimeout, Overdue
<1>0. \A r \in Requests, s \in Servers : <<r, s>> \in Tasks
  BY DEF Tasks
<1>1. \A t \in Tasks : /\ (status'[t] = Draft) = (status[t] = Draft)
                       /\ (status'[t] = NoRow) = (status[t] = NoRow)
                       /\ status'[t] = "pending" => status[t] = "pending"
  BY Tags
<1>2. status' \in [Tasks -> Statuses] /\ deadline' \in [Tasks -> Nat]
  BY DEF Statuses
<1>3. OneLive'
  BY <1>0, <1>1 DEF OneLive
<1>4. Reported'
  <2> SUFFICES ASSUME NEW t \in Tasks, result[t] = "applied"
               PROVE  Committed(t)' /\ Outcome(t)'
    BY DEF Reported
  <2>1. Committed(t) /\ Outcome(t)
    BY DEF Reported
  <2>2. Committed(t)'
    BY <1>1, <2>1 DEF Committed
  <2>3. CASE t \in Overdue(targets)
    <3>1. status[t] = "pending" /\ deadline[t] < now
      BY <2>3
    <3>2. EffectiveResult(report[t])[1] = "pending"
      BY <2>1, <3>1 DEF Outcome, HitByTimeout
    <3>3. status'[t] = "failure" /\ reason'[t] = "timeout"
      BY <2>3
    <3>4. HitByTimeout(t)'
      BY <3>1, <3>3 DEF HitByTimeout
    <3> QED
      BY <2>2, <3>2, <3>4 DEF Outcome
  <2>4. CASE t \notin Overdue(targets)
    <3>1. status'[t] = status[t] /\ reason'[t] = reason[t]
      BY <2>4
    <3>2. report' = report /\ deadline' = deadline /\ now' = now
      OBVIOUS
    <3> QED
      BY <2>1, <2>2, <3>1, <3>2 DEF Outcome, HitByTimeout
  <2> QED
    BY <2>2, <2>3, <2>4
<1>5. FailedLate'
  BY DEF FailedLate
<1> QED
  BY <1>1, <1>2, <1>3, <1>4, <1>5

(* The steps of a request keep the invariant. *)
LEMMA RequestKeepsIInv ==
  ASSUME IInv, NEW r \in Requests, RequestStep(r)
  PROVE  IInv'
<1> USE DEF IInv, TypeOK, table, install, answer, Goto
<1>0. \A q \in Requests, s \in Servers :
        /\ <<q, s>> \in Tasks
        /\ \A p \in Requests, u \in Servers : <<q, s>> = <<p, u>> => q = p /\ s = u
  BY DEF Tasks
<1>1. CASE RejectUnknown(r)
  <2>1. \A s \in Servers : status[<<r, s>>] = NoRow
    BY <1>1 DEF RejectUnknown, FreshTargets
  <2>2. TypeOK'
    BY <1>1 DEF RejectUnknown, Places
  <2>3. OpenInsert' /\ OneLive' /\ FreshTargets'
    BY <1>0, <1>1, <2>1 DEF RejectUnknown, OpenInsert, OneLive, FreshTargets
  <2>4. Published' /\ Reported' /\ FailedLate'
    BY <1>1 DEF RejectUnknown, Published, Reported, Outcome, Committed,
         HitByTimeout, FailedLate
  <2> QED
    BY <2>2, <2>3, <2>4
<1>8. CASE InsertFails(r)
  <2>1. TypeOK'
    BY <1>8 DEF InsertFails, Places
  <2>2. OpenInsert' /\ OneLive' /\ FreshTargets'
    BY <1>0, <1>8 DEF InsertFails, OpenInsert, OneLive, FreshTargets
  <2>3. Published' /\ Reported' /\ FailedLate'
    BY <1>8 DEF InsertFails, Published, Reported, Outcome, Committed,
         HitByTimeout, FailedLate
  <2> QED
    BY <2>1, <2>2, <2>3
<1>2. CASE CheckTargets(r)
  <2>1. PICK targets \in SUBSET Servers : SetTimeout(Overdue(targets))
    BY <1>2 DEF CheckTargets
  <2>2. UNCHANGED <<now, current, message, sentAt, result, report>>
    BY <1>2 DEF CheckTargets
  <2>3. TypeOK'
    BY <1>2, <2>1, <2>2, TimeoutType, InstallAssumption DEF CheckTargets, Places
  <2>4. /\ OneLive' /\ Reported' /\ FailedLate'
        /\ \A t \in Tasks : /\ (status'[t] = Draft) = (status[t] = Draft)
                            /\ (status'[t] = NoRow) = (status[t] = NoRow)
                            /\ status'[t] = "pending" => status[t] = "pending"
    BY <2>1, <2>2, TimeoutKeepsIInv
  <2>5. OpenInsert' /\ FreshTargets' /\ Published'
    BY <1>0, <1>2, <2>2, <2>4 DEF CheckTargets, OpenInsert, FreshTargets, Published
  <2> QED
    BY <2>3, <2>4, <2>5
<1>3. CASE ResolvePackages(r)
  <2>1. TypeOK'
    BY <1>3 DEF ResolvePackages, Places
  <2>2. OpenInsert' /\ OneLive' /\ FreshTargets'
    BY <1>0, <1>3 DEF ResolvePackages, OpenInsert, OneLive, FreshTargets
  <2>3. Published' /\ Reported' /\ FailedLate'
    BY <1>3 DEF ResolvePackages, Published, Reported, Outcome, Committed,
         HitByTimeout, FailedLate
  <2> QED
    BY <2>1, <2>2, <2>3
<1>4. ASSUME NEW s \in Servers, InsertTask(r, s)
      PROVE  IInv'
  <2> DEFINE t == <<r, s>>
  <2>1. CASE \E q \in Requests : status[<<q, s>>] = "pending"
    <3>1. /\ pc[r] = "loop" /\ pc' = [pc EXCEPT ![r] = "failed"]
          /\ UNCHANGED <<now, todo, current, dueAt, status, reason, deadline,
                         message, sentAt, result, report>>
      BY <1>4, <2>1 DEF InsertTask
    <3>2. TypeOK'
      BY <3>1 DEF Places
    <3>3. OpenInsert' /\ OneLive' /\ FreshTargets'
      BY <3>1 DEF OpenInsert, OneLive, FreshTargets
    <3>4. Published' /\ Reported' /\ FailedLate'
      BY <3>1 DEF Published, Reported, Outcome, Committed,
         HitByTimeout, FailedLate
    <3> QED
      BY <3>2, <3>3, <3>4
  <2>2. CASE ~ \E q \in Requests : status[<<q, s>>] = "pending"
    <3>1. /\ pc[r] = "loop" /\ s \in todo[r] /\ t \in Tasks
          /\ pc' = [pc EXCEPT ![r] = "publish"]
          /\ current' = [current EXCEPT ![r] = s]
          /\ status' = [status EXCEPT ![t] = Draft]
          /\ deadline' = [deadline EXCEPT ![t] = dueAt[r]]
          /\ UNCHANGED <<now, todo, dueAt, reason, message, sentAt, result, report>>
      BY <1>0, <1>4, <2>2 DEF InsertTask
    <3>2. status[t] = NoRow
      BY <3>1 DEF FreshTargets
    <3>3. \A u \in Tasks : status'[u] = IF u = t THEN Draft ELSE status[u]
      BY <3>1
    <3>4. \A q \in Requests, u \in Servers :
            status'[<<q, u>>] = IF q = r /\ u = s THEN Draft ELSE status[<<q, u>>]
      BY <1>0, <3>3
    <3>5. TypeOK'
      BY <3>1 DEF Places, Statuses
    <3>6. OneLive'
      <4>1. \A q \in Requests : status[<<q, s>>] \notin {Draft, "pending"}
        BY <1>4, <2>2 DEF InsertTask
      <4> QED
        BY <3>4, <4>1 DEF OneLive
    <3>7. OpenInsert' /\ FreshTargets'
      BY <3>1, <3>4 DEF OpenInsert, FreshTargets
    <3>8. Published'
      BY <1>0, <3>1, <3>3, Tags DEF Published
    <3>9. Reported'
      <4>1. result[t] # "applied"
        BY <3>1, <3>2 DEF Reported, Committed
      <4> QED
        BY <3>1, <3>3, <4>1 DEF Reported, Outcome, Committed, HitByTimeout
    <3>10. FailedLate'
      <4>1. \A u \in Tasks : u # t => deadline'[u] = deadline[u]
        BY <3>1
      <4> QED
        BY <3>1, <3>3, <4>1, Tags DEF FailedLate
    <3> QED
      BY <3>5, <3>6, <3>7, <3>8, <3>9, <3>10
  <2> QED
    BY <2>1, <2>2
<1>5. CASE PublishInstall(r)
  <2>0. current[r] \in Servers
    BY <1>5 DEF PublishInstall, OpenInsert
  <2>1. TypeOK'
    BY <1>0, <1>5, <2>0 DEF PublishInstall, Enqueue, Places
  <2>2. OpenInsert' /\ OneLive' /\ FreshTargets'
    BY <1>0, <1>5 DEF PublishInstall, OpenInsert, OneLive, FreshTargets
  <2>3. Published' /\ Reported' /\ FailedLate'
    BY <1>0, <1>5, <2>0 DEF PublishInstall, Enqueue, Published, Reported, Outcome, Committed,
         HitByTimeout, FailedLate
  <2> QED
    BY <2>1, <2>2, <2>3
<1>6. CASE PublishFails(r) \/ CommitFails(r)
  <2> DEFINE t == <<r, current[r]>>
  <2>1. /\ current[r] \in Servers /\ status[t] = Draft /\ t \in Tasks
        /\ pc' = [pc EXCEPT ![r] = "failed"]
        /\ status' = [status EXCEPT ![t] = NoRow]
        /\ UNCHANGED <<now, todo, current, dueAt, reason, deadline, result, report>>
    BY <1>0, <1>6 DEF PublishFails, CommitFails, Rollback, OpenInsert
  <2>2. \/ UNCHANGED <<message, sentAt>>
        \/ /\ message' = [message EXCEPT ![t] = "queued"]
           /\ sentAt' = [sentAt EXCEPT ![t] = now]
    BY <1>6 DEF PublishFails, CommitFails, Enqueue
  <2>3. \A u \in Tasks : status'[u] = IF u = t THEN NoRow ELSE status[u]
    BY <2>1
  <2>4. \A q \in Requests, u \in Servers :
          status'[<<q, u>>] = IF q = r /\ u = current[r] THEN NoRow ELSE status[<<q, u>>]
    BY <1>0, <2>1, <2>3
  <2>5. TypeOK'
    <3>1. now \in Nat
      BY InstallAssumption
    <3>2. /\ message' \in [Tasks -> {"none", "queued", "taken", "expired"}]
          /\ sentAt' \in [Tasks -> Nat]
      BY <2>2, <3>1
    <3> QED
      BY <2>1, <3>2 DEF Places, Statuses
  <2>6. OpenInsert' /\ OneLive' /\ FreshTargets'
    BY <2>1, <2>4, Tags DEF OpenInsert, OneLive, FreshTargets
  <2>7. Published'
    <3>1. \A u \in Tasks : message[u] # "none" => message'[u] # "none"
      BY <2>1, <2>2
    <3> QED
      BY <1>0, <2>1, <2>3, <3>1, Tags DEF Published, OpenInsert
  <2>8. Reported'
    <3>1. result[t] # "applied"
      BY <2>1 DEF Reported, Committed
    <3> QED
      BY <2>1, <2>3, <3>1 DEF Reported, Outcome, Committed, HitByTimeout
  <2>9. FailedLate'
    BY <2>1, <2>3, Tags DEF FailedLate
  <2> QED
    BY <2>5, <2>6, <2>7, <2>8, <2>9
<1>7. CASE CommitTask(r) \/ CommitUnseen(r)
  <2> DEFINE t == <<r, current[r]>>
  <2>0. PICK place \in {"done", "loop", "failed"}, rest \in SUBSET todo[r] :
          /\ place # "failed" => rest = todo[r] \ {current[r]}
          /\ pc' = [pc EXCEPT ![r] = place]
          /\ todo' = [todo EXCEPT ![r] = rest]
    <3>1. CASE CommitTask(r)
      BY <3>1 DEF CommitTask
    <3>2. CASE CommitUnseen(r)
      <4>1. todo' = [todo EXCEPT ![r] = todo[r]]
        BY <3>2 DEF CommitUnseen
      <4> QED
        BY <3>2, <4>1 DEF CommitUnseen
    <3> QED
      BY <1>7, <3>1, <3>2
  <2>1. /\ pc[r] = "commit"
        /\ current[r] \in Servers /\ status[t] = Draft /\ t \in Tasks
        /\ status' = [status EXCEPT ![t] = "pending"]
        /\ UNCHANGED <<now, current, dueAt, reason, deadline, message, sentAt,
                       result, report>>
    BY <1>0, <1>7 DEF CommitTask, CommitUnseen, CommitRow, OpenInsert
  <2>2. \A u \in Tasks : status'[u] = IF u = t THEN "pending" ELSE status[u]
    BY <2>1
  <2>3. \A q \in Requests, u \in Servers :
          status'[<<q, u>>] = IF q = r /\ u = current[r] THEN "pending"
                              ELSE status[<<q, u>>]
    BY <1>0, <2>1, <2>2
  <2>4. TypeOK'
    BY <2>0, <2>1 DEF Places, Statuses
  <2>5. OpenInsert'
    BY <2>0, <2>1, <2>3, Tags DEF OpenInsert
  <2>6. OneLive'
    BY <2>1, <2>3 DEF OneLive
  <2>7. FreshTargets'
    BY <2>0, <2>1, <2>3 DEF FreshTargets
  <2>8. Published'
    BY <1>0, <2>0, <2>1, <2>2 DEF Published, OpenInsert
  <2>9. Reported'
    <3>1. result[t] # "applied"
      BY <2>1 DEF Reported, Committed
    <3> QED
      BY <2>1, <2>2, <3>1 DEF Reported, Outcome, Committed, HitByTimeout
  <2>10. FailedLate'
    BY <2>1, <2>2 DEF FailedLate
  <2> QED
    BY <2>4, <2>5, <2>6, <2>7, <2>8, <2>9, <2>10
<1> QED
  BY <1>1, <1>2, <1>3, <1>4, <1>5, <1>6, <1>7, <1>8 DEF RequestStep

(* Nothing but time and messages moves. *)
LEMMA QuietKeepsIInv ==
  ASSUME IInv, TypeOK',
         UNCHANGED <<pc, todo, current, status, reason, deadline>>,
         now' \in Nat, now <= now',
         \A t \in Tasks : message[t] # "none" => message'[t] # "none",
         \A t \in Tasks : result'[t] = "applied" <=> result[t] = "applied",
         \A t \in Tasks : result'[t] # "none" => report'[t] \in Reports
                                                /\ message'[t] # "none",
         \A t \in Tasks : result[t] = "applied" => report'[t] = report[t]
  PROVE  IInv'
<1> USE DEF IInv
<1>1. OpenInsert' /\ OneLive' /\ FreshTargets'
  BY DEF OpenInsert, OneLive, FreshTargets
<1>2. Published'
  <2>1. \A r \in Requests : pc[r] = "commit" => <<r, current[r]>> \in Tasks
    BY DEF OpenInsert, Tasks
  <2> QED
    BY <2>1 DEF Published
<1>3. Reported'
  <2> SUFFICES ASSUME NEW t \in Tasks, result[t] = "applied"
               PROVE  Committed(t)' /\ Outcome(t)'
    BY DEF Reported
  <2>1. Committed(t) /\ Outcome(t)
    BY DEF Reported
  <2> QED
    BY <2>1, InstallAssumption DEF Committed, Outcome, HitByTimeout, TypeOK
<1>4. FailedLate'
  BY InstallAssumption DEF FailedLate, TypeOK
<1> QED
  BY <1>1, <1>2, <1>3, <1>4

(* A report that changes no row leaves the invariant alone. *)
LEMMA UnstoredKeepsIInv ==
  ASSUME IInv, NEW t \in Tasks, HandleResult(t), ResultUnmatched(t) \/ ResultRejected(t)
  PROVE  IInv'
<1> USE DEF IInv, TypeOK, request, install
<1>1. PICK end \in {"unmatched", "rejected"} :
        /\ result[t] = "sent" /\ result' = [result EXCEPT ![t] = end]
        /\ UNCHANGED <<now, pc, todo, current, dueAt, status, reason, deadline,
                       message, sentAt, report>>
  BY DEF HandleResult, ResultUnmatched, ResultRejected
<1>2. TypeOK'
  BY <1>1
<1>3. \A u \in Tasks : result'[u] = IF u = t THEN end ELSE result[u]
  BY <1>1
<1> QED
  BY <1>1, <1>2, <1>3, QuietKeepsIInv, InstallAssumption DEF Reported, Published

(* Storing the agent's report. *)
LEMMA StoredKeepsIInv ==
  ASSUME IInv, NEW t \in Tasks, HandleResult(t), ResultStored(t)
  PROVE  IInv'
<1> USE DEF IInv, TypeOK, request, install
<1>0. \A q \in Requests, u \in Servers : <<q, u>> \in Tasks
  BY DEF Tasks
<1>1. report[t] \in Reports /\ result[t] = "sent" /\ Committed(t) /\ message[t] # "none"
  BY DEF HandleResult, ResultStored, Reported, Published
<1> DEFINE verdict == EffectiveResult(report[t])
<1>2. verdict[1] \in Statuses /\ verdict[1] \notin {NoRow, Draft}
  BY <1>1, Tags
<1>3. verdict[1] = "pending" => ~OtherRow(t, "pending") /\ ~OtherRow(t, Draft)
  BY DEF ResultStored
<1>4. /\ status' = [status EXCEPT ![t] = verdict[1]]
      /\ reason' = [reason EXCEPT ![t] = verdict[2]]
      /\ result' = [result EXCEPT ![t] = "applied"]
      /\ UNCHANGED <<now, pc, todo, current, dueAt, deadline, message, sentAt, report>>
  BY DEF HandleResult, ResultStored
<1>5. verdict[2] \in FailureReasons
  BY <1>1 DEF FailureReasons
<1> HIDE DEF verdict
<1>6. /\ \A u \in Tasks : status'[u] = IF u = t THEN verdict[1] ELSE status[u]
      /\ \A u \in Tasks : result'[u] = IF u = t THEN "applied" ELSE result[u]
      /\ \A u \in Tasks : reason'[u] = IF u = t THEN verdict[2] ELSE reason[u]
  BY <1>4
<1>7. TypeOK'
  BY <1>2, <1>4, <1>5
<1>8. OpenInsert'
  <2>1. \A r \in Requests : pc[r] \in {"publish", "commit"} => <<r, current[r]>> # t
    BY <1>1 DEF OpenInsert, Committed
  <2> QED
    BY <1>0, <1>2, <1>4, <1>6, <2>1 DEF OpenInsert
<1>9. OneLive'
  <2> SUFFICES ASSUME NEW q \in Requests, NEW r \in Requests, NEW s \in Servers,
                      status'[<<q, s>>] \in {Draft, "pending"},
                      status'[<<r, s>>] \in {Draft, "pending"}, q # r
               PROVE  FALSE
    BY DEF OneLive
  <2>1. <<q, s>> = t \/ <<r, s>> = t
    BY <1>0, <1>6 DEF OneLive
  <2>2. verdict[1] = "pending"
    BY <1>0, <1>2, <1>6, <2>1
  <2>3. PICK p \in Requests \ {t[1]} : status[<<p, t[2]>>] \in {Draft, "pending"}
    <3>1. CASE <<q, s>> = t
      <4>1. t[1] = q /\ t[2] = s /\ <<r, s>> # t
        BY <3>1
      <4> QED
        BY <1>0, <1>6, <4>1
    <3>2. CASE <<r, s>> = t
      <4>1. t[1] = r /\ t[2] = s /\ <<q, s>> # t
        BY <3>2
      <4> QED
        BY <1>0, <1>6, <4>1
    <3> QED
      BY <2>1, <3>1, <3>2
  <2> QED
    BY <1>3, <2>2, <2>3 DEF OtherRow
<1>10. FreshTargets'
  BY <1>0, <1>1, <1>4, <1>6 DEF FreshTargets, Committed
<1>11. Published'
  BY <1>1, <1>4, <1>6 DEF Published
<1>12. Reported'
  <2> SUFFICES ASSUME NEW u \in Tasks,
                      result'[u] # "none"
               PROVE  /\ report'[u] \in Reports
                      /\ result'[u] = "applied" => Committed(u)' /\ Outcome(u)'
    BY DEF Reported
  <2>1. CASE u = t
    BY <1>1, <1>2, <1>4, <1>6, <2>1 DEF Outcome, Committed, verdict
  <2>2. CASE u # t
    <3>1. /\ result[u] = result'[u] /\ status[u] = status'[u] /\ reason[u] = reason'[u]
          /\ UNCHANGED <<report, deadline, now>>
      BY <1>4, <1>6, <2>2
    <3> QED
      BY <3>1 DEF Reported, Outcome, Committed, HitByTimeout
  <2> QED
    BY <2>1, <2>2
<1>13. FailedLate'
  BY <1>4, <1>6 DEF FailedLate
<1> QED
  BY <1>7, <1>8, <1>9, <1>10, <1>11, <1>12, <1>13

(* The handler of a result keeps the invariant. *)
LEMMA ResultKeepsIInv ==
  ASSUME IInv, NEW t \in Tasks, HandleResult(t)
  PROVE  IInv'
BY UnstoredKeepsIInv, StoredKeepsIInv DEF HandleResult

(* Every step of the system keeps the invariant. *)
LEMMA NextKeepsIInv ==
  ASSUME IInv, [Next]_vars
  PROVE  IInv'
<1> USE DEF request, table, install, answer
<1>0. TypeOK /\ now \in Nat
  BY InstallAssumption DEF IInv, TypeOK
<1>1. ASSUME NEW r \in Requests, RequestStep(r)
      PROVE  IInv'
  BY <1>1, RequestKeepsIInv
<1>2. ASSUME NEW t \in Tasks, AgentTakes(t) \/ MessageExpires(t)
      PROVE  IInv'
  <2>1. TypeOK'
    BY <1>0, <1>2 DEF AgentTakes, MessageExpires, TypeOK
  <2> QED
    BY <1>0, <1>2, <2>1, QuietKeepsIInv
       DEF AgentTakes, MessageExpires, TypeOK, IInv, Reported, Published
<1>3. ASSUME NEW t \in Tasks, AgentReports(t)
      PROVE  IInv'
  <2>1. PICK rep \in Reports : report' = [report EXCEPT ![t] = rep]
    BY <1>3 DEF AgentReports
  <2>2. TypeOK'
    BY <1>0, <1>3, <2>1 DEF AgentReports, TypeOK
  <2> QED
    BY <1>0, <1>3, <2>1, <2>2, QuietKeepsIInv
       DEF AgentReports, TypeOK, IInv, Reported, Published
<1>4. ASSUME NEW t \in Tasks, HandleResult(t)
      PROVE  IInv'
  BY <1>4, ResultKeepsIInv
<1>5. ASSUME NEW t \in Tasks, LoseResult(t)
      PROVE  IInv'
  <2>1. TypeOK'
    BY <1>0, <1>5 DEF LoseResult, TypeOK
  <2> QED
    BY <1>0, <1>5, <2>1, QuietKeepsIInv
       DEF LoseResult, TypeOK, IInv, Reported, Published
<1>6. CASE Reap
  <2>1. /\ SetTimeout(Overdue(Servers))
        /\ UNCHANGED <<now, pc, todo, current, dueAt, message, sentAt, result, report>>
    BY <1>6 DEF Reap
  <2>2. TypeOK'
    BY <1>0, <2>1, TimeoutType DEF TypeOK
  <2>3. /\ OneLive' /\ Reported' /\ FailedLate'
        /\ \A t \in Tasks : /\ (status'[t] = Draft) = (status[t] = Draft)
                            /\ (status'[t] = NoRow) = (status[t] = NoRow)
                            /\ status'[t] = "pending" => status[t] = "pending"
    BY <2>1, TimeoutKeepsIInv
  <2>4. \A q \in Requests, s \in Servers : <<q, s>> \in Tasks
    BY DEF Tasks
  <2>5. OpenInsert' /\ FreshTargets' /\ Published'
    BY <2>1, <2>3, <2>4 DEF IInv, OpenInsert, FreshTargets, Published
  <2> QED
    BY <2>2, <2>3, <2>5 DEF IInv
<1>7. CASE Tick
  <2>1. TypeOK' /\ now' \in Nat /\ now <= now'
    BY <1>0, <1>7, InstallAssumption DEF Tick, TypeOK
  <2> QED
    BY <1>7, <2>1, QuietKeepsIInv DEF Tick, IInv, Reported, Published
<1>8. CASE UNCHANGED vars
  BY <1>8 DEF vars, IInv, TypeOK, OpenInsert, OneLive, FreshTargets, Published,
              Reported, Outcome, Committed, HitByTimeout, FailedLate
<1> QED
  BY <1>1, <1>2, <1>3, <1>4, <1>5, <1>6, <1>7, <1>8 DEF Next

(* The inductive invariant holds in every reachable state. *)
THEOREM Invariance == Spec => []IInv
BY InitIInv, NextKeepsIInv, PTL DEF Spec

(* Every reachable state is well formed. *)
THEOREM TypeCorrect == Spec => []TypeOK
BY Invariance, PTL DEF IInv

(* However many operators issue tasks at once, a server has at most one     *)
(* pending task.                                                            *)
THEOREM OnePending == Spec => []AtMostOnePending
<1>1. IInv => AtMostOnePending
  BY DEF IInv, OneLive, AtMostOnePending
<1> QED
  BY <1>1, Invariance, PTL

(* No pending task without an install message. *)
THEOREM NoGhosts == Spec => []NoGhostPending
<1>1. IInv => NoGhostPending
  BY DEF IInv, Published, NoGhostPending
<1> QED
  BY <1>1, Invariance, PTL

(* Whatever string an agent reports as its status, the row keeps what the    *)
(* report amounts to; only a report that leaves the task pending can be      *)
(* followed by a timeout.                                                   *)
THEOREM OutcomesStand == Spec => []ReportedOutcomeStands
<1>1. IInv => ReportedOutcomeStands
  <2> SUFFICES ASSUME IInv, NEW t \in Tasks, result[t] = "applied"
               PROVE  \/ <<status[t], reason[t]>> = EffectiveResult(report[t])
                      \/ EffectiveResult(report[t])[1] = "pending" /\ HitByTimeout(t)
    BY DEF ReportedOutcomeStands
  <2>1. Outcome(t) /\ report[t] \in Reports
    BY DEF IInv, Reported
  <2>2. EffectiveResult(report[t])
          = <<EffectiveResult(report[t])[1], EffectiveResult(report[t])[2]>>
    BY DEF EffectiveResult
  <2> QED
    BY <2>1, <2>2 DEF Outcome
<1> QED
  BY <1>1, Invariance, PTL

(* A timed-out task is still deliverable only if it was published after its *)
(* deadline had been computed.                                              *)
THEOREM ZombiesArePublishedLate == Spec => []ZombieOnlyIfPublishedLate
<1>1. IInv => ZombieOnlyIfPublishedLate
  BY InstallAssumption
     DEF IInv, TypeOK, FailedLate, ZombieOnlyIfPublishedLate, Deliverable, TimedOut,
         MessageTtl
<1> QED
  BY <1>1, Invariance, PTL


(***************************************************************************)
(* Refinement: the tasks table implements TaskLifecycle.                   *)
(***************************************************************************)
State    == [t \in Tasks |-> IF Committed(t) THEN status[t] ELSE NoRow]
ReportedTasks == {t \in Tasks : result[t] = "applied"}

(* Timing out overdue tasks is the abstract timeout of the same tasks. *)
LEMMA TimeoutRefines ==
  ASSUME IInv, NEW targets, SetTimeout(Overdue(targets)), UNCHANGED result
  PROVE  Lifecycle!Next
<1>0. PICK S \in SUBSET Tasks : S = Overdue(targets)
  BY DEF Overdue
<1>1. S \subseteq {t \in Tasks : State[t] = "pending"}
  BY <1>0, Tags DEF Overdue, State, Committed
<1>2. State' = [t \in Tasks |-> IF t \in S THEN "failure" ELSE State[t]]
  BY <1>0, Tags DEF State, Committed, SetTimeout, Overdue
<1>3. UNCHANGED ReportedTasks
  BY DEF ReportedTasks
<1>4. Lifecycle!TimeOut(S)
  BY <1>1, <1>2, <1>3 DEF Lifecycle!TimeOut, Lifecycle!Pending, State, ReportedTasks
<1> QED
  BY <1>4 DEF Lifecycle!Next, Lifecycle!TimeOut

(* A commit issues the task: the index keeps the server free until then. *)
LEMMA CommitRefines ==
  ASSUME IInv, NEW r \in Requests, CommitTask(r) \/ CommitUnseen(r)
  PROVE  Lifecycle!Next
<1>0. current[r] \in Servers /\ status[<<r, current[r]>>] = Draft
  BY DEF CommitTask, CommitUnseen, IInv, OpenInsert
<1>1. PICK t \in Tasks : t = <<r, current[r]>>
  BY <1>0 DEF Tasks
<1>2. State[t] = NoRow
  BY <1>0, <1>1 DEF State, Committed
<1>3. \A u \in Tasks : u[2] = t[2] => State[u] # "pending"
  <2> SUFFICES ASSUME NEW q \in Requests, status[<<q, current[r]>>] = "pending"
               PROVE  FALSE
    BY <1>1, Tags DEF Tasks, State, Committed
  <2> QED
    BY <1>0, Tags DEF IInv, OneLive, OpenInsert
<1>4. status' = [status EXCEPT ![t] = "pending"] /\ UNCHANGED result
  BY <1>1 DEF CommitTask, CommitUnseen, CommitRow, answer
<1>5. State' = [State EXCEPT ![t] = "pending"]
  BY <1>1, <1>4, Tags DEF State, Committed, IInv, TypeOK
<1>6. UNCHANGED ReportedTasks
  BY <1>4 DEF ReportedTasks
<1>7. Lifecycle!Issue(t)
  BY <1>2, <1>3, <1>5, <1>6 DEF Lifecycle!Issue, State, ReportedTasks
<1> QED
  BY <1>7 DEF Lifecycle!Next

(* A stored report completes the task. *)
LEMMA ResultRefines ==
  ASSUME IInv, NEW t \in Tasks, HandleResult(t), ResultStored(t)
  PROVE  Lifecycle!Next
<1>0. result[t] = "sent" /\ Committed(t) /\ report[t] \in Reports
  BY DEF HandleResult, ResultStored, IInv, Reported
<1>1. PICK o \in Outcomes : o = EffectiveResult(report[t])[1]
  BY <1>0 DEF Outcomes
<1>2. /\ status' = [status EXCEPT ![t] = o]
      /\ result' = [result EXCEPT ![t] = "applied"]
  BY <1>1 DEF ResultStored
<1>3. State' = [State EXCEPT ![t] = o]
  <2>1. o \notin {NoRow, Draft}
    BY <1>0, <1>1, Tags
  <2> QED
    BY <1>2, <2>1 DEF State, Committed, IInv, TypeOK
<1>4. ReportedTasks' = ReportedTasks \cup {t} /\ t \notin ReportedTasks
  BY <1>0, <1>2 DEF ReportedTasks, IInv, TypeOK
<1>5. State[t] # NoRow
  BY <1>0 DEF State, Committed
<1>6. o = "pending" => \A u \in Tasks \ {t} : u[2] = t[2] => State[u] # "pending"
  <2> SUFFICES ASSUME o = "pending", NEW u \in Tasks \ {t}, u[2] = t[2],
                      status[u] = "pending"
               PROVE  FALSE
    BY Tags DEF State
  <2>1. u[1] \in Requests \ {t[1]} /\ u = <<u[1], t[2]>>
    BY DEF Tasks
  <2>2. OtherRow(t, "pending")
    BY <2>1 DEF OtherRow
  <2> QED
    BY <1>1, <2>2 DEF ResultStored
<1>7. Lifecycle!Complete(t, o)
  BY <1>3, <1>4, <1>5, <1>6 DEF Lifecycle!Complete, State, ReportedTasks
<1> QED
  BY <1>1, <1>7 DEF Lifecycle!Next

(* Everything else is invisible in the table. *)
LEMMA InvisibleRefines ==
  ASSUME IInv,
         \A t \in Tasks : Committed(t)' = Committed(t) /\ (Committed(t) => status'[t] = status[t]),
         \A t \in Tasks : result'[t] = "applied" <=> result[t] = "applied"
  PROVE  UNCHANGED Lifecycle!lvars
<1>1. State' = State /\ ReportedTasks' = ReportedTasks
  BY DEF State, ReportedTasks
<1> QED
  BY <1>1 DEF Lifecycle!lvars, State, ReportedTasks

(* The tasks table behaves as TaskLifecycle allows: issued once, one pending *)
(* task per server, and a reported outcome is final.                         *)
THEOREM Refinement == Spec => ImplementsLifecycle
<1>1. Init => Lifecycle!Init
  <2> SUFFICES ASSUME Init PROVE Lifecycle!Init
    OBVIOUS
  <2>1. State = [t \in Tasks |-> NoRow] /\ ReportedTasks = {}
    BY DEF Init, State, ReportedTasks, Committed
  <2> QED
    BY <2>1 DEF Lifecycle!Init, State, ReportedTasks
<1>2. IInv /\ [Next]_vars => [Lifecycle!Next]_(Lifecycle!lvars)
  <2> SUFFICES ASSUME IInv, [Next]_vars
               PROVE  Lifecycle!Next \/ UNCHANGED Lifecycle!lvars
    BY DEF Lifecycle!lvars
  <2> USE DEF request, table, install, answer
  <2>1. ASSUME NEW r \in Requests, RequestStep(r)
        PROVE  Lifecycle!Next \/ UNCHANGED Lifecycle!lvars
    <3>1. CASE CheckTargets(r)
      BY <3>1, TimeoutRefines DEF CheckTargets
    <3>2. CASE CommitTask(r) \/ CommitUnseen(r)
      BY <3>2, CommitRefines
    <3>3. ASSUME NEW s \in Servers, InsertTask(r, s)
          PROVE  UNCHANGED Lifecycle!lvars
      <4>1. <<r, s>> \in Tasks /\ status[<<r, s>>] = NoRow
        BY <3>3 DEF InsertTask, IInv, FreshTargets, Tasks
      <4>2. \A t \in Tasks : /\ Committed(t)' = Committed(t)
                             /\ Committed(t) => status'[t] = status[t]
        <5>1. UNCHANGED status \/ status' = [status EXCEPT ![<<r, s>>] = Draft]
          BY <3>3 DEF InsertTask
        <5> QED
          BY <4>1, <5>1 DEF Committed, IInv, TypeOK
      <4> QED
        BY <3>3, <4>2, InvisibleRefines DEF InsertTask
    <3>4. CASE PublishFails(r) \/ CommitFails(r)
      <4>1. <<r, current[r]>> \in Tasks /\ status[<<r, current[r]>>] = Draft
        BY <3>4 DEF PublishFails, CommitFails, IInv, OpenInsert, Tasks
      <4>2. \A t \in Tasks : /\ Committed(t)' = Committed(t)
                             /\ Committed(t) => status'[t] = status[t]
        BY <3>4, <4>1 DEF PublishFails, CommitFails, Rollback, Committed, IInv, TypeOK
      <4> QED
        BY <3>4, <4>2, InvisibleRefines DEF PublishFails, CommitFails
    <3>5. CASE RejectUnknown(r) \/ InsertFails(r) \/ ResolvePackages(r) \/ PublishInstall(r)
      BY <3>5, InvisibleRefines
         DEF RejectUnknown, InsertFails, ResolvePackages, PublishInstall, Committed
    <3> QED
      BY <2>1, <3>1, <3>2, <3>3, <3>4, <3>5 DEF RequestStep
  <2>2. ASSUME NEW t \in Tasks, HandleResult(t)
        PROVE  Lifecycle!Next \/ UNCHANGED Lifecycle!lvars
    <3>1. CASE ResultStored(t)
      BY <2>2, <3>1, ResultRefines
    <3>2. CASE ResultUnmatched(t) \/ ResultRejected(t)
      BY <2>2, <3>2, InvisibleRefines
         DEF HandleResult, ResultUnmatched, ResultRejected, Committed, IInv, TypeOK
    <3> QED
      BY <2>2, <3>1, <3>2 DEF HandleResult
  <2>3. ASSUME NEW t \in Tasks,
               AgentTakes(t) \/ MessageExpires(t) \/ AgentReports(t) \/ LoseResult(t)
        PROVE  UNCHANGED Lifecycle!lvars
    BY <2>3, InvisibleRefines
       DEF AgentTakes, MessageExpires, AgentReports, LoseResult, Committed, IInv, TypeOK
  <2>4. CASE Reap
    BY <2>4, TimeoutRefines DEF Reap
  <2>5. CASE Tick \/ UNCHANGED vars
    BY <2>5, InvisibleRefines DEF Tick, vars, Committed
  <2> QED
    BY <2>1, <2>2, <2>3, <2>4, <2>5 DEF Next
<1> QED
  BY <1>1, <1>2, Invariance, PTL DEF Spec, ImplementsLifecycle, Lifecycle!Spec

=============================================================================
