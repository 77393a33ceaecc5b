---------------------------- MODULE TaskLifecycle ----------------------------
(***************************************************************************)
(* What the tasks table promises (db/models/task.py): a task is issued once, *)
(* a server has one pending task at a time, a pending task ends by its       *)
(* deadline or by the agent's report, and a reported outcome is final.  A    *)
(* report may still replace a timeout, never the other way round.  The       *)
(* outcome is any string: one that says "pending" keeps the task running,    *)
(* and is accepted only if the server has no other pending task.             *)
(***************************************************************************)
CONSTANTS
  Tasks, Servers, ServerOf,
  Absent,    \* the state of a task that was not issued: no outcome
  Outcomes   \* what an agent may report

VARIABLES state, reported

lvars == <<state, reported>>

Pending  == {t \in Tasks : state[t] = "pending"}

Init ==
  /\ state = [t \in Tasks |-> Absent]
  /\ reported = {}

Issue(t) ==
  /\ state[t] = Absent
  /\ \A u \in Tasks : ServerOf[u] = ServerOf[t] => state[u] # "pending"
  /\ state' = [state EXCEPT ![t] = "pending"]
  /\ UNCHANGED reported

TimeOut(S) ==
  /\ S \subseteq Pending
  /\ state' = [t \in Tasks |-> IF t \in S THEN "failure" ELSE state[t]]
  /\ UNCHANGED reported

Complete(t, outcome) ==
  /\ state[t] # Absent /\ t \notin reported
  /\ outcome = "pending" =>
       \A u \in Tasks \ {t} : ServerOf[u] = ServerOf[t] => state[u] # "pending"
  /\ state' = [state EXCEPT ![t] = outcome]
  /\ reported' = reported \cup {t}

Next ==
  \/ \E t \in Tasks : Issue(t) \/ \E o \in Outcomes : Complete(t, o)
  \/ \E S \in SUBSET Pending : TimeOut(S)

Spec == Init /\ [][Next]_lvars
=============================================================================
