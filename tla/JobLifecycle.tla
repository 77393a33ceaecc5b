---------------------------- MODULE JobLifecycle ----------------------------
(***************************************************************************)
(* What the diagnostic_jobs table promises (db/models/diagnostic_job.py):    *)
(* one active job per input, a queue in which a row is passed over only for   *)
(* free workers, back to the queue only from running, and a verdict that     *)
(* stands unless the row was claimed twice or its worker does not know that  *)
(* it has written it.  Requests, stages of the generation, children, clock   *)
(* and faults are not seen here.                                             *)
(***************************************************************************)
EXTENDS Integers, FiniteSets

CONSTANTS Inputs, Workers, MaxJobs

VARIABLES
  status,  \* status[j], "free" if there is no row
  input,   \* input[j]: what is reported on
  turns,   \* turns[j]: how often the row was claimed
  hand,    \* hand[w]: the row a worker works for, 0 if none
  unsure   \* workers that do not know whether their success is stored

jvars == <<status, input, turns, hand, unsure>>

Jobs     == 1..MaxJobs
Terminal == {"succeeded", "failed"}
Live     == {"pending", "running"}

Init ==
  /\ status = [j \in Jobs |-> "free"]
  /\ input = [j \in Jobs |-> "none"]
  /\ turns = [j \in Jobs |-> 0]
  /\ hand = [w \in Workers |-> 0]
  /\ unsure = {}

(* A row is added: to the queue by a request, finished by a selection.      *)
Add(j, i, st) ==
  /\ status[j] = "free" /\ \A k \in Jobs : k < j => status[k] # "free"
  /\ \A k \in Jobs : input[k] = i => status[k] \notin Live
  /\ status' = [status EXCEPT ![j] = st]
  /\ input' = [input EXCEPT ![j] = i]
  /\ UNCHANGED <<turns, hand, unsure>>

(* A row of the queue is claimed, by nobody if the answer is lost; it passes *)
(* over fewer rows than there are workers free to claim.                     *)
Claim(j) ==
  /\ status[j] = "pending"
  /\ Cardinality({k \in Jobs : k < j /\ status[k] = "pending"})
       < Cardinality({w \in Workers : hand[w] = 0})
  /\ status' = [status EXCEPT ![j] = "running"]
  /\ turns' = [turns EXCEPT ![j] = @ + 1]
  /\ \/ \E w \in Workers : hand[w] = 0 /\ hand' = [hand EXCEPT ![w] = j]
     \/ UNCHANGED hand
  /\ UNCHANGED <<input, unsure>>

Requeue(S) ==
  /\ \A j \in S : status[j] = "running"
  /\ status' = [j \in Jobs |-> IF j \in S THEN "pending" ELSE status[j]]
  /\ UNCHANGED <<input, turns, hand, unsure>>

(* The worker may write a verdict for its row. *)
MayWrite(w) ==
  /\ hand[w] # 0 /\ status[hand[w]] # "free" /\ turns[hand[w]] > 0
  /\ status[hand[w]] \in Terminal => turns[hand[w]] > 1 \/ w \in unsure

PutDown(w) ==
  /\ hand' = [hand EXCEPT ![w] = 0]
  /\ unsure' = unsure \ {w}

(* One that is unsure of its success writes a failure. *)
Finish(w, verdict) ==
  /\ MayWrite(w) /\ (w \in unsure => verdict = "failed")
  /\ status' = [status EXCEPT ![hand[w]] = verdict]
  /\ PutDown(w)
  /\ UNCHANGED <<input, turns>>

FinishUnseen(w) ==
  /\ MayWrite(w) /\ w \notin unsure
  /\ status' = [status EXCEPT ![hand[w]] = "succeeded"] \/ UNCHANGED status
  /\ unsure' = unsure \cup {w}
  /\ UNCHANGED <<input, turns, hand>>

Abandon(w) ==
  /\ hand[w] # 0
  /\ PutDown(w)
  /\ UNCHANGED <<status, input, turns>>

Next ==
  \/ \E j \in Jobs, i \in Inputs : Add(j, i, "pending") \/ Add(j, i, "succeeded")
  \/ \E j \in Jobs : Claim(j)
  \/ \E S \in SUBSET Jobs : Requeue(S)
  \/ \E w \in Workers : \/ \E v \in Terminal : Finish(w, v)
                        \/ FinishUnseen(w) \/ Abandon(w)

Spec == Init /\ [][Next]_jvars
=============================================================================
