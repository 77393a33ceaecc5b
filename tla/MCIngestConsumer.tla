-------------------------- MODULE MCIngestConsumer --------------------------
(* Instances of IngestConsumer for TLC.                                     *)
EXTENDS IngestConsumer, TLC

CONSTANTS c1, c2, c3, c4, m1, m2, m3, m4, a1

(* One message that its agent published twice. *)
TwinMsgOf  == c1 :> m1 @@ c2 :> m1
TwinKindOf == m1 :> "metrics"
TwinAgent  == m1 :> a1

(* The two copies of the same message are interchangeable. *)
TwinSymmetry == Permutations({c1, c2})

(* A task result, one whose task_id is not a UUID and a malformed one       *)
(* compete for one prefetch slot; an error message has clocks out of order. *)
QueueMsgOf  == c1 :> m1 @@ c2 :> m2 @@ c3 :> m3 @@ c4 :> m4
QueueKindOf == m1 :> "task.result" @@ m2 :> "task.result"
                 @@ m3 :> "task.result" @@ m4 :> "error"
QueueAgent  == [i \in {m1, m2, m3, m4} |-> a1]
=============================================================================
