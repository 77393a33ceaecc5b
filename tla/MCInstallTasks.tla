--------------------------- MODULE MCInstallTasks ---------------------------
(* Instances of InstallTasks for TLC: Rocky 9's allow-listed exit code, and  *)
(* reports an agent may publish.                                             *)
EXTENDS InstallTasks, TLC

CONSTANTS s1, r1, r2

AllowList == <<"windows">> :> {2} @@ <<"rocky", "9">> :> {3}

Rep(st, why, code, policy) ==
  [status |-> st, failure_reason |-> why, exit_code |-> code, os_family |-> "linux",
   os_version |-> <<"9", "4">>, os_id |-> "rocky", task_policy |-> policy]

(* A script failure that the allow-list forgives, and two statuses that the  *)
(* wire accepts and the engine has no meaning for.                          *)
ForgivenFailure == Rep("failure", "script_failed", 3, None)
FreeReports == {ForgivenFailure, Rep("pending", None, None, None),
                Rep("aborted", None, None, None)}

(* The forgiven failure, and a success the agent could not verify. *)
PolicyReports == {ForgivenFailure, Rep("success", None, 0, FALSE)}
=============================================================================
