----------------------------- MODULE TaskPolicy -----------------------------
(***************************************************************************)
(* consumer/task_policy.py: what the engine makes of an agent's report.    *)
(* A version is the sequence of its dotted parts and an allow-list key the *)
(* sequence of the parts it is joined from, so that "rocky:9" is           *)
(* <<"rocky", "9">> and "windows" is <<"windows">>.                        *)
(***************************************************************************)
EXTENDS Integers, Sequences

CONSTANTS
  None,                 \* Python's None
  SuccessExitCodes      \* task_install_success_exit_codes: key -> exit codes

(* The keys under which an exit code may be listed as a success. *)
MatchKeys(rep) ==
  CASE rep.os_family = "windows" ->
         {<<"windows">>} \cup (IF rep.os_version = <<>> THEN {} ELSE {rep.os_version})
    [] rep.os_family = "linux" /\ rep.os_id # None /\ rep.os_version # <<>> ->
         {<<rep.os_id, Head(rep.os_version)>>}
    [] OTHER -> {}

(* effective_task_result: the verified-installation signal decides; without *)
(* it, a script that ran and failed with a listed exit code is a success,   *)
(* and everything else passes through.                                      *)
EffectiveResult(rep) ==
  CASE rep.task_policy = TRUE -> <<"success", None>>
    [] rep.task_policy = FALSE ->
         <<"failure", IF rep.failure_reason = None THEN "install_unverified"
                      ELSE rep.failure_reason>>
    [] rep.task_policy = None ->
         IF /\ rep.status = "failure"
            /\ rep.failure_reason = "script_failed"
            /\ rep.exit_code # None
            /\ \E key \in MatchKeys(rep) \cap DOMAIN SuccessExitCodes :
                  rep.exit_code \in SuccessExitCodes[key]
         THEN <<"success", None>>
         ELSE <<rep.status, rep.failure_reason>>
=============================================================================
