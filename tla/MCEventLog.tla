----------------------------- MODULE MCEventLog -----------------------------
(* Instances of EventLog for TLC. *)
EXTENDS EventLog

OneRetry == <<1>>
SchedulerOnly == {"scheduler"}
SchedulerAndCommand == {"scheduler", "cmd_sync"}
=============================================================================
