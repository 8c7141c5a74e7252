-------------------------------- MODULE Boot --------------------------------
(***************************************************************************)
(* app_main of src/src/main.cpp from reset to reset: the crash log first,  *)
(* then the tasks, and among them the health check of a new image.         *)
(* CrashLog and OtaHealth share the resets: a crash, a power failure, an   *)
(* update, a rollback.                                                     *)
(***************************************************************************)
EXTENDS CrashLog, OtaHealth

CONSTANTS MaxResets   \* bound: the resets that nobody asked for

VARIABLES resets      \* how many there have been

vars == <<crashVars, otaVars, resets>>

Init == CrashInit /\ OtaInit /\ resets = 0

\* A crash or a power failure, which is not told from a normal start.
Fails ==
  /\ resets < MaxResets /\ resets' = resets + 1
  /\ MayReset
  /\ \E ab \in BOOLEAN : CrashReset(ab)
  /\ OtaReset

\* A restart of the software: an update, or a rollback.  (Bound: no updates
\* where crash_log_init may be interrupted.)
Restarts ==
  /\ pc = "ready" \/ clearing
  /\ MayReset
  /\ (scenario = {} /\ Update) \/ RollsBack
  /\ CrashReset(FALSE)
  /\ UNCHANGED resets

CrashSteps == CrashNext /\ UNCHANGED <<otaVars, resets>>

TaskSteps ==
  /\ pc = "ready" \/ clearing
  /\ TaskCreated \/ HealthNext \/ LinksChange
  /\ UNCHANGED <<crashVars, resets>>

Next == Fails \/ Restarts \/ CrashSteps \/ TaskSteps

\* app_main goes on and the task is scheduled.  A rollback may have to wait
\* for "crash clear" where the scenario has no reset in it.
Fairness ==
  /\ WF_vars(pc # "ready" /\ CrashSteps)
  /\ WF_vars(TaskSteps /\ hc' # hc)
  /\ SF_vars(Restarts /\ hc = "decide")

Spec == Init /\ [][Next]_vars /\ Fairness
=============================================================================
