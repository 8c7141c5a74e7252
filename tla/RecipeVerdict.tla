--------------------------- MODULE RecipeVerdict ----------------------------
(***************************************************************************)
(* What a run of a recipe promises about its verdict, whatever the order   *)
(* of the steps, the retries and the moment the timeout falls              *)
(* (recipe_result_t and the criticality rules of recipe_engine.h/.c):      *)
(* failures of steps that count make the run worse and never better, and   *)
(* the verdict is the one that the worst failure calls for.  A timeout may *)
(* replace PASS or FAIL, never ABORT.                                      *)
(***************************************************************************)
VARIABLES
  worst,    \* the worst failure so far: "none", "REQUIRED" or "CRITICAL"
  verdict   \* "running", then recipe_result_t

Init == worst = "none" /\ verdict = "running"

RequiredFails ==
  /\ verdict = "running" /\ worst \in {"none", "REQUIRED"}
  /\ worst' = "REQUIRED"
  /\ UNCHANGED verdict

CriticalFails ==
  /\ verdict = "running" /\ worst \in {"none", "REQUIRED"}
  /\ worst' = "CRITICAL"
  /\ UNCHANGED verdict

Allowed(w) == CASE w = "none"     -> {"PASS", "TIMEOUT"}
                [] w = "REQUIRED" -> {"FAIL", "TIMEOUT"}
                [] w = "CRITICAL" -> {"ABORT"}

Conclude ==
  /\ verdict = "running"
  /\ verdict' \in Allowed(worst)
  /\ UNCHANGED worst

Next == RequiredFails \/ CriticalFails \/ Conclude

Safety == Init /\ [][Next]_<<worst, verdict>>

Spec == Safety /\ WF_verdict(Conclude)
=============================================================================
