------------------------------ MODULE TestCycle ------------------------------
(***************************************************************************)
(* A test cycle from outside the recipe engine: the gate powers the DUT    *)
(* (src/src/pre_test_gate.c), the recipe task runs the recipe and reports  *)
(* (src/src/recipe_task.c), the watchdog looks for a DUT that is pulled    *)
(* out (FLT-011), and the state machine ends the test by cutting the power *)
(* (dut_power_cut of src/src/g3_primitives.c).                             *)
(*                                                                         *)
(* The state machine belongs to a module outside this repository; what it  *)
(* does here is what its callers, their comments and the manual say.  It   *)
(* cannot end the recipe task, whose handle tc_sm_spawn_recipe_task keeps  *)
(* to itself.  A recipe is its number of steps; a step is power_check or   *)
(* one that leaves the power alone.                                        *)
(***************************************************************************)
EXTENDS Integers

CONSTANTS
  StepCount,     \* steps of the recipe
  Scenarios      \* what may happen besides, each a set of
                 \* "remove" the DUT may be pulled out at any time
                 \* "stale"  a start while the published presence is out of date
                 \* "abort"  sm abort during a test

ASSUME StepCountAssumption == StepCount \in Nat
ASSUME ScenariosAssumption == Scenarios \subseteq SUBSET {"remove", "stale", "abort"}

VARIABLES
  sm,
  gate,               \* the pre-gate task: "none", "start" or "powered"
  recipe,             \* where the recipe task is; "none" when there is none
  left,               \* steps it has still to run
  outcome,            \* what it is going to report
  watchdog,           \* dut_watchdog_task: "none" or "sleep"
  consecutive_zero,
  vdut, pba,          \* VDUT1 is on; PB-A is asserted
  seated,             \* there is a DUT in the fixture
  s_dut_present,      \* what the detection has published
  scenario            \* the one this behaviour is of

power == <<vdut, pba>>
engine == <<recipe, left, outcome>>
dog == <<watchdog, consecutive_zero>>
fixture == <<seated, s_dut_present>>
vars == <<sm, gate, engine, dog, power, fixture, scenario>>

\* Nobody aborts a test or starts one on a stale presence; the DUT may go.
Orderly == scenario \subseteq {"remove"}

Outcomes == {"PASS", "FAIL", "ABORTED"}
Ended == Outcomes \cup {"ESTOP"}

Init ==
  /\ sm = "IDLE" /\ gate = "none"
  /\ recipe = "none" /\ left = 0 /\ outcome = "PASS"
  /\ watchdog = "none" /\ consecutive_zero = 0
  /\ vdut = FALSE /\ pba = FALSE
  /\ seated \in BOOLEAN /\ s_dut_present = FALSE
  /\ scenario \in Scenarios

\* dut_power_cut.
dut_power_cut == vdut' = FALSE /\ pba' = FALSE

-----------------------------------------------------------------------------
(***************************************************************************)
(* The state machine before the test, and the gate.                        *)
(***************************************************************************)
\* tc_sm_cmd_start: the detection is told to stop, its result is frozen.
CmdStart ==
  /\ sm = "IDLE"
  /\ "stale" \in scenario \/ s_dut_present = seated
  /\ sm' = "PRECHECK"
  /\ UNCHANGED <<gate, engine, dog, power, fixture, scenario>>

PrecheckEnds ==
  /\ sm = "PRECHECK"
  /\ \/ sm' = "PRE_GATE" /\ gate' = "start"
     \/ sm' = "FAIL" /\ UNCHANGED gate
  /\ UNCHANGED <<engine, dog, power, fixture, scenario>>

\* pre_gate_task, step 1.
GatePowersUp ==
  /\ gate = "start"
  /\ vdut' = TRUE /\ pba' = TRUE
  /\ gate' = "powered"
  /\ UNCHANGED <<sm, engine, dog, fixture, scenario>>

\* Step 1 without a calibration: nothing was switched on.
GateUncalibrated ==
  /\ gate = "start"
  /\ gate' = "none" /\ sm' = "FAIL"
  /\ UNCHANGED <<engine, dog, power, fixture, scenario>>

\* Mutation: a failing gate forgets the converter.
OnlyPbAOff == pba' = FALSE /\ UNCHANGED vdut
\* power_off.
GatePowersOff == pba' = FALSE /\ vdut' = FALSE

\* A current out of range, or no UID.
GateFails ==
  /\ gate = "powered"
  /\ GatePowersOff
  /\ gate' = "none" /\ sm' = "FAIL"
  /\ UNCHANGED <<engine, dog, fixture, scenario>>

(***************************************************************************)
(* tc_sm_pre_gate_done(true) and tc_sm_spawn_recipe_task.  There is a DUT: *)
(* it drew current and gave its UID.  The gate has settled for 500 ms      *)
(* (pre_test_gate.c:99): a watchdog of an earlier test, asleep for 300 ms, *)
(* has ended, and a recipe task that had reported has deleted itself.  One *)
(* that outlived an abort is replaced, as if its stack were free.          *)
(***************************************************************************)
GatePasses ==
  /\ gate = "powered" /\ seated /\ watchdog = "none" /\ recipe # "exiting"
  /\ gate' = "none" /\ sm' = "TESTING"
  /\ recipe' = "load" /\ left' = StepCount /\ outcome' = "PASS"
  /\ watchdog' = "sleep" /\ consecutive_zero' = 0
  /\ UNCHANGED <<power, fixture, scenario>>

\* The spawn fails (malloc): the SM, which holds its lock, ends the test.
SpawnFails ==
  /\ gate = "powered" /\ seated
  /\ gate' = "none" /\ sm' = "ABORTED"
  /\ dut_power_cut
  /\ UNCHANGED <<engine, dog, fixture, scenario>>

Gate == GatePowersUp \/ GateUncalibrated \/ GateFails \/ GatePasses \/ SpawnFails

-----------------------------------------------------------------------------
(***************************************************************************)
(* recipe_run_task.                                                        *)
(***************************************************************************)
\* Mutation: a recipe that is not found is not reported.
EndsSilently == recipe' = "none" /\ UNCHANGED outcome
\* No recipe is configured, or it is not found, or corrupt.
NoRecipe == recipe' = "done" /\ outcome' = "ABORTED"

LoadRecipe ==
  /\ recipe = "load"
  /\ (recipe' = "step" /\ UNCHANGED outcome) \/ NoRecipe
  /\ UNCHANGED <<sm, gate, left, dog, power, fixture, scenario>>

\* Mutation: the loop runs one step too many.
OneMore == left >= 0
StepsLeft == left > 0

\* A step's verdict: go on, go on with a failure, or a critical failure.
StepEnds ==
  /\ left' = left - 1
  /\ \/ recipe' = "step" /\ (UNCHANGED outcome \/ outcome' = "FAIL")
     \/ recipe' = "critical" /\ outcome' = "ABORTED"

OtherStep ==
  /\ recipe = "step" /\ StepsLeft
  /\ StepEnds
  /\ UNCHANGED <<sm, gate, dog, power, fixture, scenario>>

\* run_power_check: "if (!vdac_is_enabled(0))".
PowerCheckLooks ==
  /\ recipe = "step" /\ StepsLeft
  /\ recipe' = IF vdut THEN "assert" ELSE "enable"
  /\ UNCHANGED <<sm, gate, left, outcome, dog, power, fixture, scenario>>

PowerCheckEnables ==
  /\ recipe = "enable"
  /\ vdut' = TRUE
  /\ recipe' = "assert"
  /\ UNCHANGED <<sm, gate, left, outcome, dog, pba, fixture, scenario>>

PowerCheckUncalibrated ==
  /\ recipe = "enable"
  /\ left' = left - 1
  /\ \/ recipe' = "step" /\ outcome' = "FAIL"
     \/ recipe' = "critical" /\ outcome' = "ABORTED"
  /\ UNCHANGED <<sm, gate, dog, power, fixture, scenario>>

PowerCheckAsserts ==
  /\ recipe = "assert"
  /\ pba' = TRUE
  /\ recipe' = "measure"
  /\ UNCHANGED <<sm, gate, left, outcome, dog, vdut, fixture, scenario>>

\* The measurement, and u8_mux_release after it: KEEPALIVE takes over.
PowerCheckMeasures ==
  /\ recipe = "measure"
  /\ pba' = FALSE
  /\ StepEnds
  /\ UNCHANGED <<sm, gate, dog, vdut, fixture, scenario>>

\* g3_critical_abort, then the engine returns.
CriticalAbort ==
  /\ recipe = "critical"
  /\ dut_power_cut
  /\ recipe' = "done"
  /\ UNCHANGED <<sm, gate, left, outcome, dog, fixture, scenario>>

StepsDone ==
  /\ recipe = "step" /\ left = 0
  /\ recipe' = "done"
  /\ UNCHANGED <<sm, gate, left, outcome, dog, power, fixture, scenario>>

\* Mutation: the task does not delete itself.
TaskStays == UNCHANGED recipe
TaskReturns == recipe' = "exiting"

\* tc_sm_recipe_done: the SM ends the test (tc_sm_on_test_end) if there is one.
RecipeDone ==
  /\ recipe = "done"
  /\ TaskReturns
  /\ IF sm = "TESTING" THEN sm' = outcome /\ dut_power_cut ELSE UNCHANGED <<sm, power>>
  /\ UNCHANGED <<gate, left, outcome, dog, fixture, scenario>>

\* vTaskDelete(NULL); the SM may be several states further by now.
TaskDeleted ==
  /\ recipe = "exiting"
  /\ recipe' = "none"
  /\ UNCHANGED <<sm, gate, left, outcome, dog, power, fixture, scenario>>

Recipe ==
  \/ LoadRecipe \/ OtherStep \/ PowerCheckLooks \/ PowerCheckEnables \/ PowerCheckUncalibrated
  \/ PowerCheckAsserts \/ PowerCheckMeasures \/ CriticalAbort \/ StepsDone \/ RecipeDone
  \/ TaskDeleted

-----------------------------------------------------------------------------
(***************************************************************************)
(* dut_watchdog_task: one turn of its loop.                                *)
(***************************************************************************)
\* A current below WATCHDOG_NEAR_ZERO_MA; with a DUT, a step may cause it.
NearZero == {TRUE} \cup IF seated /\ vdut THEN {FALSE} ELSE {}

NotTesting == sm # "TESTING"

WatchdogEnds ==
  /\ watchdog = "sleep" /\ NotTesting
  /\ watchdog' = "none"
  /\ UNCHANGED <<sm, gate, engine, consecutive_zero, power, fixture, scenario>>

WatchdogReadsCurrent ==
  /\ watchdog = "sleep" /\ sm = "TESTING"
  /\ \/ consecutive_zero' = 0 /\ FALSE \in NearZero
     \/ consecutive_zero' = 0                                  \* I2C error
     \/ TRUE \in NearZero /\ consecutive_zero = 0 /\ consecutive_zero' = 1
  /\ UNCHANGED <<sm, gate, engine, watchdog, power, fixture, scenario>>

Gone == ~s_dut_present

\* The second near-zero reading: dut_detect_present() decides.
SecondZero == watchdog = "sleep" /\ sm = "TESTING" /\ TRUE \in NearZero /\ consecutive_zero = 1

WatchdogKeepsWatching ==
  /\ SecondZero /\ ~Gone
  /\ consecutive_zero' = 0
  /\ UNCHANGED <<sm, gate, engine, watchdog, power, fixture, scenario>>

\* tc_sm_cmd_dut_removed: E-STOP, which ends the test.
WatchdogStops ==
  /\ SecondZero /\ Gone
  /\ sm' = "ESTOP" /\ dut_power_cut
  /\ watchdog' = "none" /\ consecutive_zero' = 0
  /\ UNCHANGED <<gate, engine, fixture, scenario>>

Watchdog == WatchdogEnds \/ WatchdogReadsCurrent \/ WatchdogKeepsWatching \/ WatchdogStops

-----------------------------------------------------------------------------
(***************************************************************************)
(* The operator and the state machine after the test.                      *)
(***************************************************************************)
\* developer.md:262, "abort and return to Idle".
CmdAbort ==
  /\ "abort" \in scenario /\ sm = "TESTING"
  /\ sm' = "IDLE" /\ dut_power_cut
  /\ UNCHANGED <<gate, engine, dog, fixture, scenario>>

\* The result has been shown, or the operator has cleared it.
BackToIdle ==
  /\ sm \in Outcomes
  /\ sm' = "IDLE"
  /\ UNCHANGED <<gate, engine, dog, power, fixture, scenario>>

\* operator.md, "RESET TO CLEAR": an E-STOP ends with a power cycle.
PowerCycle ==
  /\ sm = "ESTOP"
  /\ sm' = "IDLE" /\ gate' = "none"
  /\ recipe' = "none" /\ left' = 0 /\ outcome' = "PASS"
  /\ watchdog' = "none" /\ consecutive_zero' = 0
  /\ dut_power_cut
  /\ s_dut_present' = FALSE /\ UNCHANGED seated
  /\ UNCHANGED scenario

Insert ==
  /\ ~seated /\ sm = "IDLE" /\ seated' = TRUE
  /\ UNCHANGED <<sm, gate, engine, dog, power, s_dut_present, scenario>>

Remove ==
  /\ seated /\ ("remove" \in scenario \/ sm = "IDLE")
  /\ seated' = FALSE
  /\ UNCHANGED <<sm, gate, engine, dog, power, s_dut_present, scenario>>

\* The detection runs in IDLE only.
Detect ==
  /\ sm = "IDLE" /\ s_dut_present # seated
  /\ s_dut_present' = seated
  /\ UNCHANGED <<sm, gate, engine, dog, power, seated, scenario>>

Operator == CmdAbort \/ BackToIdle \/ PowerCycle \/ Insert \/ Remove \/ Detect

Next == CmdStart \/ PrecheckEnds \/ Gate \/ Recipe \/ Watchdog \/ Operator

\* The tasks are scheduled; nobody has to start a test.
Spec ==
  /\ Init /\ [][Next]_vars
  /\ WF_vars(Recipe) /\ WF_vars(Watchdog) /\ WF_vars(Gate)

-----------------------------------------------------------------------------
(***************************************************************************)
(* Properties.                                                             *)
(***************************************************************************)
TypeOK ==
  /\ sm \in {"IDLE", "PRECHECK", "PRE_GATE", "TESTING"} \cup Ended
  /\ gate \in {"none", "start", "powered"}
  /\ recipe \in {"none", "load", "step", "enable", "assert", "measure", "critical", "done",
                "exiting"}
  /\ left \in 0..StepCount /\ outcome \in Outcomes
  /\ watchdog \in {"none", "sleep"} /\ consecutive_zero \in 0..1
  /\ vdut \in BOOLEAN /\ pba \in BOOLEAN /\ seated \in BOOLEAN /\ s_dut_present \in BOOLEAN
  /\ scenario \in Scenarios

(***************************************************************************)
(* g3_primitives.c:159, the power is cut "whenever a test run ends (any    *)
(* reason)": outside the gate and the test the DUT has none.  An abort     *)
(* breaks this: the recipe task outlives it and powers the DUT again.      *)
(***************************************************************************)
PowerOnlyInTest == Orderly /\ (vdut \/ pba) => sm \in {"PRE_GATE", "TESTING"}

(***************************************************************************)
(* recipe_task.c:55-56: one worker stack, one recipe, "State machine       *)
(* guarantees mutual exclusion": no recipe task is created over another.   *)
(* After an abort it may be.                                               *)
(***************************************************************************)
OneWorker == [][Orderly /\ watchdog = "none" /\ watchdog' = "sleep" => recipe = "none"]_vars

\* A test ends, whatever the recipe's steps do.
TestEnds == sm = "TESTING" ~> sm # "TESTING"

(***************************************************************************)
(* recipe_task.c:14-18: on the second near-zero reading of a DUT that is   *)
(* not there, dut_detect_present() tells the watchdog so.                  *)
(***************************************************************************)
RemovalIsConfirmed == SecondZero /\ ~seated => ~s_dut_present
=============================================================================
