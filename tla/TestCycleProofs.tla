--------------------------- MODULE TestCycleProofs ---------------------------
(***************************************************************************)
(* Proofs about TestCycle: in an orderly fixture the DUT has power only    *)
(* in the gate and the test, and the worker stack has one user.            *)
(***************************************************************************)
EXTENDS TestCycle, TLAPS

(***************************************************************************)
(* In an orderly fixture (nobody aborts a test, and no test starts on a    *)
(* stale presence) the tasks follow the state machine; only a recipe task  *)
(* that has reported and is about to delete itself may lag behind.         *)
(***************************************************************************)
TasksFollow ==
  /\ gate # "none" => sm = "PRE_GATE"
  /\ recipe \notin {"none", "exiting"} => sm = "TESTING"

\* The power follows the tasks.
PowerFollows ==
  /\ vdut \/ pba => sm \in {"PRE_GATE", "TESTING"}
  /\ gate = "start" => ~vdut /\ ~pba
  /\ sm = "PRE_GATE" /\ (vdut \/ pba) => gate = "powered"

\* A DUT that is in the fixture was published before the cycle started.
PresenceIsFresh ==
  /\ sm # "IDLE" /\ seated => s_dut_present
  /\ sm = "TESTING" => s_dut_present
  /\ sm # "ESTOP"

CycleInv == TasksFollow /\ PowerFollows /\ PresenceIsFresh
OrderlyInv == Orderly => CycleInv

-----------------------------------------------------------------------------
\* A power_check is one of the steps that are left.
StepPending == recipe \in {"enable", "assert", "measure"} => left > 0
TypeInv == TypeOK /\ StepPending

(***************************************************************************)
(* Every reachable state is of the declared types: the steps of a recipe   *)
(* never run below zero, whatever the disturbances.                        *)
(***************************************************************************)
LEMMA NextType == TypeInv /\ [Next]_vars => TypeInv'
<1> SUFFICES ASSUME TypeInv, [Next]_vars PROVE TypeInv'
  OBVIOUS
<1> USE StepCountAssumption DEF TypeInv, StepPending, TypeOK, Ended, Outcomes
<1>1. CASE CmdStart BY <1>1 DEF CmdStart, engine, dog, power, fixture
<1>2. CASE PrecheckEnds BY <1>2 DEF PrecheckEnds, engine, dog, power, fixture
<1>3. CASE Gate
  <2>1. CASE GatePowersUp BY <2>1 DEF GatePowersUp, engine, dog, fixture
  <2>2. CASE GateUncalibrated BY <2>2 DEF GateUncalibrated, engine, dog, power, fixture
  <2>3. CASE GateFails BY <2>3 DEF GateFails, GatePowersOff, engine, dog, fixture
  <2>4. CASE GatePasses BY <2>4 DEF GatePasses, power, fixture
  <2>5. CASE SpawnFails BY <2>5 DEF SpawnFails, dut_power_cut, engine, dog, fixture
  <2> QED BY <1>3, <2>1, <2>2, <2>3, <2>4, <2>5 DEF Gate
<1>4. CASE Recipe
  <2> USE DEF StepsLeft, StepEnds, dog, power, fixture
  <2>1. CASE LoadRecipe BY <2>1 DEF LoadRecipe, NoRecipe
  <2>2. CASE OtherStep BY <2>2 DEF OtherStep
  <2>3. CASE PowerCheckLooks BY <2>3 DEF PowerCheckLooks
  <2>4. CASE PowerCheckEnables BY <2>4 DEF PowerCheckEnables
  <2>5. CASE PowerCheckUncalibrated BY <2>5 DEF PowerCheckUncalibrated
  <2>6. CASE PowerCheckAsserts BY <2>6 DEF PowerCheckAsserts
  <2>7. CASE PowerCheckMeasures
    <3>1. left' \in 0..StepCount BY <2>7, SMT DEF PowerCheckMeasures
    <3>2. recipe' \in {"step", "critical"} /\ outcome' \in Outcomes BY <2>7, ZenonT(20) DEF PowerCheckMeasures
    <3> QED BY <2>7, <3>1, <3>2, ZenonT(20) DEF PowerCheckMeasures
  <2>8. CASE CriticalAbort BY <2>8 DEF CriticalAbort, dut_power_cut
  <2>9. CASE StepsDone BY <2>9 DEF StepsDone
  <2>10. CASE RecipeDone BY <2>10 DEF RecipeDone, TaskReturns, dut_power_cut
  <2>11. CASE TaskDeleted BY <2>11 DEF TaskDeleted
  <2> QED BY <1>4, <2>1, <2>2, <2>3, <2>4, <2>5, <2>6, <2>7, <2>8, <2>9, <2>10, <2>11 DEF Recipe
<1>5. CASE Watchdog
  <2> USE DEF engine, power, fixture
  <2>1. CASE WatchdogEnds BY <2>1 DEF WatchdogEnds
  <2>2. CASE WatchdogReadsCurrent
    <3>1. consecutive_zero' = 0 \/ consecutive_zero' = 1 BY <2>2, Zenon DEF WatchdogReadsCurrent
    <3>2. consecutive_zero' \in 0..1 BY <3>1, SMT
    <3> QED BY <2>2, <3>2, ZenonT(20) DEF WatchdogReadsCurrent
  <2>3. CASE WatchdogKeepsWatching BY <2>3 DEF WatchdogKeepsWatching
  <2>4. CASE WatchdogStops
    <3>1. consecutive_zero' \in 0..1 BY <2>4, SMT DEF WatchdogStops
    <3> QED BY <2>4, <3>1, ZenonT(20) DEF WatchdogStops, dut_power_cut
  <2> QED BY <1>5, <2>1, <2>2, <2>3, <2>4 DEF Watchdog
<1>6. CASE Operator
  <2> USE DEF engine, dog, power, fixture
  <2>1. CASE CmdAbort BY <2>1 DEF CmdAbort, dut_power_cut
  <2>2. CASE BackToIdle BY <2>2 DEF BackToIdle
  <2>3. CASE PowerCycle
    <3>1. left' \in 0..StepCount /\ consecutive_zero' \in 0..1 BY <2>3, SMT DEF PowerCycle
    <3> QED BY <2>3, <3>1, ZenonT(20) DEF PowerCycle, dut_power_cut
  <2>4. CASE Insert BY <2>4 DEF Insert
  <2>5. CASE Remove
    <3>1. seated' \in BOOLEAN /\ UNCHANGED <<sm, gate, engine, dog, power, s_dut_present, scenario>>
      BY <2>5 DEF Remove
    <3>2. seated' \in BOOLEAN /\ s_dut_present' \in BOOLEAN BY <3>1
    <3> QED BY <3>1, <3>2
  <2>6. CASE Detect BY <2>6 DEF Detect
  <2> QED BY <1>6, <2>1, <2>2, <2>3, <2>4, <2>5, <2>6 DEF Operator
<1>7. CASE UNCHANGED vars BY <1>7 DEF vars, engine, dog, power, fixture
<1> QED BY <1>1, <1>2, <1>3, <1>4, <1>5, <1>6, <1>7 DEF Next

(***************************************************************************)
(* The type invariant of the test cycle, for every recipe length and with  *)
(* every disturbance.                                                      *)
(***************************************************************************)
THEOREM CycleTypeCorrect == Spec => []TypeOK
<1>1. 0 \in 0..StepCount /\ 0 \in 0..1
  BY StepCountAssumption
<1>2. Init => TypeInv
  BY <1>1, ZenonT(20) DEF Init, TypeInv, StepPending, TypeOK, Ended, Outcomes
<1>3. TypeInv => TypeOK
  BY DEF TypeInv
<1> QED BY <1>2, <1>3, NextType, PTL DEF Spec

-----------------------------------------------------------------------------
\* The scenario of a behaviour never changes.
LEMMA ScenarioStays == ASSUME [Next]_vars PROVE UNCHANGED scenario
<1>1. CASE CmdStart \/ PrecheckEnds BY <1>1 DEF CmdStart, PrecheckEnds
<1>2. CASE Gate
  BY <1>2 DEF Gate, GatePowersUp, GateUncalibrated, GateFails, GatePasses, SpawnFails
<1>3. CASE Recipe
  BY <1>3 DEF Recipe, LoadRecipe, OtherStep, PowerCheckLooks, PowerCheckEnables,
              PowerCheckUncalibrated, PowerCheckAsserts, PowerCheckMeasures, CriticalAbort,
              StepsDone, RecipeDone, TaskDeleted
<1>4. CASE Watchdog
  BY <1>4 DEF Watchdog, WatchdogEnds, WatchdogReadsCurrent, WatchdogKeepsWatching, WatchdogStops
<1>5. CASE Operator
  BY <1>5 DEF Operator, CmdAbort, BackToIdle, PowerCycle, Insert, Remove, Detect
<1>6. CASE UNCHANGED vars BY <1>6 DEF vars
<1> QED BY <1>1, <1>2, <1>3, <1>4, <1>5, <1>6 DEF Next

\* Each action of an orderly cycle keeps tasks, power and presence in step.
LEMMA NextCycle ==
  ASSUME TypeOK, Orderly, CycleInv, [Next]_vars PROVE CycleInv'
<1> USE DEF CycleInv, TasksFollow, PowerFollows, PresenceIsFresh
<1>1. CASE CmdStart BY <1>1 DEF CmdStart, engine, dog, power, fixture, Orderly
<1>2. CASE PrecheckEnds BY <1>2 DEF PrecheckEnds, engine, dog, power, fixture
<1>3. CASE Gate
  <2>1. CASE GatePowersUp BY <2>1 DEF GatePowersUp, engine, dog, fixture
  <2>2. CASE GateUncalibrated BY <2>2 DEF GateUncalibrated, engine, dog, power, fixture
  <2>3. CASE GateFails BY <2>3 DEF GateFails, GatePowersOff, engine, dog, fixture
  <2>4. CASE GatePasses BY <2>4 DEF GatePasses, power, fixture
  <2>5. CASE SpawnFails BY <2>5 DEF SpawnFails, dut_power_cut, engine, dog, fixture
  <2> QED BY <1>3, <2>1, <2>2, <2>3, <2>4, <2>5 DEF Gate
<1>4. CASE Recipe
  <2> USE DEF dog, power, fixture
  <2>1. CASE LoadRecipe BY <2>1 DEF LoadRecipe, NoRecipe
  <2>2. CASE OtherStep BY <2>2 DEF OtherStep
  <2>3. CASE PowerCheckLooks BY <2>3 DEF PowerCheckLooks
  <2>4. CASE PowerCheckEnables BY <2>4 DEF PowerCheckEnables
  <2>5. CASE PowerCheckUncalibrated BY <2>5 DEF PowerCheckUncalibrated
  <2>6. CASE PowerCheckAsserts BY <2>6 DEF PowerCheckAsserts
  <2>7. CASE PowerCheckMeasures BY <2>7 DEF PowerCheckMeasures
  <2>8. CASE CriticalAbort BY <2>8 DEF CriticalAbort, dut_power_cut
  <2>9. CASE StepsDone BY <2>9 DEF StepsDone
  <2>10. CASE RecipeDone
    BY <2>10 DEF RecipeDone, TaskReturns, dut_power_cut, TypeOK, Outcomes
  <2>11. CASE TaskDeleted BY <2>11 DEF TaskDeleted
  <2> QED BY <1>4, <2>1, <2>2, <2>3, <2>4, <2>5, <2>6, <2>7, <2>8, <2>9, <2>10, <2>11 DEF Recipe
<1>5. CASE Watchdog
  <2> USE DEF engine, power, fixture
  <2>1. CASE WatchdogEnds BY <2>1 DEF WatchdogEnds
  <2>2. CASE WatchdogReadsCurrent BY <2>2 DEF WatchdogReadsCurrent
  <2>3. CASE WatchdogKeepsWatching BY <2>3 DEF WatchdogKeepsWatching
  <2>4. CASE WatchdogStops BY <2>4 DEF WatchdogStops, SecondZero, Gone
  <2> QED BY <1>5, <2>1, <2>2, <2>3, <2>4 DEF Watchdog
<1>6. CASE Operator
  <2> USE DEF engine, dog, power, fixture
  <2>1. CASE CmdAbort BY <2>1 DEF CmdAbort, Orderly
  <2>2. CASE BackToIdle BY <2>2 DEF BackToIdle, Outcomes
  <2>3. CASE PowerCycle BY <2>3 DEF PowerCycle
  <2>4. CASE Insert BY <2>4 DEF Insert
  <2>5. CASE Remove BY <2>5 DEF Remove
  <2>6. CASE Detect BY <2>6 DEF Detect
  <2> QED BY <1>6, <2>1, <2>2, <2>3, <2>4, <2>5, <2>6 DEF Operator
<1>7. CASE UNCHANGED vars BY <1>7 DEF vars, engine, dog, power, fixture
<1> QED BY <1>1, <1>2, <1>3, <1>4, <1>5, <1>6, <1>7 DEF Next

LEMMA InitCycle == Init => OrderlyInv
  BY DEF Init, OrderlyInv, CycleInv, TasksFollow, PowerFollows, PresenceIsFresh

LEMMA NextOrderly == TypeOK /\ OrderlyInv /\ [Next]_vars => OrderlyInv'
  BY NextCycle, ScenarioStays DEF OrderlyInv, Orderly

(***************************************************************************)
(* Without an abort and without a start on a stale presence, VDUT1 and     *)
(* PB-A are off outside the gate and the test: no step of the gate, of the *)
(* recipe or of the watchdog leaves power behind.                          *)
(***************************************************************************)
THEOREM PowerIsCut == Spec => []PowerOnlyInTest
<1>1. OrderlyInv => PowerOnlyInTest
  BY DEF OrderlyInv, CycleInv, PowerFollows, PowerOnlyInTest
<1> QED BY <1>1, CycleTypeCorrect, InitCycle, NextOrderly, PTL DEF Spec

\* Only tc_sm_spawn_recipe_task starts a watchdog, and the SM was in PRE_GATE.
LEMMA SpawnOnly ==
  ASSUME CycleInv, [Next]_vars, watchdog = "none", watchdog' = "sleep" PROVE recipe = "none"
<1> USE DEF engine, dog, power, fixture
<1>1. CASE GatePasses BY <1>1 DEF GatePasses, CycleInv, TasksFollow
<1>2. CASE CmdStart BY <1>2 DEF CmdStart
<1>3. CASE PrecheckEnds BY <1>3 DEF PrecheckEnds
<1>4. CASE GatePowersUp \/ GateUncalibrated \/ GateFails \/ SpawnFails
  BY <1>4 DEF GatePowersUp, GateUncalibrated, GateFails, SpawnFails
<1>5. CASE Recipe
  BY <1>5 DEF Recipe, LoadRecipe, OtherStep, PowerCheckLooks, PowerCheckEnables,
              PowerCheckUncalibrated, PowerCheckAsserts, PowerCheckMeasures, CriticalAbort,
              StepsDone, RecipeDone, TaskDeleted
<1>6. CASE Watchdog
  BY <1>6 DEF Watchdog, WatchdogEnds, WatchdogReadsCurrent, WatchdogKeepsWatching, WatchdogStops
<1>7. CASE Operator
  BY <1>7 DEF Operator, CmdAbort, BackToIdle, PowerCycle, Insert, Remove, Detect
<1>8. CASE UNCHANGED vars BY <1>8 DEF vars
<1> QED BY <1>1, <1>2, <1>3, <1>4, <1>5, <1>6, <1>7, <1>8 DEF Next, Gate

(***************************************************************************)
(* recipe_task.c:55-56, in an orderly fixture: a recipe task is never      *)
(* created on the worker stack of another.                                 *)
(***************************************************************************)
THEOREM WorkerIsExclusive == Spec => OneWorker
<1>1. OrderlyInv /\ [Next]_vars
        => [Orderly /\ watchdog = "none" /\ watchdog' = "sleep" => recipe = "none"]_vars
  BY SpawnOnly DEF OrderlyInv
<1> QED BY <1>1, CycleTypeCorrect, InitCycle, NextOrderly, PTL DEF Spec, OneWorker
=============================================================================
