------------------------------ MODULE DutDetect ------------------------------
(***************************************************************************)
(* DUT presence detection (src/src/dut_detect.c) and the hand-over of the  *)
(* U8 mux to the pre-test gate (src/src/pre_test_gate.c, step 0).          *)
(*                                                                         *)
(* The state machine, a module outside this repository, stops the          *)
(* detection when it leaves IDLE and starts it when it comes back; each    *)
(* start creates a task, and a task told to stop notices only when it      *)
(* next looks.  The gate asserts PB-A through the same mux, which the end  *)
(* of every sample and of every detection task releases, so it first waits *)
(* for the detection to end.                                               *)
(*                                                                         *)
(* Tasks are identities that may be used again once a task has ended.  A   *)
(* sample is its result; time appears only in the guard of WaitTimesOut.   *)
(***************************************************************************)
EXTENDS Integers, FiniteSets

CONSTANTS
  Tasks,         \* identities of detection tasks
  NoTask,        \* NULL
  DUT_DETECT_DEBOUNCE,   \* 3 in the code
  MaxTyped,      \* bound: dut stop and dut start are typed this often
  Scenarios      \* what the rest of the system may do to the detection, sets of
                 \*  "restart" it is started again before the task that was
                 \*            told to stop has ended
                 \*  "boot"    a test reaches its gate within the 5 s delay
                 \*            before the first sample
                 \*  "console" somebody uses dut start and dut stop
                 \*  "sample"  somebody uses dut sample

ASSUME TasksAssumption == {NoTask, "console"} \cap Tasks = {} /\ NoTask # "console"
ASSUME DebounceAssumption == DUT_DETECT_DEBOUNCE \in Nat \ {0}
ASSUME MaxTypedAssumption == MaxTyped \in Nat
ASSUME ScenariosAssumption == Scenarios \subseteq SUBSET {"restart", "boot", "console", "sample"}

VARIABLES
  s_running, s_task_handle, s_first_report, s_dut_present, s_boot_delay_done,
  s_autostart_paused,
  cooling,        \* esp_timer_get_time() < s_selftest_cooldown_us
  task,           \* where each detection task is; "none" when there is none
  reading,        \* detected: what its last valid sample said
  debounce_count, pending_state,
  starting,       \* the task dut_detect_start has created but not yet stored
  lock,           \* holder of i2c_lock: a task, "console" or nobody
  mux,            \* what drives the U8 mux: "released", "inject" or "pba"
  sm,             \* the state machine
  gate,           \* the pre-gate task
  run,            \* history: length of a task's last run of equal readings
  absentSeen,     \* history: ABSENT was published since the last auto-start
  scenario,       \* the one this behaviour is of
  typed           \* dut stop and dut start so far

flags    == <<s_running, s_task_handle, s_boot_delay_done, starting>>
presence == <<s_first_report, s_dut_present>>
locals   == <<reading, debounce_count, pending_state>>
bus      == <<lock, mux>>
cycle    == <<sm, gate>>
history  == <<run, absentSeen>>
env      == <<scenario, typed>>
vars == <<flags, presence, s_autostart_paused, cooling, task, locals, bus, cycle, history, env>>

Alive == {t \in Tasks : task[t] # "none"}
Go(t, where) == task' = [task EXCEPT ![t] = where]

-----------------------------------------------------------------------------
(***************************************************************************)
(* Starting and stopping.                                                  *)
(***************************************************************************)
\* app_main starts the detection: the first task is about to wait 5 s.
Init ==
  /\ s_running = TRUE /\ s_boot_delay_done = FALSE /\ starting = NoTask
  /\ s_autostart_paused \in BOOLEAN            \* autostart_load_nvs
  /\ s_first_report = TRUE /\ s_dut_present = FALSE
  /\ cooling = FALSE
  /\ \E t \in Tasks : /\ s_task_handle = t
                      /\ task = [u \in Tasks |-> IF u = t THEN "boot" ELSE "none"]
  /\ reading = [t \in Tasks |-> FALSE]
  /\ debounce_count = [t \in Tasks |-> 0] /\ pending_state = [t \in Tasks |-> FALSE]
  /\ lock = NoTask /\ mux = "released"
  /\ sm = "IDLE" /\ gate = "none"
  /\ run = [t \in Tasks |-> 0] /\ absentSeen = TRUE
  /\ scenario \in Scenarios /\ typed = 0

\* Mutation: a restart reports its first sample like the first boot does.
CarryOverForgotten == s_first_report' = TRUE
\* dut_detect_start leaves s_first_report alone: the presence is carried over.
CarryOver == UNCHANGED s_first_report

\* dut_detect_start up to and including xTaskCreate.
DetectStart ==
  IF s_running
    THEN UNCHANGED <<flags, task, locals, run, s_first_report>>
    ELSE \E t \in Tasks \ Alive :
           /\ s_running' = TRUE
           /\ CarryOver
           /\ starting' = t
           /\ Go(t, IF s_boot_delay_done THEN "loop" ELSE "boot")
           /\ debounce_count' = [debounce_count EXCEPT ![t] = 0]
           /\ pending_state' = [pending_state EXCEPT ![t] = FALSE]
           /\ run' = [run EXCEPT ![t] = 0]
           /\ UNCHANGED <<s_task_handle, s_boot_delay_done, reading>>

\* s_task_handle = handle, which the new task does not wait for.
StoreHandle ==
  /\ starting # NoTask
  /\ s_task_handle' = starting
  /\ starting' = NoTask
  /\ UNCHANGED <<s_running, s_boot_delay_done, presence, s_autostart_paused, cooling,
                 task, locals, bus, cycle, history, env>>

\* tc_sm_dut_detect_on_idle.
OnIdle == cooling' = TRUE /\ DetectStart

\* tc_sm_dut_detect_off_idle.  Mutation: the detection is not stopped.
DetectGoesOn == UNCHANGED s_running
DetectStop == s_running' = FALSE

\* tc_sm_cmd_start, for an SM in IDLE that is not in the middle of on_idle.
SmReady == sm = "IDLE" /\ starting = NoTask
LeaveIdle ==
  /\ sm' = "PRECHECK"
  /\ DetectStop
  /\ UNCHANGED <<s_task_handle, s_boot_delay_done, starting, gate>>

-----------------------------------------------------------------------------
(***************************************************************************)
(* dut_detect_task.                                                        *)
(***************************************************************************)
BootDelayEnds(t) ==
  /\ task[t] = "boot"
  /\ s_boot_delay_done' = TRUE
  /\ Go(t, "loop")
  /\ UNCHANGED <<s_running, s_task_handle, starting, presence, s_autostart_paused,
                 cooling, locals, bus, cycle, history, env>>

\* Mutation: the task never looks at s_running.
LookAway(t) ==
  /\ task[t] = "loop"
  /\ Go(t, "lock")
  /\ UNCHANGED <<flags, presence, s_autostart_paused, cooling, locals, bus, cycle,
                 history, env>>

LookAtRunning(t) ==
  /\ task[t] = "loop"
  /\ Go(t, IF s_running THEN "lock" ELSE "exit")
  /\ UNCHANGED <<flags, presence, s_autostart_paused, cooling, locals, bus, cycle,
                 history, env>>

\* i2c_lock(500) gives up while somebody else has the bus.
LockTimesOut(t) ==
  /\ task[t] = "lock" /\ lock # NoTask
  /\ Go(t, "sleep")
  /\ UNCHANGED <<flags, presence, s_autostart_paused, cooling, locals, bus, cycle,
                 history, env>>

Inject(t) ==
  /\ task[t] = "lock" /\ lock = NoTask
  /\ lock' = t
  /\ mux' = "inject"
  /\ Go(t, "sample")
  /\ UNCHANGED <<flags, presence, s_autostart_paused, cooling, locals, cycle, history,
                 env>>

\* dut_detect_sample returns: false, or mv == 0, or a reading.
SampleFails(t) ==
  /\ task[t] = "sample"
  /\ mux' = "released" /\ lock' = NoTask
  /\ Go(t, "sleep")
  /\ UNCHANGED <<flags, presence, s_autostart_paused, cooling, locals, cycle, history,
                 env>>

SampleReads(t, detected) ==
  /\ task[t] = "sample"
  /\ mux' = "released" /\ lock' = NoTask
  /\ reading' = [reading EXCEPT ![t] = detected]
  /\ run' = [run EXCEPT ![t] =
               IF detected # reading[t] \/ @ = 0 THEN 1
               ELSE IF @ < DUT_DETECT_DEBOUNCE THEN @ + 1 ELSE @]
  /\ Go(t, "judge")
  /\ UNCHANGED <<flags, presence, s_autostart_paused, cooling, debounce_count,
                 pending_state, cycle, absentSeen, env>>

\* debounce_count after a reading that differs from s_dut_present.
Disagreement(t) == IF reading[t] = pending_state[t] THEN debounce_count[t] + 1 ELSE 1

\* Mutation: a reading that agrees does not end the run.
AgreementKept(t) == debounce_count[t]
Agreement(t) == 0

\* Mutation: the debounce counts one reading more.
PublishesLate(t) ==
  \/ s_first_report
  \/ reading[t] # s_dut_present /\ Disagreement(t) > DUT_DETECT_DEBOUNCE

(***************************************************************************)
(* The evaluation of a valid reading.                                      *)
(***************************************************************************)
Publishes(t) ==
  \/ s_first_report
  \/ reading[t] # s_dut_present /\ Disagreement(t) >= DUT_DETECT_DEBOUNCE

Judge(t) ==
  /\ task[t] = "judge"
  /\ debounce_count' = [debounce_count EXCEPT ![t] =
       IF Publishes(t) THEN 0
       ELSE IF reading[t] # s_dut_present THEN Disagreement(t) ELSE Agreement(t)]
  /\ pending_state' = [pending_state EXCEPT ![t] =
       IF ~s_first_report /\ reading[t] # s_dut_present THEN reading[t] ELSE @]
  /\ s_dut_present' = IF Publishes(t) THEN reading[t] ELSE s_dut_present
  /\ s_first_report' = FALSE
  /\ absentSeen' = (absentSeen \/ (Publishes(t) /\ ~reading[t]))
  /\ Go(t, IF Publishes(t) THEN "publish" ELSE "sleep")
  /\ UNCHANGED <<flags, s_autostart_paused, cooling, reading, bus, cycle, run, env>>

\* publish_dut_presence: the conditions of the auto-start, checked one by one.
Publish(t) ==
  /\ task[t] = "publish"
  /\ Go(t, IF reading[t] /\ ~s_autostart_paused /\ sm = "IDLE" /\ ~cooling
             THEN "start" ELSE "sleep")
  /\ UNCHANGED <<flags, presence, s_autostart_paused, cooling, locals, bus, cycle,
                 history, env>>

\* tc_sm_cmd_start from publish_dut_presence; the SM refuses unless IDLE.
AutoStart(t) ==
  /\ task[t] = "start" /\ SmReady
  /\ LeaveIdle
  /\ absentSeen' = FALSE
  /\ Go(t, "sleep")
  /\ UNCHANGED <<presence, s_autostart_paused, cooling, locals, bus, run, env>>

AutoStartRefused(t) ==
  /\ task[t] = "start" /\ sm # "IDLE"
  /\ Go(t, "sleep")
  /\ UNCHANGED <<flags, presence, s_autostart_paused, cooling, locals, bus, cycle,
                 history, env>>

Wake(t) ==
  /\ task[t] = "sleep"
  /\ Go(t, "loop")
  /\ UNCHANGED <<flags, presence, s_autostart_paused, cooling, locals, bus, cycle,
                 history, env>>

\* The last lines of dut_detect_task; the mux is released outside the lock.
EndTask(t) ==
  /\ task[t] = "exit"
  /\ mux' = "released"
  /\ s_task_handle' = NoTask
  /\ Go(t, "none")
  /\ UNCHANGED <<s_running, s_boot_delay_done, starting, presence, s_autostart_paused,
                 cooling, locals, lock, cycle, history, env>>

-----------------------------------------------------------------------------
(***************************************************************************)
(* The pre-gate task.                                                      *)
(***************************************************************************)
\* dut_detect_wait_stopped sees NULL.  Mutation: it does not look.
WaitSkipped == TRUE
HandleIsNull == s_task_handle = NoTask

GateWaits ==
  /\ gate = "wait" /\ HandleIsNull
  /\ gate' = "power"
  /\ UNCHANGED <<flags, presence, s_autostart_paused, cooling, task, locals, bus, sm,
                 history, env>>

(***************************************************************************)
(* 40 times 50 ms have passed.  A task that looks at s_running ends within *)
(* a sample and a sleep, about 1.2 s: the 2 s are over only for a task in  *)
(* its boot delay, one that was started again, or a handle of no task.     *)
(***************************************************************************)
WaitTimesOut ==
  /\ gate = "wait" /\ s_task_handle # NoTask
  /\ s_running \/ task[s_task_handle] \in {"boot", "none"}
  /\ gate' = "power"
  /\ UNCHANGED <<flags, presence, s_autostart_paused, cooling, task, locals, bus, sm,
                 history, env>>

\* u8_mux_select(MUX_PBA_CH, MUX_PBA_SIG), once VDUT is set.
AssertPbA ==
  /\ gate = "power"
  /\ mux' = "pba"
  /\ gate' = "asserted"
  /\ UNCHANGED <<flags, presence, s_autostart_paused, cooling, task, locals, lock, sm,
                 history, env>>

\* power_off: u8_mux_release, then tc_sm_pre_gate_done(false).
GateFails ==
  /\ gate = "asserted"
  /\ mux' = "released"
  /\ gate' = "none"
  /\ sm' = "FAIL"
  /\ UNCHANGED <<flags, presence, s_autostart_paused, cooling, task, locals, lock,
                 history, env>>

\* vdac_set_voltage fails: the mux was never taken.
GateUncalibrated ==
  /\ gate = "power"
  /\ gate' = "none"
  /\ sm' = "FAIL"
  /\ UNCHANGED <<flags, presence, s_autostart_paused, cooling, task, locals, bus,
                 history, env>>

\* tc_sm_pre_gate_done(true): PB-A stays asserted for the test.
GatePasses ==
  /\ gate = "asserted"
  /\ gate' = "held"
  /\ sm' = "TESTING"
  /\ UNCHANGED <<flags, presence, s_autostart_paused, cooling, task, locals, bus,
                 history, env>>

-----------------------------------------------------------------------------
(***************************************************************************)
(* The state machine, as far as the detection sees it.                     *)
(***************************************************************************)
CmdStart ==
  /\ SmReady
  /\ LeaveIdle
  /\ UNCHANGED <<presence, s_autostart_paused, cooling, task, locals, bus, history,
                 env>>

PrecheckPasses ==
  /\ sm = "PRECHECK"
  /\ "boot" \in scenario \/ s_boot_delay_done
  /\ sm' = "PRE_GATE" /\ gate' = "wait"
  /\ UNCHANGED <<flags, presence, s_autostart_paused, cooling, task, locals, bus,
                 history, env>>

\* The precheck fails, a result has been shown, or the operator aborts.
BackToIdle ==
  /\ sm \in {"PRECHECK", "FAIL"}
  /\ "restart" \in scenario \/ Alive = {}
  /\ sm' = "IDLE"
  /\ OnIdle
  /\ UNCHANGED <<s_dut_present, s_autostart_paused, reading, bus, gate, absentSeen,
                 env>>

\* tc_sm_on_test_end cuts the power and releases PB-A.
TestEnds ==
  /\ sm = "TESTING"
  /\ sm' = "FAIL" /\ gate' = "none"
  /\ mux' = "released"
  /\ UNCHANGED <<flags, presence, s_autostart_paused, cooling, task, locals, lock,
                 history, env>>

CooldownEnds ==
  /\ cooling /\ cooling' = FALSE
  /\ UNCHANGED <<flags, presence, s_autostart_paused, task, locals, bus, cycle,
                 history, env>>

\* dut pause, dut resume, dut autostart.
SetAutostart ==
  /\ s_autostart_paused' = ~s_autostart_paused
  /\ UNCHANGED <<flags, presence, cooling, task, locals, bus, cycle, history, env>>

-----------------------------------------------------------------------------
(***************************************************************************)
(* The console: dut stop, dut start and dut sample.                        *)
(***************************************************************************)
Typed == "console" \in scenario /\ typed < MaxTyped /\ typed' = typed + 1

DutStop ==
  /\ Typed
  /\ DetectStop
  /\ UNCHANGED <<s_task_handle, s_boot_delay_done, starting, presence,
                 s_autostart_paused, cooling, task, locals, bus, cycle, history, scenario>>

DutStart ==
  /\ Typed /\ starting = NoTask
  /\ DetectStart
  /\ UNCHANGED <<s_dut_present, s_autostart_paused, cooling, reading, bus, cycle,
                 absentSeen, scenario>>

DutSampleBegins ==
  /\ "sample" \in scenario /\ lock = NoTask
  /\ lock' = "console" /\ mux' = "inject"
  /\ UNCHANGED <<flags, presence, s_autostart_paused, cooling, task, locals, cycle,
                 history, env>>

DutSampleEnds ==
  /\ lock = "console"
  /\ lock' = NoTask /\ mux' = "released"
  /\ UNCHANGED <<flags, presence, s_autostart_paused, cooling, task, locals, cycle,
                 history, env>>

Console == DutStop \/ DutStart \/ DutSampleBegins \/ DutSampleEnds

Step(t) ==
  \/ BootDelayEnds(t) \/ LookAtRunning(t) \/ LockTimesOut(t) \/ Inject(t) \/ SampleFails(t)
  \/ \E detected \in BOOLEAN : SampleReads(t, detected)
  \/ Judge(t) \/ Publish(t) \/ AutoStart(t) \/ AutoStartRefused(t) \/ Wake(t) \/ EndTask(t)

Gate == GateWaits \/ WaitTimesOut \/ AssertPbA \/ GateFails \/ GateUncalibrated \/ GatePasses

Next ==
  \/ \E t \in Tasks : Step(t)
  \/ Gate
  \/ StoreHandle \/ CmdStart \/ PrecheckPasses \/ BackToIdle \/ TestEnds
  \/ CooldownEnds \/ SetAutostart \/ Console

\* Every task is scheduled, and its sleeps end.
Spec ==
  /\ Init /\ [][Next]_vars
  /\ \A t \in Tasks : WF_vars(Step(t))
  /\ WF_vars(Gate) /\ WF_vars(StoreHandle)
-----------------------------------------------------------------------------
(***************************************************************************)
(* Properties.                                                             *)
(***************************************************************************)
TypeOK ==
  /\ s_running \in BOOLEAN /\ s_boot_delay_done \in BOOLEAN
  /\ s_task_handle \in Tasks \cup {NoTask} /\ starting \in Tasks \cup {NoTask}
  /\ s_first_report \in BOOLEAN /\ s_dut_present \in BOOLEAN
  /\ s_autostart_paused \in BOOLEAN /\ cooling \in BOOLEAN
  /\ task \in [Tasks -> {"none", "boot", "loop", "lock", "sample", "judge", "publish",
                         "start", "sleep", "exit"}]
  /\ reading \in [Tasks -> BOOLEAN] /\ pending_state \in [Tasks -> BOOLEAN]
  /\ debounce_count \in [Tasks -> 0..(DUT_DETECT_DEBOUNCE - 1)]
  /\ lock \in Tasks \cup {NoTask, "console"} /\ mux \in {"released", "inject", "pba"}
  /\ sm \in {"IDLE", "PRECHECK", "PRE_GATE", "TESTING", "FAIL"}
  /\ gate \in {"none", "wait", "power", "asserted", "held"}
  /\ run \in [Tasks -> 0..DUT_DETECT_DEBOUNCE] /\ absentSeen \in BOOLEAN
  /\ scenario \in Scenarios /\ typed \in 0..MaxTyped

\* The detection runs in IDLE only and is started again once it has ended.
Undisturbed == scenario = {}
\* There is never a second detection task beside one that has not ended.
OneAtATime == scenario \subseteq {"boot", "sample"}

(***************************************************************************)
(* dut_detect.h:17-18, "Block until the detection task has fully exited    *)
(* (mux released)": past the wait there is no detection task.              *)
(***************************************************************************)
DetectionHasExited == gate \in {"power", "asserted", "held"} => Alive = {}

\* The same, where a test comes after the boot delay and nobody restarts it.
HandOverIsClean == Undisturbed => DetectionHasExited

(***************************************************************************)
(* From the gate's u8_mux_select until the gate fails or the test ends     *)
(* nothing releases PB-A, and no sample drives the pogo net meanwhile.  A  *)
(* detection task the gate did not wait for breaks this when it ends.      *)
(***************************************************************************)
PbAHeld == Undisturbed /\ gate \in {"asserted", "held"} => mux = "pba"

(***************************************************************************)
(* After the first report, the published presence changes only on three    *)
(* equal valid readings in a row by one task since it was started.         *)
(***************************************************************************)
PresenceDebounced ==
  [][s_dut_present' # s_dut_present /\ ~s_first_report =>
       \E t \in Tasks : /\ task[t] = "judge" /\ reading[t] = s_dut_present'
                        /\ run[t] >= DUT_DETECT_DEBOUNCE]_vars

(***************************************************************************)
(* dut_detect.c:225-227: a DUT that stays in the fixture is not tested     *)
(* again by itself: between two automatic starts ABSENT was published.  A  *)
(* second detection task may start a test on a reading of its own.         *)
(***************************************************************************)
OneStartPerInsertion ==
  [][OneAtATime /\ (\E t \in Tasks : /\ task[t] = "start" /\ task'[t] # "start"
                                     /\ sm = "IDLE" /\ sm' = "PRECHECK") => absentSeen]_vars

\* A detection that is told to stop, and not started again, ends.
DetectionStops == [](~s_running => <>(s_running \/ Alive = {}))
=============================================================================
