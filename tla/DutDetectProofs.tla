--------------------------- MODULE DutDetectProofs ---------------------------
(***************************************************************************)
(* Proofs about DutDetect, for any number of tasks, any debounce and any   *)
(* scenarios: its types, the debounce of the published presence, and, for  *)
(* an undisturbed detection, its hand-over of the U8 mux to the gate.      *)
(***************************************************************************)
EXTENDS DutDetect, TLAPS

CountersOK ==
  /\ debounce_count \in [Tasks -> 0..(DUT_DETECT_DEBOUNCE - 1)]
  /\ run \in [Tasks -> 0..DUT_DETECT_DEBOUNCE]

FlagsOK ==
  /\ s_running \in BOOLEAN /\ s_boot_delay_done \in BOOLEAN
  /\ s_task_handle \in Tasks \cup {NoTask} /\ starting \in Tasks \cup {NoTask}
  /\ s_first_report \in BOOLEAN /\ s_dut_present \in BOOLEAN
  /\ s_autostart_paused \in BOOLEAN /\ cooling \in BOOLEAN
  /\ task \in [Tasks -> {"none", "boot", "loop", "lock", "sample", "judge", "publish",
                         "start", "sleep", "exit"}]
  /\ reading \in [Tasks -> BOOLEAN] /\ pending_state \in [Tasks -> BOOLEAN]
  /\ lock \in Tasks \cup {NoTask, "console"} /\ mux \in {"released", "inject", "pba"}
  /\ sm \in {"IDLE", "PRECHECK", "PRE_GATE", "TESTING", "FAIL"}
  /\ gate \in {"none", "wait", "power", "asserted", "held"}
  /\ absentSeen \in BOOLEAN

EnvOK == scenario \in Scenarios /\ typed \in 0..MaxTyped

LEMMA TypeParts == TypeOK <=> FlagsOK /\ CountersOK /\ EnvOK
  BY ZenonT(30) DEF TypeOK, FlagsOK, CountersOK, EnvOK

\* The steps that leave the debounce alone.
Quiet(t) ==
  \/ BootDelayEnds(t) \/ LookAtRunning(t) \/ LockTimesOut(t) \/ Inject(t) \/ SampleFails(t)
  \/ Publish(t) \/ AutoStart(t) \/ AutoStartRefused(t) \/ Wake(t) \/ EndTask(t)
Elsewhere ==
  \/ Gate \/ StoreHandle \/ CmdStart \/ PrecheckPasses \/ TestEnds \/ CooldownEnds \/ SetAutostart
  \/ DutStop \/ DutSampleBegins \/ DutSampleEnds
Starts == BackToIdle \/ DutStart

LEMMA NextCases ==
  ASSUME [Next]_vars
  PROVE \/ \E t \in Tasks : \/ Quiet(t) \/ Judge(t)
                            \/ \E detected \in BOOLEAN : SampleReads(t, detected)
        \/ Elsewhere \/ Starts \/ UNCHANGED vars
  BY DEF Next, Step, Console, Quiet, Elsewhere, Starts

-----------------------------------------------------------------------------
\* The scenario of a behaviour never changes; only dut stop and dut start count.
LEMMA NextEnv ==
  ASSUME EnvOK, [Next]_vars PROVE EnvOK' /\ UNCHANGED scenario
<1>1. typed' \in 0..MaxTyped /\ UNCHANGED scenario
  <2> USE MaxTypedAssumption DEF EnvOK, env
  <2>1. ASSUME NEW t \in Tasks, Quiet(t) PROVE UNCHANGED env
    BY <2>1 DEF Quiet, BootDelayEnds, LookAtRunning, LockTimesOut, Inject, SampleFails, Publish,
                AutoStart, AutoStartRefused, Wake, EndTask
  <2>2. ASSUME NEW t \in Tasks, Judge(t) \/ \E detected \in BOOLEAN : SampleReads(t, detected)
        PROVE UNCHANGED env
    BY <2>2 DEF Judge, SampleReads
  <2>3. CASE Gate
    BY <2>3 DEF Gate, GateWaits, WaitTimesOut, AssertPbA, GateFails, GateUncalibrated, GatePasses
  <2>4. CASE StoreHandle \/ CmdStart \/ PrecheckPasses \/ TestEnds \/ CooldownEnds \/ SetAutostart
    BY <2>4 DEF StoreHandle, CmdStart, PrecheckPasses, TestEnds, CooldownEnds, SetAutostart
  <2>5. CASE DutSampleBegins \/ DutSampleEnds \/ BackToIdle
    BY <2>5 DEF DutSampleBegins, DutSampleEnds, BackToIdle
  <2>6. CASE DutStop \/ DutStart
    BY <2>6 DEF DutStop, DutStart, Typed
  <2>7. CASE UNCHANGED vars BY <2>7 DEF vars
  <2> QED BY <2>1, <2>2, <2>3, <2>4, <2>5, <2>6, <2>7, NextCases DEF Elsewhere, Starts
<1> QED BY <1>1 DEF EnvOK

\* A quiet step changes no variable of the debounce and takes no task to judge.
LEMMA QuietStep ==
  ASSUME FlagsOK, NEW t \in Tasks, Quiet(t)
  PROVE /\ UNCHANGED <<s_first_report, s_dut_present, reading, debounce_count, pending_state, run>>
        /\ \A u \in Tasks : (task'[u] = "judge") <=> (task[u] = "judge")
<1> USE DEF FlagsOK, presence, locals, history, Go
<1>1. CASE BootDelayEnds(t) BY <1>1 DEF BootDelayEnds
<1>2. CASE LookAtRunning(t) BY <1>2 DEF LookAtRunning
<1>3. CASE LockTimesOut(t) BY <1>3 DEF LockTimesOut
<1>4. CASE Inject(t) BY <1>4 DEF Inject
<1>5. CASE SampleFails(t) BY <1>5 DEF SampleFails
<1>6. CASE Publish(t) BY <1>6 DEF Publish
<1>7. CASE AutoStart(t) BY <1>7 DEF AutoStart
<1>8. CASE AutoStartRefused(t) BY <1>8 DEF AutoStartRefused
<1>9. CASE Wake(t) BY <1>9 DEF Wake
<1>10. CASE EndTask(t) BY <1>10 DEF EndTask
<1> QED BY <1>1, <1>2, <1>3, <1>4, <1>5, <1>6, <1>7, <1>8, <1>9, <1>10 DEF Quiet

\* Nor does a step of the gate, the state machine or the console, or a stutter.
LEMMA ElsewhereStep ==
  ASSUME Elsewhere \/ UNCHANGED vars
  PROVE UNCHANGED <<s_first_report, s_dut_present, task, reading, debounce_count, pending_state, run>>
<1> USE DEF presence, locals, history
<1>1. CASE Gate
  BY <1>1 DEF Gate, GateWaits, WaitTimesOut, AssertPbA, GateFails, GateUncalibrated, GatePasses
<1>2. CASE StoreHandle BY <1>2 DEF StoreHandle
<1>3. CASE CmdStart BY <1>3 DEF CmdStart
<1>4. CASE PrecheckPasses BY <1>4 DEF PrecheckPasses
<1>5. CASE TestEnds BY <1>5 DEF TestEnds
<1>6. CASE CooldownEnds BY <1>6 DEF CooldownEnds
<1>7. CASE SetAutostart BY <1>7 DEF SetAutostart
<1>8. CASE DutStop \/ DutSampleBegins \/ DutSampleEnds
  BY <1>8 DEF DutStop, DutSampleBegins, DutSampleEnds
<1>9. CASE UNCHANGED vars BY <1>9 DEF vars
<1> QED BY <1>1, <1>2, <1>3, <1>4, <1>5, <1>6, <1>7, <1>8, <1>9 DEF Elsewhere

\* A start leaves the presence alone and resets the counters of the new task.
LEMMA StartStep ==
  ASSUME FlagsOK, Starts
  PROVE /\ UNCHANGED <<s_first_report, s_dut_present, reading>>
        /\ \/ UNCHANGED <<task, debounce_count, pending_state, run>>
           \/ \E t \in Tasks :
                /\ task[t] = "none" /\ task' = [task EXCEPT ![t] = IF s_boot_delay_done THEN "loop" ELSE "boot"]
                /\ debounce_count' = [debounce_count EXCEPT ![t] = 0]
                /\ pending_state' = [pending_state EXCEPT ![t] = FALSE]
                /\ run' = [run EXCEPT ![t] = 0]
  BY DEF Starts, BackToIdle, DutStart, OnIdle, DetectStart, CarryOver, Go, Alive, flags, locals, FlagsOK

-----------------------------------------------------------------------------
(***************************************************************************)
(* Types.                                                                  *)
(***************************************************************************)
LEMMA QuietFlags == ASSUME FlagsOK, NEW t \in Tasks, Quiet(t) PROVE FlagsOK'
<1> USE DEF FlagsOK, flags, presence, locals, bus, cycle, history, Go
<1>1. CASE BootDelayEnds(t) BY <1>1 DEF BootDelayEnds
<1>2. CASE LookAtRunning(t) BY <1>2 DEF LookAtRunning
<1>3. CASE LockTimesOut(t) BY <1>3 DEF LockTimesOut
<1>4. CASE Inject(t) BY <1>4 DEF Inject
<1>5. CASE SampleFails(t) BY <1>5 DEF SampleFails
<1>6. CASE Publish(t) BY <1>6 DEF Publish
<1>7. CASE AutoStart(t)
  <2>1. /\ s_running' \in BOOLEAN /\ absentSeen' \in BOOLEAN /\ sm' = "PRECHECK"
        /\ task' = [task EXCEPT ![t] = "sleep"]
        /\ UNCHANGED <<s_task_handle, s_boot_delay_done, starting, gate>>
        /\ UNCHANGED <<presence, s_autostart_paused, cooling, locals, bus>>
    BY <1>7 DEF AutoStart, LeaveIdle, DetectStop
  <2> QED BY <2>1
<1>8. CASE AutoStartRefused(t) BY <1>8 DEF AutoStartRefused
<1>9. CASE Wake(t) BY <1>9 DEF Wake
<1>10. CASE EndTask(t) BY <1>10 DEF EndTask
<1> QED BY <1>1, <1>2, <1>3, <1>4, <1>5, <1>6, <1>7, <1>8, <1>9, <1>10 DEF Quiet

LEMMA ElsewhereFlags == ASSUME FlagsOK, Elsewhere \/ UNCHANGED vars PROVE FlagsOK'
<1> USE DEF FlagsOK, flags, presence, locals, bus, cycle, history
<1>1. CASE Gate
  BY <1>1 DEF Gate, GateWaits, WaitTimesOut, AssertPbA, GateFails, GateUncalibrated, GatePasses
<1>2. CASE StoreHandle BY <1>2 DEF StoreHandle
<1>3. CASE CmdStart
  <2>1. /\ s_running' \in BOOLEAN /\ s_boot_delay_done' = s_boot_delay_done
        /\ s_task_handle' = s_task_handle /\ starting' = starting
        /\ sm' = "PRECHECK" /\ gate' = gate
    BY <1>3 DEF CmdStart, LeaveIdle, DetectStop
  <2>2. UNCHANGED <<presence, s_autostart_paused, cooling, task, locals, bus, absentSeen>>
    BY <1>3 DEF CmdStart
  <2> QED BY <2>1, <2>2
<1>4. CASE PrecheckPasses BY <1>4 DEF PrecheckPasses
<1>5. CASE TestEnds BY <1>5 DEF TestEnds
<1>6. CASE CooldownEnds
  <2>1. cooling' \in BOOLEAN BY <1>6 DEF CooldownEnds
  <2>2. /\ UNCHANGED <<s_running, s_task_handle, s_boot_delay_done, starting, s_first_report>>
        /\ UNCHANGED <<s_dut_present, s_autostart_paused, task, reading, pending_state>>
        /\ UNCHANGED <<lock, mux, sm, gate, absentSeen>>
    BY <1>6 DEF CooldownEnds
  <2>3. cooling' \in BOOLEAN /\ s_first_report' \in BOOLEAN /\ s_dut_present' \in BOOLEAN /\ s_autostart_paused' \in BOOLEAN
    BY <2>1, <2>2
  <2>4. reading' \in [Tasks -> BOOLEAN] /\ pending_state' \in [Tasks -> BOOLEAN] BY <2>2
  <2> QED BY <2>2, <2>3, <2>4
<1>7. CASE SetAutostart BY <1>7 DEF SetAutostart
<1>8. CASE DutStop \/ DutSampleBegins \/ DutSampleEnds
  <2>1. CASE DutStop
    <3>1. /\ s_running' \in BOOLEAN /\ s_boot_delay_done' = s_boot_delay_done
          /\ s_task_handle' = s_task_handle /\ starting' = starting
          /\ UNCHANGED <<presence, s_autostart_paused, cooling, task, locals, bus, cycle, absentSeen>>
      BY <2>1 DEF DutStop, DetectStop
    <3> QED BY <3>1
  <2>2. CASE DutSampleBegins
    <3>1. lock' = "console" /\ mux' = "inject"
      BY <2>2 DEF DutSampleBegins
    <3>2. UNCHANGED <<flags, presence, s_autostart_paused, cooling, task, locals, cycle, absentSeen>>
      BY <2>2 DEF DutSampleBegins
    <3> QED BY <3>1, <3>2
  <2>3. CASE DutSampleEnds
    <3>1. lock' = NoTask /\ mux' = "released"
      BY <2>3 DEF DutSampleEnds
    <3>2. UNCHANGED <<flags, presence, s_autostart_paused, cooling, task, locals, cycle, absentSeen>>
      BY <2>3 DEF DutSampleEnds
    <3> QED BY <3>1, <3>2
  <2> QED BY <1>8, <2>1, <2>2, <2>3
<1>9. CASE UNCHANGED vars BY <1>9 DEF vars
<1> QED BY <1>1, <1>2, <1>3, <1>4, <1>5, <1>6, <1>7, <1>8, <1>9 DEF Elsewhere

LEMMA StartFlags == ASSUME FlagsOK, Starts PROVE FlagsOK'
<1>1. /\ s_running' \in BOOLEAN /\ starting' \in Tasks \cup {NoTask}
      /\ UNCHANGED <<s_task_handle, s_boot_delay_done, s_first_report, s_dut_present, s_autostart_paused, reading,
                      lock, mux, gate, absentSeen>>
  BY DEF Starts, BackToIdle, DutStart, OnIdle, DetectStart, CarryOver, Alive, FlagsOK, flags, presence, bus, cycle
<1>2. sm' \in {"IDLE", sm} /\ cooling' \in {TRUE, cooling}
  BY DEF Starts, BackToIdle, DutStart, OnIdle, cycle
<1>3. /\ task' \in [Tasks -> {"none", "boot", "loop", "lock", "sample", "judge", "publish",
                               "start", "sleep", "exit"}]
      /\ pending_state' \in [Tasks -> BOOLEAN]
  BY StartStep DEF FlagsOK
<1>4. /\ s_boot_delay_done' \in BOOLEAN /\ s_first_report' \in BOOLEAN /\ s_dut_present' \in BOOLEAN
      /\ s_autostart_paused' \in BOOLEAN /\ cooling' \in BOOLEAN /\ absentSeen' \in BOOLEAN
  BY <1>1, <1>2, ZenonT(30) DEF FlagsOK
<1>5. s_task_handle' \in Tasks \cup {NoTask} /\ reading' \in [Tasks -> BOOLEAN]
  BY <1>1, ZenonT(30) DEF FlagsOK
<1>6. sm' \in {"IDLE", "PRECHECK", "PRE_GATE", "TESTING", "FAIL"}
  BY <1>2, ZenonT(30) DEF FlagsOK
<1>7. /\ lock' \in Tasks \cup {NoTask, "console"} /\ mux' \in {"released", "inject", "pba"}
      /\ gate' \in {"none", "wait", "power", "asserted", "held"}
  BY <1>1, ZenonT(30) DEF FlagsOK
<1> QED BY <1>1, <1>3, <1>4, <1>5, <1>6, <1>7, ZenonT(30) DEF FlagsOK

LEMMA SampleFlags ==
  ASSUME FlagsOK, NEW t \in Tasks, NEW detected \in BOOLEAN, SampleReads(t, detected) PROVE FlagsOK'
  BY DEF SampleReads, FlagsOK, flags, presence, cycle, Go

LEMMA JudgeFlags == ASSUME FlagsOK, NEW t \in Tasks, Judge(t) PROVE FlagsOK'
<1> DEFINE p == Publishes(t)
<1>1. p \in BOOLEAN BY DEF Publishes
<1> HIDE DEF p
<1>2. /\ s_dut_present' = IF p THEN reading[t] ELSE s_dut_present
      /\ pending_state' = [pending_state EXCEPT ![t] =
           IF ~s_first_report /\ reading[t] # s_dut_present THEN reading[t] ELSE @]
      /\ absentSeen' = (absentSeen \/ (p /\ ~reading[t]))
      /\ s_first_report' = FALSE
      /\ task' = [task EXCEPT ![t] = IF p THEN "publish" ELSE "sleep"]
      /\ UNCHANGED <<flags, s_autostart_paused, cooling, reading, bus, cycle>>
  BY DEF Judge, p, Go
<1>3. /\ s_dut_present' \in BOOLEAN /\ s_first_report' \in BOOLEAN /\ absentSeen' \in BOOLEAN
      /\ pending_state' \in [Tasks -> BOOLEAN]
  <2>1. reading[t] \in BOOLEAN /\ s_dut_present \in BOOLEAN /\ absentSeen \in BOOLEAN
        /\ pending_state \in [Tasks -> BOOLEAN]
    BY DEF FlagsOK
  <2>2. s_dut_present' \in BOOLEAN /\ absentSeen' \in BOOLEAN /\ s_first_report' \in BOOLEAN
    BY <1>2, <2>1, ZenonT(20)
  <2>3. pending_state' = [pending_state EXCEPT ![t] = reading[t]] \/ pending_state' = pending_state
    BY <1>2, <2>1
  <2> QED BY <2>1, <2>2, <2>3
<1>4. task' \in [Tasks -> {"none", "boot", "loop", "lock", "sample", "judge", "publish",
                           "start", "sleep", "exit"}]
  <2>1. task' = [task EXCEPT ![t] = "publish"] \/ task' = [task EXCEPT ![t] = "sleep"]
    BY <1>2
  <2> QED BY <2>1 DEF FlagsOK
<1>5. UNCHANGED <<s_running, s_boot_delay_done, s_task_handle, starting, s_autostart_paused,
                  cooling, reading, lock, mux, sm, gate>>
  BY <1>2 DEF flags, bus, cycle
<1> QED BY <1>3, <1>4, <1>5 DEF FlagsOK

-----------------------------------------------------------------------------
(***************************************************************************)
(* The counters.                                                           *)
(***************************************************************************)
(***************************************************************************)
(* A task has seen at least debounce_count equal readings in a row, and    *)
(* one more when it judges a reading that continues them.                  *)
(***************************************************************************)
CountsReadings ==
  \A t \in Tasks :
    /\ task[t] # "judge" =>
         /\ debounce_count[t] <= run[t]
         /\ debounce_count[t] > 0 => pending_state[t] = reading[t]
    /\ task[t] = "judge" =>
         /\ run[t] >= 1
         /\ pending_state[t] = reading[t] => debounce_count[t] + 1 <= run[t]

DebounceInv == FlagsOK /\ CountersOK /\ EnvOK /\ CountsReadings

\* The count a judged reading leads to is that of equal readings in a row.
LEMMA JudgedRun ==
  ASSUME DebounceInv, NEW t \in Tasks, task[t] = "judge" PROVE Disagreement(t) \in 1..run[t]
<1>1. debounce_count[t] \in Nat /\ run[t] \in Nat /\ run[t] >= 1
  BY DebounceAssumption DEF DebounceInv, CountersOK, CountsReadings
<1>2. CASE reading[t] = pending_state[t]
  <2>1. debounce_count[t] + 1 <= run[t] BY <1>2 DEF CountsReadings, DebounceInv
  <2>2. Disagreement(t) = debounce_count[t] + 1 BY <1>2 DEF Disagreement
  <2> QED BY <1>1, <2>1, <2>2
<1>3. CASE reading[t] # pending_state[t]
  <2>1. Disagreement(t) = 1 BY <1>3 DEF Disagreement
  <2> QED BY <1>1, <2>1
<1> QED BY <1>2, <1>3

LEMMA JudgeCounters ==
  ASSUME DebounceInv, NEW t \in Tasks, Judge(t) PROVE CountersOK' /\ CountsReadings'
<1> USE DEF DebounceInv, CountersOK
<1> DEFINE n == IF Publishes(t) THEN 0
                ELSE IF reading[t] # s_dut_present THEN Disagreement(t) ELSE Agreement(t)
<1>1. /\ debounce_count[t] \in 0..(DUT_DETECT_DEBOUNCE - 1) /\ run[t] \in 0..DUT_DETECT_DEBOUNCE
      /\ DUT_DETECT_DEBOUNCE \in Nat /\ DUT_DETECT_DEBOUNCE >= 1
  BY DebounceAssumption
<1>2. Disagreement(t) \in 1..run[t] BY JudgedRun DEF Judge
<1>3. n \in 0..(DUT_DETECT_DEBOUNCE - 1) /\ n <= run[t]
  <2>1. n = 0 \/ (n = Disagreement(t) /\ ~(Disagreement(t) >= DUT_DETECT_DEBOUNCE))
    BY DEF Agreement, Publishes
  <2> HIDE DEF n
  <2> QED BY <1>1, <1>2, <2>1
<1>4. n > 0 => pending_state'[t] = reading[t]
  <2>1. n > 0 => ~s_first_report /\ reading[t] # s_dut_present BY DEF Agreement, Publishes
  <2>2. pending_state' = [pending_state EXCEPT ![t] =
          IF ~s_first_report /\ reading[t] # s_dut_present THEN reading[t] ELSE @]
    BY DEF Judge
  <2> HIDE DEF n
  <2> QED BY <2>1, <2>2 DEF FlagsOK
<1>5. /\ debounce_count' = [debounce_count EXCEPT ![t] = n]
      /\ UNCHANGED <<run, reading>> /\ task'[t] # "judge"
      /\ \A u \in Tasks \ {t} : task'[u] = task[u] /\ pending_state'[u] = pending_state[u]
  BY DEF Judge, Go, FlagsOK
<1> HIDE DEF n
<1>6. CountersOK' BY <1>3, <1>5
<1>7. ASSUME NEW u \in Tasks, u # t PROVE debounce_count'[u] = debounce_count[u]
  BY <1>5, <1>7
<1>8. debounce_count'[t] = n BY <1>5
<1>9. CountsReadings' BY <1>3, <1>4, <1>5, <1>7, <1>8 DEF CountsReadings
<1> QED BY <1>6, <1>9

LEMMA SampleCounters ==
  ASSUME DebounceInv, NEW t \in Tasks, NEW detected \in BOOLEAN, SampleReads(t, detected)
  PROVE CountersOK' /\ CountsReadings'
<1> USE DEF DebounceInv, CountersOK
<1> DEFINE n == IF detected # reading[t] \/ run[t] = 0 THEN 1
                ELSE IF run[t] < DUT_DETECT_DEBOUNCE THEN run[t] + 1 ELSE run[t]
<1>1. /\ debounce_count[t] \in 0..(DUT_DETECT_DEBOUNCE - 1) /\ run[t] \in 0..DUT_DETECT_DEBOUNCE
      /\ DUT_DETECT_DEBOUNCE \in Nat /\ DUT_DETECT_DEBOUNCE >= 1 
  BY DebounceAssumption
<1>2. n \in 1..DUT_DETECT_DEBOUNCE BY <1>1, SMT
<1>3. task[t] = "sample" /\ debounce_count[t] <= run[t]
  BY SMT DEF SampleReads, CountsReadings
<1>4. pending_state[t] = detected => debounce_count[t] + 1 <= n
  <2>1. CASE detected = reading[t] /\ run[t] # 0
    <3>1. n = IF run[t] < DUT_DETECT_DEBOUNCE THEN run[t] + 1 ELSE run[t] BY <2>1
    <3> HIDE DEF n
    <3> QED BY <1>1, <1>3, <3>1
  <2>2. CASE run[t] = 0
    <3> HIDE DEF n
    <3> QED BY <1>1, <1>2, <1>3, <2>2
  <2>3. CASE detected # reading[t] /\ pending_state[t] = detected
    <3>1. ~(debounce_count[t] > 0) BY <1>3, <2>3 DEF CountsReadings
    <3> QED BY <1>1, <1>2, <3>1
  <2> QED BY <2>1, <2>2, <2>3
<1>5. /\ run' = [run EXCEPT ![t] = n]
      /\ UNCHANGED <<debounce_count, pending_state>>
      /\ reading'[t] = detected
      /\ \A u \in Tasks \ {t} : task'[u] = task[u] /\ reading'[u] = reading[u]
  BY DEF SampleReads, Go, FlagsOK
<1> HIDE DEF n
<1>6. CountersOK' BY <1>2, <1>5
<1>7. ASSUME NEW u \in Tasks, u # t
      PROVE /\ run'[u] = run[u] /\ task'[u] = task[u] /\ reading'[u] = reading[u]
            /\ debounce_count'[u] = debounce_count[u] /\ pending_state'[u] = pending_state[u]
  BY <1>5, <1>7
<1>8. run'[t] = n /\ task'[t] = "judge" BY <1>5 DEF SampleReads, Go, FlagsOK
<1>9. CountsReadings' BY <1>2, <1>4, <1>5, <1>7, <1>8 DEF CountsReadings
<1> QED BY <1>6, <1>9

\* The counters of a task that neither judges nor stops judging mean the same.
LEMMA CountersKept ==
  ASSUME DebounceInv, UNCHANGED <<reading, debounce_count, pending_state, run>>,
         \A u \in Tasks : (task'[u] = "judge") <=> (task[u] = "judge")
  PROVE CountersOK' /\ CountsReadings'
  BY DEF DebounceInv, CountersOK, CountsReadings

LEMMA QuietCounters ==
  ASSUME DebounceInv, NEW t \in Tasks, Quiet(t) PROVE CountersOK' /\ CountsReadings'
<1>1. FlagsOK BY DEF DebounceInv
<1> QED BY <1>1, QuietStep, CountersKept

LEMMA ElsewhereCounters ==
  ASSUME DebounceInv, Elsewhere \/ UNCHANGED vars PROVE CountersOK' /\ CountsReadings'
  BY ElsewhereStep, CountersKept

LEMMA StartCounters ==
  ASSUME DebounceInv, Starts PROVE CountersOK' /\ CountsReadings'
<1>1. FlagsOK BY DEF DebounceInv
<1>2. CASE UNCHANGED <<task, debounce_count, pending_state, run>>
  BY <1>1, <1>2, StartStep, CountersKept
<1>3. ASSUME NEW t \in Tasks, task[t] = "none",
             task' = [task EXCEPT ![t] = IF s_boot_delay_done THEN "loop" ELSE "boot"],
             debounce_count' = [debounce_count EXCEPT ![t] = 0],
             pending_state' = [pending_state EXCEPT ![t] = FALSE],
             run' = [run EXCEPT ![t] = 0]
      PROVE CountersOK' /\ CountsReadings'
  <2>1. reading' = reading BY <1>1, StartStep
  <2>2. CountersOK' BY <1>3, DebounceAssumption DEF DebounceInv, CountersOK
  <2>3. task'[t] # "judge" /\ debounce_count'[t] = 0 /\ run'[t] = 0
    BY <1>1, <1>3 DEF FlagsOK, DebounceInv, CountersOK
  <2>4. ASSUME NEW u \in Tasks, u # t
        PROVE /\ run'[u] = run[u] /\ task'[u] = task[u] /\ pending_state'[u] = pending_state[u]
              /\ debounce_count'[u] = debounce_count[u]
    BY <1>1, <1>3, <2>4 DEF FlagsOK, DebounceInv, CountersOK
  <2>5. CountsReadings' BY <2>1, <2>3, <2>4 DEF CountsReadings, DebounceInv
  <2> QED BY <2>2, <2>5
<1> QED BY <1>1, <1>2, <1>3, StartStep

LEMMA InitDebounce == Init => DebounceInv
<1> SUFFICES ASSUME Init PROVE DebounceInv
  OBVIOUS
<1>1. FlagsOK
  <2>1. /\ s_autostart_paused \in BOOLEAN /\ s_task_handle \in Tasks
        /\ task \in [Tasks -> {"boot", "none"}]
    BY DEF Init
  <2> QED BY <2>1 DEF Init, FlagsOK
<1>2. CountersOK BY DebounceAssumption DEF Init, CountersOK
<1>3. CountsReadings BY DEF Init, CountsReadings
<1>4. EnvOK BY MaxTypedAssumption DEF Init, EnvOK
<1> QED BY <1>1, <1>2, <1>3, <1>4 DEF DebounceInv

LEMMA NextDebounce == DebounceInv /\ [Next]_vars => DebounceInv'
<1> SUFFICES ASSUME DebounceInv, [Next]_vars PROVE DebounceInv'
  OBVIOUS
<1>1. FlagsOK /\ EnvOK' BY NextEnv DEF DebounceInv
<1>2. ASSUME NEW t \in Tasks, Quiet(t) PROVE DebounceInv'
  BY <1>1, <1>2, QuietFlags, QuietCounters DEF DebounceInv
<1>3. ASSUME NEW t \in Tasks, Judge(t) PROVE DebounceInv'
  BY <1>1, <1>3, JudgeFlags, JudgeCounters DEF DebounceInv
<1>4. ASSUME NEW t \in Tasks, NEW detected \in BOOLEAN, SampleReads(t, detected) PROVE DebounceInv'
  BY <1>1, <1>4, SampleFlags, SampleCounters DEF DebounceInv
<1>5. CASE Elsewhere \/ UNCHANGED vars
  BY <1>1, <1>5, ElsewhereFlags, ElsewhereCounters DEF DebounceInv
<1>6. CASE Starts BY <1>1, <1>6, StartFlags, StartCounters DEF DebounceInv
<1> QED BY <1>2, <1>3, <1>4, <1>5, <1>6, NextCases

LEMMA DebounceInvariant == Spec => []DebounceInv
  BY InitDebounce, NextDebounce, PTL DEF Spec

(***************************************************************************)
(* Every reachable state is of the declared types, whatever the rest of    *)
(* the system does: debounce_count stays below the debounce.               *)
(***************************************************************************)
THEOREM DetectTypeCorrect == Spec => []TypeOK
<1>1. DebounceInv => TypeOK BY TypeParts DEF DebounceInv
<1> QED BY <1>1, DebounceInvariant, PTL

\* Only a judgement of a long enough run changes the published presence.
LEMMA DebounceStep ==
  ASSUME DebounceInv, [Next]_vars, s_dut_present' # s_dut_present, ~s_first_report
  PROVE \E t \in Tasks : /\ task[t] = "judge" /\ reading[t] = s_dut_present'
                         /\ run[t] >= DUT_DETECT_DEBOUNCE
<1>1. FlagsOK BY DEF DebounceInv
<1>2. PICK t \in Tasks : Judge(t) \/ \E detected \in BOOLEAN : SampleReads(t, detected)
  BY <1>1, NextCases, QuietStep, ElsewhereStep, StartStep
<1>3. Judge(t) BY <1>2 DEF SampleReads, presence
<1>4. task[t] = "judge" /\ Publishes(t) /\ s_dut_present' = reading[t]
  BY <1>3 DEF Judge
<1>5. Disagreement(t) >= DUT_DETECT_DEBOUNCE BY <1>4 DEF Publishes
<1>6. Disagreement(t) \in 1..run[t] BY <1>4, JudgedRun
<1>7. run[t] >= DUT_DETECT_DEBOUNCE
  BY <1>5, <1>6, DebounceAssumption DEF DebounceInv, CountersOK
<1> QED BY <1>4, <1>7

(***************************************************************************)
(* The presence that was published changes only on a debounce of equal     *)
(* readings in a row by one task, for any number of tasks, any debounce    *)
(* and every scenario: a restart never carries a count over.               *)
(***************************************************************************)
THEOREM PresenceIsDebounced == Spec => PresenceDebounced
<1>1. DebounceInv /\ [Next]_vars
        => [s_dut_present' # s_dut_present /\ ~s_first_report =>
              \E t \in Tasks : /\ task[t] = "judge" /\ reading[t] = s_dut_present'
                               /\ run[t] >= DUT_DETECT_DEBOUNCE]_vars
  BY DebounceStep
<1> QED BY <1>1, DebounceInvariant, PTL DEF Spec, PresenceDebounced

-----------------------------------------------------------------------------
(***************************************************************************)
(* The hand-over of the U8 mux, in an undisturbed detection: it is started *)
(* again only once the last task has ended, no test reaches its gate in    *)
(* the boot delay, and nobody uses dut start, dut stop or dut sample.      *)
(***************************************************************************)
\* There is at most one task; s_task_handle or starting is its handle.
OneTask ==
  /\ \A t, u \in Tasks : task[t] # "none" /\ task[u] # "none" => t = u
  /\ \A t \in Tasks : task[t] # "none" => s_task_handle = t \/ starting = t
  /\ s_task_handle # NoTask => task[s_task_handle] # "none"

\* It runs only in IDLE, and where it looks at s_running tells whether it ends.
RunsInIdle ==
  /\ s_running => sm = "IDLE"
  /\ starting # NoTask => s_running /\ task[starting] # "none"
  /\ \A t \in Tasks : (task[t] = "exit" => ~s_running) /\ (task[t] = "boot" => ~s_boot_delay_done)

\* The gate has a test, no boot delay, and after its wait the mux to itself.
GateHasMux ==
  /\ gate \in {"wait", "power", "asserted"} <=> sm = "PRE_GATE"
  /\ gate = "held" <=> sm = "TESTING"
  /\ gate # "none" => s_boot_delay_done
  /\ gate \in {"power", "asserted", "held"} => \A t \in Tasks : task[t] = "none"
  /\ gate \in {"asserted", "held"} => mux = "pba"
  /\ lock # "console"

HandOverInv == OneTask /\ RunsInIdle /\ GateHasMux

LEMMA InitHandOver == Init => HandOverInv
<1> SUFFICES ASSUME Init PROVE HandOverInv
  OBVIOUS
<1> PICK t \in Tasks : /\ s_task_handle = t
                      /\ task = [u \in Tasks |-> IF u = t THEN "boot" ELSE "none"]
  BY DEF Init
<1>1. OneTask BY DEF OneTask, Init
<1>2. RunsInIdle BY DEF RunsInIdle, Init
<1>3. GateHasMux BY TasksAssumption DEF GateHasMux, Init
<1> QED BY <1>1, <1>2, <1>3 DEF HandOverInv

\* What a step of one task does, and what it leaves to the others.
LEMMA TaskHandOver ==
  ASSUME FlagsOK, HandOverInv, NEW t \in Tasks, Step(t) PROVE HandOverInv'
<1> USE TasksAssumption DEF FlagsOK, HandOverInv, OneTask, RunsInIdle, GateHasMux,
        flags, bus, cycle, Go
<1>1. CASE BootDelayEnds(t) BY <1>1 DEF BootDelayEnds
<1>2. CASE LookAtRunning(t) BY <1>2 DEF LookAtRunning
<1>3. CASE LockTimesOut(t) BY <1>3 DEF LockTimesOut
<1>4. CASE Inject(t) BY <1>4 DEF Inject
<1>5. CASE SampleFails(t) BY <1>5 DEF SampleFails
<1>6. CASE Publish(t) BY <1>6 DEF Publish
<1>7. CASE AutoStart(t) BY <1>7 DEF AutoStart, LeaveIdle, DetectStop, SmReady
<1>8. CASE AutoStartRefused(t) BY <1>8 DEF AutoStartRefused
<1>9. CASE Wake(t) BY <1>9 DEF Wake
<1>10. CASE EndTask(t) BY <1>10 DEF EndTask
<1>11. ASSUME NEW detected \in BOOLEAN, SampleReads(t, detected) PROVE HandOverInv'
  BY <1>11 DEF SampleReads
<1>12. CASE Judge(t)
  <2>1. task[t] = "judge" /\ task' = [task EXCEPT ![t] = IF Publishes(t) THEN "publish" ELSE "sleep"]
        /\ UNCHANGED <<flags, bus, cycle>>
    BY <1>12 DEF Judge
  <2> QED BY <2>1
<1> QED BY <1>1, <1>2, <1>3, <1>4, <1>5, <1>6, <1>7, <1>8, <1>9, <1>10, <1>11, <1>12 DEF Step

LEMMA GateHandOver == ASSUME FlagsOK, HandOverInv, Gate PROVE HandOverInv'
<1> USE TasksAssumption DEF FlagsOK, HandOverInv, OneTask, RunsInIdle, GateHasMux,
        flags, bus, cycle
<1>1. CASE GateWaits BY <1>1 DEF GateWaits, HandleIsNull
<1>2. CASE WaitTimesOut BY <1>2 DEF WaitTimesOut
<1>3. CASE AssertPbA BY <1>3 DEF AssertPbA
<1>4. CASE GateFails BY <1>4 DEF GateFails
<1>5. CASE GateUncalibrated BY <1>5 DEF GateUncalibrated
<1>6. CASE GatePasses BY <1>6 DEF GatePasses
<1> QED BY <1>1, <1>2, <1>3, <1>4, <1>5, <1>6 DEF Gate

LEMMA RestHandOver ==
  ASSUME Undisturbed, FlagsOK, HandOverInv,
         \/ StoreHandle \/ CmdStart \/ PrecheckPasses \/ BackToIdle \/ TestEnds
         \/ CooldownEnds \/ SetAutostart \/ Console \/ UNCHANGED vars
  PROVE HandOverInv'
<1> USE TasksAssumption DEF FlagsOK, HandOverInv, OneTask, RunsInIdle, GateHasMux,
        flags, bus, cycle
<1>1. CASE StoreHandle BY <1>1 DEF StoreHandle
<1>2. CASE CmdStart BY <1>2 DEF CmdStart, SmReady, LeaveIdle, DetectStop
<1>3. CASE PrecheckPasses BY <1>3 DEF PrecheckPasses, Undisturbed
<1>4. CASE BackToIdle
  <2>1. /\ \A t \in Tasks : task[t] = "none"
        /\ s_task_handle = NoTask /\ ~s_running /\ starting = NoTask /\ gate = "none"
    BY <1>4 DEF BackToIdle, Undisturbed, Alive
  <2>2. PICK t \in Tasks :
          /\ s_running' = TRUE /\ starting' = t
          /\ task' = [task EXCEPT ![t] = IF s_boot_delay_done THEN "loop" ELSE "boot"]
          /\ UNCHANGED <<s_task_handle, s_boot_delay_done>>
    BY <1>4, <2>1 DEF BackToIdle, OnIdle, DetectStart, Go
  <2>3. sm' = "IDLE" /\ UNCHANGED <<bus, gate>> BY <1>4 DEF BackToIdle
  <2> QED BY <2>1, <2>2, <2>3
<1>5. CASE TestEnds BY <1>5 DEF TestEnds
<1>6. CASE CooldownEnds BY <1>6 DEF CooldownEnds
<1>7. CASE SetAutostart BY <1>7 DEF SetAutostart
<1>8. CASE Console
  BY <1>8 DEF Console, DutStop, DutStart, Typed, DutSampleBegins, DutSampleEnds, Undisturbed
<1>9. CASE UNCHANGED vars BY <1>9 DEF vars
<1> QED BY <1>1, <1>2, <1>3, <1>4, <1>5, <1>6, <1>7, <1>8, <1>9

UndisturbedInv == Undisturbed => HandOverInv

LEMMA NextHandOver == DebounceInv /\ UndisturbedInv /\ [Next]_vars => UndisturbedInv'
<1> SUFFICES ASSUME DebounceInv, HandOverInv, [Next]_vars, Undisturbed PROVE HandOverInv'
  BY NextEnv DEF DebounceInv, UndisturbedInv, Undisturbed
<1>1. FlagsOK BY DEF DebounceInv
<1> QED BY <1>1, TaskHandOver, GateHandOver, RestHandOver DEF Next

(***************************************************************************)
(* dut_detect.h:17-18, for any number of tasks: in an undisturbed          *)
(* detection dut_detect_wait_stopped never gives up on a task, and past it *)
(* there is none.                                                          *)
(***************************************************************************)
THEOREM DetectionIsGone == Spec => []HandOverIsClean
<1>1. UndisturbedInv => HandOverIsClean
  BY DEF UndisturbedInv, HandOverInv, GateHasMux, HandOverIsClean, DetectionHasExited, Alive
<1>2. Init => UndisturbedInv BY InitHandOver DEF UndisturbedInv
<1> QED BY <1>1, <1>2, NextHandOver, DebounceInvariant, PTL DEF Spec

(***************************************************************************)
(* pre_test_gate.c, step 1, for any number of tasks: in an undisturbed     *)
(* detection PB-A stays asserted from the gate's u8_mux_select until the   *)
(* gate fails or the test ends.                                            *)
(***************************************************************************)
THEOREM PbAStaysHeld == Spec => []PbAHeld
<1>1. UndisturbedInv => PbAHeld
  BY DEF UndisturbedInv, HandOverInv, GateHasMux, PbAHeld
<1>2. Init => UndisturbedInv BY InitHandOver DEF UndisturbedInv
<1> QED BY <1>1, <1>2, NextHandOver, DebounceInvariant, PTL DEF Spec

-----------------------------------------------------------------------------
(***************************************************************************)
(* Automatic starts, where there is never a second task: the published     *)
(* presence remembers what the next one needs.                             *)
(***************************************************************************)
\* Without an ABSENT since the last automatic start the DUT counts as present,
\* so that no reading of it is news.
PresentSinceStart == /\ s_first_report => absentSeen
                     /\ ~absentSeen => s_dut_present

\* What the one task is about to report is what is now published.
ReportsPublished ==
  \A t \in Tasks :
    /\ task[t] \in {"publish", "start"} => reading[t] = s_dut_present /\ ~s_first_report
    /\ task[t] \in {"publish", "start"} /\ reading[t] => absentSeen
    /\ task[t] = "start" => reading[t]

SoleTask == \A t, u \in Tasks : task[t] # "none" /\ task[u] # "none" => t = u

InsertionInv == SoleTask /\ PresentSinceStart /\ ReportsPublished
OneAtATimeInv == OneAtATime => InsertionInv

LEMMA InitInsertion == Init => InsertionInv
<1> SUFFICES ASSUME Init PROVE InsertionInv
  OBVIOUS
<1> PICK t \in Tasks : task = [u \in Tasks |-> IF u = t THEN "boot" ELSE "none"]
  BY DEF Init
<1> QED BY DEF Init, InsertionInv, SoleTask, PresentSinceStart, ReportsPublished

\* What a step does that neither judges, reports nor starts a task.
LEMMA InsertionKept ==
  ASSUME FlagsOK, InsertionInv, NEW t \in Tasks, task[t] # "none",
         UNCHANGED <<s_first_report, s_dut_present, reading, absentSeen>>,
         task' \in {[task EXCEPT ![t] = where] :
                     where \in {"none", "loop", "lock", "sample", "sleep", "exit"}}
  PROVE InsertionInv'
  BY DEF FlagsOK, InsertionInv, SoleTask, PresentSinceStart, ReportsPublished

LEMMA TaskInsertion ==
  ASSUME FlagsOK, InsertionInv, NEW t \in Tasks, Step(t) PROVE InsertionInv'
<1> USE DEF presence, locals, history, Go
<1>1. CASE BootDelayEnds(t) BY <1>1, InsertionKept DEF BootDelayEnds
<1>2. CASE LookAtRunning(t) BY <1>2, InsertionKept DEF LookAtRunning
<1>3. CASE LockTimesOut(t) BY <1>3, InsertionKept DEF LockTimesOut
<1>4. CASE Inject(t) BY <1>4, InsertionKept DEF Inject
<1>5. CASE SampleFails(t) BY <1>5, InsertionKept DEF SampleFails
<1>6. CASE AutoStartRefused(t) BY <1>6, InsertionKept DEF AutoStartRefused
<1>7. CASE Wake(t) BY <1>7, InsertionKept DEF Wake
<1>8. CASE EndTask(t) BY <1>8, InsertionKept DEF EndTask
<1>9. ASSUME NEW detected \in BOOLEAN, SampleReads(t, detected) PROVE InsertionInv'
  <2>1. /\ task[t] = "sample" /\ task' = [task EXCEPT ![t] = "judge"]
        /\ reading' = [reading EXCEPT ![t] = detected]
        /\ UNCHANGED <<s_first_report, s_dut_present, absentSeen>>
    BY <1>9 DEF SampleReads, presence
  <2> QED BY <2>1 DEF FlagsOK, InsertionInv, SoleTask, PresentSinceStart, ReportsPublished
<1>10. CASE Publish(t)
  <2>1. /\ task[t] = "publish" /\ UNCHANGED <<s_first_report, s_dut_present, reading, absentSeen>>
        /\ \/ task' = [task EXCEPT ![t] = "start"] /\ reading[t]
           \/ task' = [task EXCEPT ![t] = "sleep"]
    BY <1>10 DEF Publish, presence
  <2> QED BY <2>1 DEF FlagsOK, InsertionInv, SoleTask, PresentSinceStart, ReportsPublished
<1>11. CASE AutoStart(t)
  <2>1. /\ task[t] = "start" /\ task' = [task EXCEPT ![t] = "sleep"] /\ absentSeen' = FALSE
        /\ UNCHANGED <<s_first_report, s_dut_present, reading>>
    BY <1>11 DEF AutoStart, presence
  <2>2. s_dut_present /\ ~s_first_report
    BY <2>1 DEF InsertionInv, ReportsPublished
  <2>3. \A u \in Tasks : task'[u] \notin {"publish", "start"}
    BY <2>1 DEF FlagsOK, InsertionInv, SoleTask
  <2> QED BY <2>1, <2>2, <2>3 DEF FlagsOK, InsertionInv, SoleTask, PresentSinceStart, ReportsPublished
<1>12. CASE Judge(t)
  <2>1. /\ task[t] = "judge" /\ reading' = reading /\ s_first_report' = FALSE
        /\ task' = [task EXCEPT ![t] = IF Publishes(t) THEN "publish" ELSE "sleep"]
        /\ s_dut_present' = IF Publishes(t) THEN reading[t] ELSE s_dut_present
        /\ absentSeen' = (absentSeen \/ (Publishes(t) /\ ~reading[t]))
    BY <1>12 DEF Judge
  <2>2. SoleTask' BY <2>1 DEF FlagsOK, InsertionInv, SoleTask
  <2>3. \A u \in Tasks : task'[u] \in {"publish", "start"} => u = t
    BY <2>1 DEF FlagsOK, InsertionInv, SoleTask
  <2>4. CASE Publishes(t)
    <3>1. s_first_report \/ reading[t] # s_dut_present BY <2>4 DEF Publishes
    <3>2. /\ task'[t] = "publish" /\ s_dut_present' = reading[t]
          /\ absentSeen' = (absentSeen \/ ~reading[t])
      BY <2>1, <2>4 DEF FlagsOK
    <3>3. absentSeen'
      BY <3>1, <3>2 DEF FlagsOK, InsertionInv, PresentSinceStart
    <3> QED BY <2>1, <2>2, <2>3, <3>2, <3>3 DEF InsertionInv, PresentSinceStart, ReportsPublished
  <2>5. CASE ~Publishes(t)
    <3>1. task'[t] = "sleep" /\ s_dut_present' = s_dut_present /\ absentSeen' = absentSeen
      BY <2>1, <2>5 DEF FlagsOK
    <3> QED BY <2>1, <2>2, <2>3, <3>1 DEF InsertionInv, PresentSinceStart, ReportsPublished
  <2> QED BY <2>4, <2>5
<1> QED BY <1>1, <1>2, <1>3, <1>4, <1>5, <1>6, <1>7, <1>8, <1>9, <1>10, <1>11, <1>12 DEF Step

\* The gate, the state machine and dut sample report nothing.
LEMMA ElsewhereInsertion ==
  ASSUME InsertionInv, Elsewhere \/ UNCHANGED vars PROVE InsertionInv'
<1> USE DEF history
<1>1. absentSeen' = absentSeen
  <2>1. CASE Gate
    BY <2>1 DEF Gate, GateWaits, WaitTimesOut, AssertPbA, GateFails, GateUncalibrated, GatePasses
  <2>2. CASE StoreHandle \/ CmdStart \/ PrecheckPasses \/ TestEnds \/ CooldownEnds \/ SetAutostart
    BY <2>2 DEF StoreHandle, CmdStart, PrecheckPasses, TestEnds, CooldownEnds, SetAutostart
  <2>3. CASE DutStop \/ DutSampleBegins \/ DutSampleEnds
    BY <2>3 DEF DutStop, DutSampleBegins, DutSampleEnds
  <2>4. CASE UNCHANGED vars BY <2>4 DEF vars
  <2> QED BY <2>1, <2>2, <2>3, <2>4 DEF Elsewhere
<1> QED BY <1>1, ElsewhereStep DEF InsertionInv, SoleTask, PresentSinceStart, ReportsPublished

\* A task is started only when there is none.
LEMMA StartInsertion ==
  ASSUME FlagsOK, OneAtATime, InsertionInv, Starts PROVE InsertionInv'
<1>1. BackToIdle /\ \A t \in Tasks : task[t] = "none"
  BY DEF Starts, BackToIdle, DutStart, Typed, OneAtATime, Alive
<1>2. UNCHANGED <<s_first_report, s_dut_present, reading>> BY StartStep
<1>3. absentSeen' = absentSeen BY <1>1 DEF BackToIdle
<1>4. \/ task' = task
      \/ \E t \in Tasks : task' = [task EXCEPT ![t] = IF s_boot_delay_done THEN "loop" ELSE "boot"]
  BY StartStep
<1>5. SoleTask' /\ \A t \in Tasks : task'[t] \notin {"publish", "start"}
  BY <1>1, <1>4 DEF FlagsOK, SoleTask
<1> QED BY <1>2, <1>3, <1>5 DEF InsertionInv, PresentSinceStart, ReportsPublished

LEMMA NextInsertion == DebounceInv /\ OneAtATimeInv /\ [Next]_vars => OneAtATimeInv'
<1> SUFFICES ASSUME DebounceInv, InsertionInv, [Next]_vars, OneAtATime PROVE InsertionInv'
  BY NextEnv DEF DebounceInv, OneAtATimeInv, OneAtATime
<1>1. FlagsOK BY DEF DebounceInv
<1>2. ASSUME NEW t \in Tasks, Step(t) PROVE InsertionInv'
  BY <1>1, <1>2, TaskInsertion
<1> QED BY <1>1, <1>2, ElsewhereInsertion, StartInsertion DEF Next, Console, Elsewhere, Starts

(***************************************************************************)
(* dut_detect.c:225-227, for any number of tasks and any debounce: where   *)
(* no second detection task is started, a DUT that stays in the fixture is *)
(* not tested again by itself, however often operators start and end tests *)
(* in between.                                                             *)
(***************************************************************************)
THEOREM StartsOncePerInsertion == Spec => OneStartPerInsertion
<1>1. OneAtATimeInv /\ [Next]_vars
        => [OneAtATime /\ (\E t \in Tasks : /\ task[t] = "start" /\ task'[t] # "start"
                                            /\ sm = "IDLE" /\ sm' = "PRECHECK") => absentSeen]_vars
  BY DEF OneAtATimeInv, InsertionInv, ReportsPublished
<1>2. Init => OneAtATimeInv BY InitInsertion DEF OneAtATimeInv
<1> QED BY <1>1, <1>2, NextInsertion, DebounceInvariant, PTL DEF Spec, OneStartPerInsertion
=============================================================================
