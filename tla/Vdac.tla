-------------------------------- MODULE Vdac --------------------------------
(***************************************************************************)
(* The two VDUT regulators (src/src/cmd_vdac.c) and who drives them: the   *)
(* console (vdac_duty, vdac_voltage, vdac off, vdac char, selftest vdut    *)
(* and selftest char) and the test cycle (pre_test_gate.c, power_check and *)
(* dut_power_cut of g3_primitives.c), two tasks with no lock between them. *)
(*                                                                         *)
(* The output of a regulator falls as its duty rises.  The interlock of    *)
(* vdac_set_duty refuses a duty below 75 % when the detection has cached   *)
(* that a DUT is present; the detection runs only while the state machine  *)
(* is in IDLE.                                                             *)
(*                                                                         *)
(* A task is the list of the driver calls it has still to make; each call  *)
(* is a step.  A call whose failure ends the command is marked "must".     *)
(***************************************************************************)
EXTENDS Integers, Sequences

CONSTANTS
  CharPoints,    \* duties of a characterisation, by scenario; 0, 5, ..., 100 in the code
  Voltages,      \* targets of vdac_voltage and pre_gate.vdut_mv, in mV
  Duties,        \* arguments of vdac_duty
  Scenarios      \* what may happen besides one command after another, sets of
                 \*  "overlap" the console is used during a test cycle
                 \*  "insert"  a DUT is inserted while a regulator is in use
                 \*  "stale"   a command is given before the detection has
                 \*            published an insertion
                 \*  "sample"  the sample before a sweep fails

Threads  == {"console", "cycle"}
Channels == {0, 1}

ASSUME PointsAssumption == CharPoints \in [Scenarios -> Seq(0..100)]
ASSUME VoltagesAssumption == Voltages \subseteq Nat
ASSUME DutiesAssumption == Duties \subseteq 0..100
ASSUME ScenariosAssumption == Scenarios \subseteq SUBSET {"overlap", "insert", "stale", "sample"}

VARIABLES
  s_enabled, s_ch_configured,
  duty,              \* duty register of each LEDC channel
  slope, intercept,  \* s_cal.vdut_slope_mv_per_pct and _intercept_mv
  cal_v50, cal_v90,  \* anchors of the sweep in progress, -1 for none
  s_dut_present, s_first_report,
  seated,            \* there is a DUT in the fixture
  prog,              \* the calls each task has still to make
  sm,                \* "IDLE", "GATE", "TEST" or "ENDED"
  scenario           \* the one this behaviour is of

rails   == <<s_enabled, s_ch_configured, duty>>
cal     == <<slope, intercept, cal_v50, cal_v90>>
dut     == <<s_dut_present, s_first_report, seated>>
vars    == <<rails, cal, dut, prog, sm, scenario>>

-----------------------------------------------------------------------------
(***************************************************************************)
(* The regulators and their calibration.                                   *)
(***************************************************************************)
\* mV at a duty: about 10 V at 0 %, 5 V at 75 %, below 4 V at 90 %.
Output(pct) == 11000 - 80 * pct

\* C division: towards zero.
Quotient(a, b) == IF (a < 0) = (b < 0) THEN (IF a < 0 THEN -a ELSE a) \div (IF b < 0 THEN -b ELSE b)
                  ELSE -((IF a < 0 THEN -a ELSE a) \div (IF b < 0 THEN -b ELSE b))
Clamp(x, lo, hi) == IF x < lo THEN lo ELSE IF x > hi THEN hi ELSE x

\* tc_cal_vdut_duty_for_mv, for a channel that is calibrated.
DutyForMv(c, mv) == Clamp(Quotient(mv - intercept[c], slope[c]), 1, 99)

\* Mutation: a detection that has not sampled yet counts as ABSENT.
NotReadyIsAbsent(pct) == pct < 75 /\ s_dut_present
\* The interlock of vdac_set_duty.
Interlocked(pct) == pct < 75 /\ (s_first_report \/ s_dut_present)

-----------------------------------------------------------------------------
(***************************************************************************)
(* What the commands and the cycle do, as lists of calls.                  *)
(***************************************************************************)
SetDuty(c, pct)    == [do |-> "duty", ch |-> c, arg |-> pct, must |-> FALSE]
MustDuty(c, pct)   == [do |-> "duty", ch |-> c, arg |-> pct, must |-> TRUE]
SetVoltage(c, mv)  == [do |-> "voltage", ch |-> c, arg |-> mv, must |-> TRUE]
Enable(c)          == [do |-> "enable", ch |-> c, arg |-> 1, must |-> FALSE]
Disable(c)         == [do |-> "enable", ch |-> c, arg |-> 0, must |-> FALSE]
Measure(what, pct) == [do |-> what, ch |-> 0, arg |-> pct, must |-> FALSE]
SaveCalibration    == [do |-> "save", ch |-> 0, arg |-> 0, must |-> FALSE]

Off == <<SetDuty(0, 0), SetDuty(1, 0), Disable(0), Disable(1)>>
SweepStarts == <<MustDuty(0, 0), MustDuty(1, 0), Enable(0), Enable(1)>>

\* The calls of a sweep over points[1], points[2], ...
Steps(points, what) == [i \in 1..(3 * Len(points)) |->
  LET pct == points[(i + 2) \div 3]
  IN  CASE i % 3 = 1 -> SetDuty(0, pct) [] i % 3 = 2 -> SetDuty(1, pct) [] i % 3 = 0 -> Measure(what, pct)]

Char == SweepStarts \o Steps(CharPoints[scenario], "read") \o Off
Vdut == SweepStarts \o Steps(<<10, 50, 90>>, "report") \o Off
VdacChar == Char \o <<SaveCalibration>>

PowerOn(mv) == <<SetVoltage(0, mv), Enable(0)>>
GateVerdict == [do |-> "verdict", ch |-> 0, arg |-> 0, must |-> FALSE]
dut_power_cut == <<SetDuty(0, 0), Disable(0), SetDuty(1, 0), Disable(1)>>

-----------------------------------------------------------------------------
(***************************************************************************)
(* One call of a task.                                                     *)
(***************************************************************************)
Init ==
  /\ s_enabled = [c \in Channels |-> FALSE] /\ s_ch_configured = [c \in Channels |-> FALSE]
  /\ duty = [c \in Channels |-> 0]
  /\ \/ slope = [c \in Channels |-> 0] /\ intercept = [c \in Channels |-> 0]
     \/ slope = [c \in Channels |-> -80] /\ intercept = [c \in Channels |-> 11000]
  /\ cal_v50 = [c \in Channels |-> -1] /\ cal_v90 = [c \in Channels |-> -1]
  /\ s_dut_present = FALSE /\ s_first_report = TRUE /\ seated \in BOOLEAN
  /\ prog = [t \in Threads |-> <<>>] /\ sm = "IDLE"
  /\ scenario \in Scenarios

Call(t, what) == prog[t] # <<>> /\ Head(prog[t]).do = what
Returns(t) == prog' = [prog EXCEPT ![t] = Tail(@)]
\* A refused call: the command returns if it looks at the result.
Refused(t) == /\ prog' = [prog EXCEPT ![t] = IF Head(@).must THEN <<>> ELSE Tail(@)]
              /\ UNCHANGED rails

\* vdac_set_duty.
Drive(t, c, pct) ==
  IF Interlocked(pct)
    THEN Refused(t)
    ELSE /\ duty' = [duty EXCEPT ![c] = pct]
         /\ s_ch_configured' = [s_ch_configured EXCEPT ![c] = TRUE]
         /\ Returns(t)
         /\ UNCHANGED s_enabled

vdac_set_duty(t) ==
  /\ Call(t, "duty")
  /\ Drive(t, Head(prog[t]).ch, Head(prog[t]).arg)
  /\ UNCHANGED <<cal, dut, sm, scenario>>

vdac_set_voltage(t) ==
  /\ Call(t, "voltage")
  /\ LET c == Head(prog[t]).ch
     IN  IF slope[c] = 0 THEN Refused(t) ELSE Drive(t, c, DutyForMv(c, Head(prog[t]).arg))
  /\ UNCHANGED <<cal, dut, sm, scenario>>

vdac_set_enable(t) ==
  /\ Call(t, "enable")
  /\ s_enabled' = [s_enabled EXCEPT ![Head(prog[t]).ch] = (Head(prog[t]).arg = 1)]
  /\ Returns(t)
  /\ UNCHANGED <<s_ch_configured, duty, cal, dut, sm, scenario>>

(***************************************************************************)
(* The readings of a sweep point, of which the two anchors are kept; a     *)
(* reading of an INA219 may fail, and reads 0 of a regulator that is off.  *)
(***************************************************************************)
Anchor(old, ok) == [c \in Channels |-> IF c \in ok /\ s_enabled[c] THEN Output(duty[c]) ELSE old[c]]
ReadPoint(t) ==
  /\ Call(t, "read")
  /\ \E ok \in SUBSET Channels :
       /\ cal_v50' = IF Head(prog[t]).arg = 50 THEN Anchor(cal_v50, ok) ELSE cal_v50
       /\ cal_v90' = IF Head(prog[t]).arg = 90 THEN Anchor(cal_v90, ok) ELSE cal_v90
  /\ Returns(t)
  /\ UNCHANGED <<rails, slope, intercept, dut, sm, scenario>>

\* Mutation: an anchor that was not read is not noticed.
AnyAnchors(c) == cal_v50[c] # cal_v90[c]
HasAnchors(c) == cal_v50[c] > 0 /\ cal_v90[c] > 0 /\ cal_v50[c] # cal_v90[c]
NewSlope(c)   == Quotient(cal_v90[c] - cal_v50[c], 90 - 50)

\* do_vdac_char, step 5.
Calibrate(t) ==
  /\ Call(t, "save")
  /\ slope' = [c \in Channels |-> IF HasAnchors(c) THEN NewSlope(c) ELSE slope[c]]
  /\ intercept' = [c \in Channels |->
                     IF HasAnchors(c) THEN cal_v50[c] - NewSlope(c) * 50 ELSE intercept[c]]
  /\ cal_v50' = [c \in Channels |-> -1] /\ cal_v90' = [c \in Channels |-> -1]
  /\ Returns(t)
  /\ UNCHANGED <<rails, dut, sm, scenario>>

\* run_vdut keeps the readings for its report.
ReportPoint(t) ==
  /\ Call(t, "report")
  /\ Returns(t)
  /\ UNCHANGED <<rails, cal, dut, sm, scenario>>

Step(t) == vdac_set_duty(t) \/ vdac_set_voltage(t) \/ vdac_set_enable(t) \/ ReadPoint(t)
           \/ ReportPoint(t) \/ Calibrate(t)

-----------------------------------------------------------------------------
(***************************************************************************)
(* Who calls.                                                              *)
(***************************************************************************)
\* The detection is not behind an insertion.
Known == seated => s_first_report \/ s_dut_present
MayBegin(t) ==
  /\ prog[t] = <<>>
  /\ "stale" \in scenario \/ Known
  /\ "overlap" \in scenario \/ (\A u \in Threads : prog[u] = <<>>)
Begin(t, calls) ==
  /\ MayBegin(t)
  /\ prog' = [prog EXCEPT ![t] = calls]
  /\ UNCHANGED <<rails, dut, sm, scenario>>
AtConsole == "overlap" \in scenario \/ sm = "IDLE"

ConsoleSets ==
  /\ AtConsole
  /\ \E c \in Channels :
       \/ \E pct \in Duties : Begin("console", <<MustDuty(c, pct), Enable(c)>>)
       \/ \E mv \in Voltages : Begin("console", <<SetVoltage(c, mv), Enable(c)>>)
  /\ UNCHANGED cal

ConsoleOff == AtConsole /\ Begin("console", Off) /\ UNCHANGED cal

\* "if (sampled && mv < THRESHOLD)": only a sample that succeeds stops it.
SampleLetsGo == ~seated \/ "sample" \in scenario

ConsoleSweeps ==
  /\ AtConsole
  /\ \/ SampleLetsGo /\ \E calls \in {Vdut, VdacChar} : Begin("console", calls)
     \/ Begin("console", Char)
  /\ cal_v50' = [c \in Channels |-> -1] /\ cal_v90' = [c \in Channels |-> -1]
  /\ UNCHANGED <<slope, intercept>>

\* The gate of a cycle, step 1.
StartCycle ==
  /\ sm = "IDLE" /\ MayBegin("cycle")
  /\ sm' = "GATE"
  /\ \E mv \in Voltages : prog' = [prog EXCEPT !["cycle"] = Append(PowerOn(mv), GateVerdict)]
  /\ UNCHANGED <<rails, cal, dut, scenario>>

\* vdac_set_voltage fails: "goto done", past the power_off.
GateUncalibrated ==
  /\ sm = "GATE" /\ prog["cycle"] = <<>>
  /\ sm' = "ENDED"
  /\ UNCHANGED <<rails, cal, dut, prog, scenario>>

\* Steps 2 to 4 pass and leave VDUT on, or fail and cut it.
Verdict(t) ==
  /\ Call(t, "verdict")
  /\ \/ sm' = "TEST" /\ Returns(t)
     \/ sm' = "ENDED" /\ prog' = [prog EXCEPT ![t] = <<Disable(0)>>]
  /\ UNCHANGED <<rails, cal, dut, scenario>>

\* power_check touches the regulator only when it finds it off.
PowerCheck ==
  /\ sm = "TEST" /\ ~s_enabled[0]
  /\ \E mv \in Voltages : Begin("cycle", PowerOn(mv))
  /\ UNCHANGED cal

\* A critical failure, or the end of the test.
CutPower ==
  /\ sm = "TEST" /\ prog["cycle"] = <<>>
  /\ sm' = "ENDED"
  /\ prog' = [prog EXCEPT !["cycle"] = dut_power_cut]
  /\ UNCHANGED <<rails, cal, dut, scenario>>

BackToIdle ==
  /\ sm = "ENDED" /\ prog["cycle"] = <<>>
  /\ sm' = "IDLE"
  /\ UNCHANGED <<rails, cal, dut, prog, scenario>>

-----------------------------------------------------------------------------
(***************************************************************************)
(* The DUT and the detection.                                              *)
(***************************************************************************)
Quiet == /\ sm = "IDLE" /\ \A t \in Threads : prog[t] = <<>>
         /\ \A c \in Channels : ~s_enabled[c]

Insert ==
  /\ ~seated /\ ("insert" \in scenario \/ Quiet)
  /\ seated' = TRUE
  /\ UNCHANGED <<rails, cal, s_dut_present, s_first_report, prog, sm, scenario>>

Remove ==
  /\ seated /\ seated' = FALSE
  /\ UNCHANGED <<rails, cal, s_dut_present, s_first_report, prog, sm, scenario>>

\* dut_detect_task publishes; it is stopped while the SM is not in IDLE.
Detect ==
  /\ sm = "IDLE" /\ (s_first_report \/ s_dut_present # seated)
  /\ s_dut_present' = seated /\ s_first_report' = FALSE
  /\ UNCHANGED <<rails, cal, seated, prog, sm, scenario>>

Next ==
  \/ \E t \in Threads : Step(t)
  \/ ConsoleSets \/ ConsoleOff \/ ConsoleSweeps
  \/ StartCycle \/ GateUncalibrated \/ Verdict("cycle") \/ PowerCheck \/ CutPower \/ BackToIdle
  \/ Insert \/ Remove \/ Detect

Spec == Init /\ [][Next]_vars

-----------------------------------------------------------------------------
(***************************************************************************)
(* Properties.                                                             *)
(***************************************************************************)

(***************************************************************************)
(* cmd_vdac.c:82-85, the over-voltage interlock: a duty below 75 % exceeds *)
(* what the DUT is rated for, so no regulator that is on has one while     *)
(* there is a DUT in the fixture.  It looks only when a duty is set, so    *)
(* the DUT must have been seen by then.                                    *)
(***************************************************************************)
DutRatedVoltage ==
  scenario \cap {"insert", "stale"} = {}
    => \A c \in Channels : seated /\ s_enabled[c] => duty[c] >= 75

(***************************************************************************)
(* cmd_vdac.c:258-265: what a sweep calibrates is the line through the     *)
(* outputs at 50 % and 90 %, whatever readings fail, and vdac_voltage      *)
(* gives the voltage asked for.  A test cycle that drives a regulator in   *)
(* the middle of a sweep breaks this, and so does a DUT that is inserted   *)
(* into one: the interlock refuses the rest, the readings go on.           *)
(***************************************************************************)
CalibrationIsMeasured ==
  scenario \subseteq {"sample"}
    => \A c \in Channels : slope[c] # 0 => slope[c] = -80 /\ intercept[c] = 11000
=============================================================================
