------------------------------ MODULE TieScan -------------------------------
(***************************************************************************)
(* The analog inputs of the TIE: a mux, its four select lines, and the     *)
(* ADC128D818, which converts its eight inputs in turn, about 12 ms each,  *)
(* and keeps the last conversion of each in a register.  A task selects a  *)
(* channel, waits and reads the register: run_mux_read, run_short_detect   *)
(* and the snapshot steps of a recipe (g3_primitives.c), run_mux_scan,     *)
(* run_dut_heartbeat and run_temp (cmd_selftest.c), tie read (cmd_tie.c)   *)
(* and the presence detection's sample (dut_detect.c).                     *)
(*                                                                         *)
(* The four muxes share nothing but the converter; this is one of them.    *)
(* The snapshot tables are those of Snapshots.                             *)
(*                                                                         *)
(* There is no clock.  A delay is its length in ms: one of at least ROUND  *)
(* does not end before every input was converted, a shorter one may end    *)
(* before or after any conversion.                                         *)
(***************************************************************************)
EXTENDS Snapshots, FiniteSets

CONSTANTS
  Chans,        \* channels of the mux, 0..n
  Probe,        \* the presence detection's channel, DUT_DETECT_TIE_MUX_CH
  Heart,        \* the DUT's heartbeat, HEARTBEAT_MUX_CH
  Driven,       \* the pin a short_detect step drives, its skip_ch
  ROUND,        \* 96: 8 inputs of 12 ms
  SettleTimes,  \* settle_ms of mux_read and tie read: 110, or what a recipe gives
  SAMPLES,      \* HEARTBEAT_SAMPLES, 25 in the code
  Beat          \* samples between two edges of the heartbeat, 5 or 10

ASSUME ChansAssumption ==
  /\ Chans = 0..Cardinality(Chans) - 1
  /\ {Probe, Heart, Driven} \subseteq Chans
ASSUME TimingAssumption ==
  /\ ROUND \in 21..100 /\ \A ms \in SettleTimes : ms \in Nat /\ ms >= ROUND
  /\ Beat \in Nat /\ Beat >= 2 /\ SAMPLES \in Nat /\ SAMPLES >= Beat + 3

VARIABLES
  sel,    \* the channel that the select lines select
  high,   \* the channels whose net is high
  alive,  \* the heartbeat beats
  quiet,  \* samples of the heartbeat since its last edge
  mode,   \* of the converter: in mode 0 its input 7 is the temperature diode
  conv,   \* register of the mux's input: the channel it converted, and its level
  in7,    \* register of input 7: the mode it was converted in
  job,    \* what each task is doing
  last    \* history: the last reading, and the last verdict on the board

tieVars == <<sel, high, alive, quiet, mode, conv, in7, job, last>>
scanVars == <<snapVars, tieVars>>

TieTasks == {"recipe", "console", "detect"}
Inputs == {"mux", "in7"}

\* at: "init" while the converter starts, "next" to select the first channel of
\* todo, "wait" to read its register, "restore" of a temperature reading.
\* saw: levels read.  alone: since it selected, no other task has.
Job(op, at, todo, settle) ==
  [op |-> op, at |-> at, todo |-> todo, settle |-> settle, delay |-> 0, done |-> {},
   saw |-> {}, left |-> SAMPLES, alone |-> TRUE]
NoJob == Job("none", "none", {}, 0)
NoReading == [op |-> "none", asked |-> "none", got |-> "none", pass |-> TRUE, alone |-> TRUE]

TieInit ==
  /\ SnapInit
  /\ sel = 0
  /\ high \in {S \in SUBSET Chans : Driven \in S}
  /\ alive \in BOOLEAN /\ quiet = 0
  /\ mode = 1 /\ in7 = 1
  /\ conv = [ch |-> sel, level |-> sel \in high]
  /\ job = [t \in TieTasks |-> NoJob] /\ last = NoReading

-----------------------------------------------------------------------------
(***************************************************************************)
(* The converter and the board.                                            *)
(***************************************************************************)
Delayed(t) == job[t].at \in {"init", "wait"}

Convert(input) ==
  /\ \E t \in TieTasks : Delayed(t) /\ input \notin job[t].done
  /\ conv' = IF input = "mux" THEN [ch |-> sel, level |-> sel \in high] ELSE conv
  /\ in7' = IF input = "in7" THEN mode ELSE in7
  /\ job' = [t \in TieTasks |->
               IF Delayed(t) THEN [job[t] EXCEPT !.done = @ \cup {input}] ELSE job[t]]
  /\ last' = NoReading
  /\ UNCHANGED <<snapVars, sel, high, alive, quiet, mode>>

\* The DUT toggles PA9.
Edge ==
  /\ alive /\ quiet = Beat
  /\ quiet' = 0
  /\ high' = IF Heart \in high THEN high \ {Heart} ELSE high \cup {Heart}
  /\ last' = NoReading
  /\ UNCHANGED <<snapVars, sel, alive, mode, conv, in7, job>>

-----------------------------------------------------------------------------
(***************************************************************************)
(* What the operations are made of.                                        *)
(***************************************************************************)
\* dut_detect_sample holds i2c_lock from its first to its last access.
BusFree(t) == \A u \in TieTasks \ {t} : job[u].op # "sample"

\* The other tasks that wait for a conversion and lose it.
Disturbed(t, temp) ==
  [u \in TieTasks |-> IF u # t /\ job[u].at = "wait" /\ (job[u].op = "temp") = temp
                   THEN [job[u] EXCEPT !.alone = FALSE] ELSE job[u]]

\* ADV_CFG, CONV_RATE and CONFIG are written (tie_adc128_init with mode 1).
SetMode(t, m, j) ==
  /\ BusFree(t)
  /\ mode' = m
  /\ job' = [(IF m = mode THEN job ELSE Disturbed(t, TRUE)) EXCEPT ![t] = j]

\* vTaskDelay(ms): the task does not go on before.
Delay(j, where, ms) == [j EXCEPT !.at = where, !.delay = ms, !.done = {}]
At(t, where) == job[t].at = where /\ (job[t].delay >= ROUND => job[t].done = Inputs)

Begin(t, op, todo, settle) ==
  /\ job[t] = NoJob /\ "closed" \notin tieScenario
  /\ SetMode(t, 1, Delay(Job(op, "init", todo, settle), "init", 150))
  /\ last' = NoReading
  /\ UNCHANGED <<sel, high, alive, quiet, conv, in7>>

\* tie read and the detection's sample do not wait for the converter to start.
BeginAtOnce(t, op, ch, settle) ==
  /\ job[t] = NoJob
  /\ SetMode(t, 1, Job(op, "next", {ch}, settle))
  /\ last' = NoReading
  /\ UNCHANGED <<sel, high, alive, quiet, conv, in7>>

-----------------------------------------------------------------------------
(***************************************************************************)
(* The operations.  Detection is stopped while a test runs, the console    *)
(* never is.                                                               *)
(***************************************************************************)
RecipeMay == job["detect"] = NoJob

run_mux_read ==
  /\ RecipeMay
  /\ \E ch \in Chans, ms \in SettleTimes : Begin("recipe", "mux_read", {ch}, ms)
  /\ UNCHANGED snapVars

\* Its range does not hold the heartbeat.
run_short_detect ==
  /\ RecipeMay
  /\ Begin("recipe", "short_detect", Chans \ {Driven, Heart}, 20)
  /\ UNCHANGED snapVars

run_dut_heartbeat ==
  /\ RecipeMay
  /\ Begin("recipe", "heartbeat", {Heart}, 20)
  /\ UNCHANGED snapVars

\* The LTC2498's tables are filled by the DUT, not by a scan of the muxes.
ScanFor(op) ==
  /\ RecipeMay /\ job["recipe"] = NoJob
  /\ IF "closed" \in tieScenario THEN UNCHANGED tieVars ELSE Begin("recipe", op, Chans, 20)

run_mux_snapshot(n) ==
  \/ BeginSnapshot(n) /\ ScanFor("snapshot")
  \/ job["recipe"] = NoJob /\ (TableFull(n) \/ SnapshotRefused(n)) /\ UNCHANGED tieVars

run_mux_compare_snapshot(n) ==
  \/ CompareFinds(n) /\ ScanFor("compare")
  \/ job["recipe"] = NoJob /\ CompareFails(n) /\ UNCHANGED tieVars

do_tie_read ==
  /\ "busy" \in tieScenario
  /\ \E ch \in Chans, ms \in SettleTimes : BeginAtOnce("console", "tie_read", ch, ms)
  /\ UNCHANGED snapVars

run_mux_scan ==
  /\ "busy" \in tieScenario
  /\ Begin("console", "mux_scan", Chans, 20)
  /\ UNCHANGED snapVars

\* The i2c step and the console's selftest end with it.
run_temp(t) ==
  /\ "busy" \in tieScenario /\ t # "detect" /\ job[t] = NoJob
  /\ t = "recipe" => RecipeMay
  /\ SetMode(t, 0, Delay(Job("temp", "wait", {}, 0), "wait", 150))
  /\ last' = NoReading
  /\ UNCHANGED <<snapVars, sel, high, alive, quiet, conv, in7>>

dut_detect_sample ==
  /\ "busy" \in tieScenario /\ job["recipe"] = NoJob
  /\ BeginAtOnce("detect", "sample", Probe, 200)
  /\ UNCHANGED snapVars

-----------------------------------------------------------------------------
(***************************************************************************)
(* Their steps.                                                            *)
(***************************************************************************)
Started(t) ==
  /\ At(t, "init")
  /\ job' = [job EXCEPT ![t].at = "next"]
  /\ last' = NoReading
  /\ UNCHANGED <<snapVars, sel, high, alive, quiet, mode, conv, in7>>

\* The converter refuses its configuration: nothing is read.
InitFails(t) ==
  /\ "fail" \in tieScenario /\ job[t].at = "init"
  /\ IF job[t].op = "snapshot" THEN ScanFails ELSE UNCHANGED snapVars
  /\ job' = [job EXCEPT ![t] = NoJob]
  /\ last' = NoReading
  /\ UNCHANGED <<sel, high, alive, quiet, mode, conv, in7>>

\* Mutation: a single channel settles like one of a scan.
SettlesShort(op, settle) == IF op \in {"mux_read", "tie_read"} THEN 20 ELSE settle
Settles(op, settle) == settle

\* tie_mux_select drives the select lines, under no lock.
Select(t) ==
  /\ job[t].at = "next"
  /\ sel' = First(job[t].todo)
  /\ job' = [Disturbed(t, FALSE) EXCEPT ![t] = Delay(@, "wait", Settles(@.op, @.settle))]
  /\ last' = NoReading
  /\ UNCHANGED <<snapVars, high, alive, quiet, mode, conv, in7>>

Reading(t, asked, got, pass) ==
  last' = [op |-> job[t].op, asked |-> asked, got |-> got, pass |-> pass, alone |-> job[t].alone]

\* run_mux_read, do_tie_read and dut_detect_sample.
ReadOne(t) ==
  /\ At(t, "wait") /\ job[t].op \in {"mux_read", "tie_read", "sample"} /\ BusFree(t)
  /\ Reading(t, First(job[t].todo), conv.ch, TRUE)
  /\ job' = [job EXCEPT ![t] = NoJob]
  /\ UNCHANGED <<snapVars, sel, high, alive, quiet, mode, conv, in7>>

ReadTemp(t) ==
  /\ At(t, "wait") /\ job[t].op = "temp" /\ BusFree(t)
  /\ Reading(t, "mode 0", IF in7 = 0 THEN "mode 0" ELSE "mode 1", TRUE)
  /\ job' = [job EXCEPT ![t].at = "restore"]
  /\ UNCHANGED <<snapVars, sel, high, alive, quiet, mode, conv, in7>>

RestoreMode(t) ==
  /\ job[t].at = "restore"
  /\ SetMode(t, 1, NoJob)
  /\ last' = NoReading
  /\ UNCHANGED <<snapVars, sel, high, alive, quiet, conv, in7>>

Scans == {"short_detect", "mux_scan", "snapshot", "compare"}
\* A reading that fails is left out of a scan and of a heartbeat.
Reads(t) == {{conv.level}} \cup (IF "fail" \in tieScenario THEN {{}} ELSE {})

ScanNext(t) ==
  /\ At(t, "wait") /\ job[t].op \in Scans /\ BusFree(t)
  /\ \E seen \in Reads(t) :
       job' = [job EXCEPT ![t].saw = @ \cup seen, ![t].at = "next",
                          ![t].todo = @ \ {First(@)}]
  /\ Cardinality(job[t].todo) > 1
  /\ last' = NoReading
  /\ UNCHANGED <<snapVars, sel, high, alive, quiet, mode, conv, in7>>

\* No channel of short_detect was above its threshold.
NoShort(saw) == TRUE \notin saw

ScanEnds(t) ==
  /\ At(t, "wait") /\ job[t].op \in Scans /\ BusFree(t)
  /\ Cardinality(job[t].todo) = 1
  /\ \E seen \in Reads(t) :
       Reading(t, "all", "all", job[t].op = "short_detect" => NoShort(job[t].saw \cup seen))
  /\ IF job[t].op = "snapshot" THEN Scanned ELSE UNCHANGED snapVars
  /\ job' = [job EXCEPT ![t] = NoJob]
  /\ UNCHANGED <<sel, high, alive, quiet, mode, conv, in7>>

\* Mutation: the samples end before the second edge.
FewSamples(left) == left = SAMPLES - Beat
LastSample(left) == left = 1

\* saw_low and saw_high.
Beats(saw) == saw = BOOLEAN

SampleHeart(t) ==
  /\ At(t, "wait") /\ job[t].op = "heartbeat" /\ BusFree(t)
  /\ quiet < Beat \/ ~alive
  /\ quiet' = IF alive THEN quiet + 1 ELSE quiet
  /\ \E seen \in Reads(t) :
       LET saw == job[t].saw \cup seen IN
       IF LastSample(job[t].left)
       THEN /\ Reading(t, "all", "all", Beats(saw))
            /\ job' = [job EXCEPT ![t] = NoJob]
       ELSE /\ job' = [job EXCEPT ![t] = [Delay(@, "wait", 100) EXCEPT !.saw = saw, !.left = job[t].left - 1]]
            /\ last' = NoReading
  /\ UNCHANGED <<snapVars, sel, high, alive, mode, conv, in7>>

\* The snapshot of a table of the LTC2498.
DutScans ==
  /\ "closed" \in tieScenario
  /\ Scanned \/ ScanFails
  /\ UNCHANGED tieVars

Operation ==
  \/ run_mux_read \/ run_short_detect \/ run_dut_heartbeat
  \/ \E n \in Names : run_mux_snapshot(n) \/ run_mux_compare_snapshot(n)
  \/ do_tie_read \/ run_mux_scan \/ dut_detect_sample
  \/ \E t \in TieTasks : run_temp(t)

TieStep(t) ==
  \/ Started(t) \/ InitFails(t) \/ Select(t) \/ ReadOne(t) \/ ReadTemp(t)
  \/ RestoreMode(t) \/ ScanNext(t) \/ ScanEnds(t) \/ SampleHeart(t)

TieNext ==
  \/ \E i \in Inputs : Convert(i)
  \/ Edge \/ Operation \/ DutScans
  \/ \E t \in TieTasks : TieStep(t)

TieSpec == TieInit /\ [][TieNext]_scanVars

-----------------------------------------------------------------------------
(***************************************************************************)
(* Properties.                                                             *)
(***************************************************************************)

(***************************************************************************)
(* g3_primitives.c:402-403, "Must wait at least one full cycle after MUX   *)
(* change to read a fresh value": what mux_read, tie read, the detection's *)
(* sample and the temperature reading find in the register was converted   *)
(* after they selected it, unless another task selected meanwhile.         *)
(***************************************************************************)
ReadingIsOwn == last.alone => last.got = last.asked

(***************************************************************************)
(* A heartbeat is sampled long enough: the check of a DUT that beats does  *)
(* not fail, whatever the phase of its beat and of the converter, and      *)
(* although its first sample may be of the channel selected before.        *)
(***************************************************************************)
LiveHeartPasses ==
  last.op = "heartbeat" /\ last.alone /\ alive /\ "fail" \notin tieScenario => last.pass

(***************************************************************************)
(* g3_primitives.c:902-903, "any that exceed the threshold indicate a      *)
(* solder bridge or trace short", and cmd_selftest.c:658-659, "verify the  *)
(* signal both rises above and falls below a mid-rail threshold": the      *)
(* check of a board with a short, or of a DUT whose PA9 stands still,      *)
(* fails when no other task uses the mux.                                  *)
(***************************************************************************)
BadBoardFails ==
  last.alone /\ tieScenario = {} =>
    /\ last.op = "short_detect" /\ last.pass => high \subseteq {Driven, Heart}
    /\ last.op = "heartbeat" /\ last.pass => alive
=============================================================================
