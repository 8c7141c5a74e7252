# A TLA+ model of the TestController firmware

The TestController (`src/`) is the firmware of an ESP32-S3 that tests one
printed circuit board at a time, the DUT.  It notices that a board has been put
into the fixture, runs a selftest of itself, powers the board through a gate
that measures its current, runs a JSON recipe of test steps on it and cuts the
power again.  A serial console and MQTT can interfere at any time.

This directory models the parts of the firmware in which an order of events,
a failure halfway or a value that is out of date decides whether a board is
judged correctly, and whether it is powered when it must not be.

    tlc -workers 4 -config DutDetect.cfg DutDetect.tla      # one run
    tlapm RecipeEngineProofs.tla                            # one set of proofs

`PROJECT.json` lists the runs with their modules, the code lines that each
definition stands for, and for each property a mutated definition that breaks
it.  Line numbers in comments are lines of `src/src/` unless a path is given.

## 1. The system

### Components

| Component | Code | State it keeps | Operations | Modelled in |
|---|---|---|---|---|
| Recipe engine | `recipe_engine.c` | locals of one run and its result | `recipe_engine_run` | RecipeEngine, RecipeVerdict |
| DUT detection | `dut_detect.c` | `s_running`, `s_task_handle`, published presence, cooldown, autostart flag | start, stop, wait, the task, idle hooks, `dut ...` | DutDetect; its sample also in TieScan |
| Pre-test gate | `pre_test_gate.c` | none beyond its task | power up, measure, verdict | DutDetect, TestCycle, Vdac |
| Recipe task, watchdog | `recipe_task.c` | the static worker stack, two tasks | spawn, run, report, watch | TestCycle; its loading of the recipe in Persistence |
| VDUT regulators | `cmd_vdac.c` | enabled, configured, duty per channel; the calibration line | duty, voltage, enable, off, characterise | Vdac |
| Selftest, check buffer | `cmd_selftest.c` | `s_pass`, `s_total`, `s_checks` | selftests, diagnostics, verdict, publication | Selftest |
| DUT UART | `cmd_selftest.c`, `g3_primitives.c`, `dut_identify.c` | `s_uart_open`, the driver, `s_pfw_version`, `s_ltc2498_enabled` | open, close, `dut_cmd`, the DUT steps, branch and button test, `dut raw` | DutUart |
| Snapshots | `g3_primitives.c` | two tables of eight named baselines | snapshot, compare | Snapshots, TieScan |
| TIE mux and converter | `g3_primitives.c`, `cmd_selftest.c`, `cmd_tie.c`, `dut_detect.c` | select lines, the ADC128's mode and result registers | mux read, scans, short test, heartbeat, temperature, `tie read`, detection sample | TieScan |
| Crash log | `crash_log.c` | a ring in NVS, head, count, boots | init, append, dump, clear | CrashLog, Boot |
| OTA health check, start-up | `main.cpp` | `wifi_ok`, `mqtt_ok`, a deadline; the slot states of the ESP-IDF | validate or roll back; `app_main` | OtaHealth, Boot; mounting and loading in Persistence |
| Recipe store | `recipe_json.c` | active recipe id and version (NVS), files | store, select, delete, load, `recipe run` | RecipeStore, Persistence |
| Configuration, calibration | `tc_config.c`, `tc_cal.c` | the JSON tree, `s_cal`, a profile file, an NVS blob | load, set, save, reset | Settings, Persistence; the VDUT line's measurement in Vdac |
| Storage | `storage_spiffs.c` | one directory of files | mount, size, read, write, delete | Storage, Persistence |
| State machine, MQTT, OTA, SWD | `lib/common`, a submodule whose sources are not in the repository | `tc_sm_state` | `tc_sm_...` | external, see section 5 |
| Branch hardware | `app/Hardware.cpp` | selected branch | select, deselect | not modelled: not built into the firmware (`src/CMakeLists.txt` takes the files directly in its directory) |
| HAL, mocks, scripts, cJSON | `hal/`, `test/`, `scripts/`, `vendor/` | | | not modelled: I/O, doubles, tools, third party |

### How they interact

    insertion -> DutDetect --tc_sm_cmd_start--> state machine
    state machine --selftest_run_sm--> Selftest --tc_sm_selftest_done--> state machine
    state machine --pre_gate_task--> gate --tc_sm_pre_gate_done--> state machine
    state machine --tc_sm_spawn_recipe_task--> recipe task + watchdog
    recipe task --recipe_engine_run--> primitives --st_record--> check buffer
    recipe task --tc_sm_recipe_done--> state machine --tc_sm_on_test_end--> dut_power_cut

    reset --app_main--> crash log, mount, configuration, calibration, tasks, health check
    recipe task, recipe run --recipe_json_load_nvs--> storage <--recipe ...-- console
    primitives --tc_config_..., tc_cal_...--> configuration, calibration <--config, cal-- console

What the components share they share without a lock, single I2C transfers
apart: the U8 mux (detection, gate, `power_check`), the TIE's select lines and
the mode of its converter (detection, recipe, console), the two LEDC channels of
the regulators, the check buffer and its counters, the UART to the DUT, the
worker stack, the configuration tree and the live calibration.  So the hard
behaviours are

* interleavings: two detection tasks, a console command during a test, a recipe
  task that outlives its aborted test, a configuration that is reloaded while a
  test reads it;
* values that are out of date when used: the cached presence, a register that
  still holds the conversion of an earlier channel, the firmware version of the
  previous board, a baseline of an earlier recipe, the counters of an earlier
  selftest, the links that the health check has seen;
* failures halfway: a gate without calibration, a recovery branch that fails, a
  scan without an answer, a full disk, a power failure between two writes;
* timeouts and late answers: `dut_detect_wait_stopped`, `dut_cmd`, the trial of a
  new image;
* limits: the 128 checks of the buffer, the eight baselines, the ring of eight
  crash records.

`PROJECT.json` lists these hazards at their lines.

## 2. The modules

Each component has one module; `MCxxx` modules only give its constants values
that a `.cfg` file cannot express, and `xxxProofs` hold its theorems.

**Scenarios.**  Much of what must hold does so only while nobody interferes in
some particular way; what the interference breaks is a limit of the code that a
reader should know.  So most modules have a constant `Scenarios`: a set of sets
of disturbances.  A behaviour picks one of them at the start (`scenario`) and
keeps it.  A disturbance is an alternative that the code leaves open (a DUT
inserted at any time, a console command during a test, an answer that comes
late).  A property says in which scenarios it holds, and its comment says which
disturbance breaks it, and how.  The properties without a condition hold in all
scenarios.  In Snapshots and TieScan they are `TieScenarios` and `tieScenario`, so that
SelftestProofs can extend Selftest and TieScan.  To see one of the limits, drop the condition and run TLC.

### RecipeEngine, RecipeVerdict

`RecipeEngine` is one call of `recipe_engine_run`, split at the places where a
primitive runs: `SkipStep` and `BeginStep` are the gates at the top of the loop,
`RunPrimitive` a primitive with everything it adds to the check buffer,
`JudgeAttempt` the evaluation, `RunRecovery`, `RecoveryUnknown`,
`JudgeRecovery` and `RecoveryDone` are `run_recovery_branch`, the `Record...`
actions the criticality rules and the timeout at the bottom of the loop,
`Finish` the final verdict.  A primitive is an *effect*: so many checks, these of
them failed; so many reports, so many of them good.  The two are independent: a
primitive of `g3_primitives.c` records and does not report, one of
`cmd_selftest.c` does both for most checks, and `run_i2c` may report a failed
initialisation beside four passed records.  The buffer has a capacity, and a
check that does not fit is lost, as in `st_record`.  The history variable
`attempt` keeps what the last attempt of each step has done, computed from the
effect and the room in the buffer and not from the engine's deltas.

`RecipeVerdict` is what a caller may rely on: failures that count only make a
run worse, and the verdict is the one the worst of them asks for.
`ImplementsVerdict` shows that the engine implements it, with the worst failure
computed from the recorded results and not from the engine's flags.

### DutDetect

The detection task step by step (boot delay, look at `s_running`, take the I2C
lock, drive the mux, sample, judge, publish, start a test, sleep, exit), for any
number of tasks, since every start creates one and a task that was told to stop
ends only when it next looks; `DetectStart` and `StoreHandle` are the two halves
of `dut_detect_start` (the new task may run before its handle is stored);
`GateWaits` and `WaitTimesOut` are `dut_detect_wait_stopped`, `AssertPbA`
onwards the gate.  A reading is a Boolean.  Time occurs once: the wait runs out
only for a task that really takes longer than 2 s.

Disturbances: `boot` (a test reaches its gate within the 5 s delay before the
first sample), `restart` (the detection is started before the stopped task has
ended), `console` (`dut start`, `dut stop`), `sample` (`dut sample`).

### TestCycle

Gate, recipe task and watchdog around the state machine, with the DUT's power
(`vdut`, `pba`), the DUT itself (`seated`) and what the detection has published.
A recipe is a number of steps; a step is `power_check`, whose look at
`vdac_is_enabled`, enable, PB-A and measurement are separate actions, or one that
leaves the power alone.  `CriticalAbort`, `StepsDone` and `RecipeDone` are the
ends of a recipe, and `TaskDeleted` is the one of its task, which comes after the
state machine has been told.  Disturbances: `remove`, `stale` (a start while the published
presence is out of date), `abort`.

### Vdac

The console and the test cycle as two tasks, each a list of driver calls, one
call per step: `vdac_set_duty` with its interlock, `vdac_set_voltage` through
the calibration, `vdac_set_enable`; the sweeps of `vdac char`, `selftest vdut`
and `selftest char`, whose calls may be refused; the calibration from the
anchors at 50 % and 90 %.  The regulators have a straight characteristic in the
model, so that a wrong calibration shows as a wrong line.  Disturbances:
`overlap`, `insert`, `stale`, `sample` (the detection sample in front of a sweep
fails).

### DutUart

The console and the recipe as programs, sequences of steps.  A step sends a
command through `dut_cmd` (flush, send, read a line or time out) and judges what
it read.  The driver and `s_uart_open` are two variables, and opening and
closing the port two steps each, since the code sets them one after the other.
`branch_test` and `button_test` are composites that issue several commands and
look at each answer, or do not; the checks they record on the way are recorded
when they end.
The DUT answers, ignores or loses commands, and boards are exchanged between
programs.  Disturbances: `silent`, `cut`, `late`, `overlap`.

### Selftest

The counters and the check buffer, and the five tasks that reset, fill and read
them: console selftest, DCMD selftest, diagnostic, precheck, recipe.  A task runs
a sequence of primitives, and a primitive is a sequence of checks.  A check of
`cmd_selftest.c` is first reported and then recorded (`Report`, `Record`), or ends
its primitive with a failed report alone (`ReportOnly`); one of
`g3_primitives.c` is recorded only (`RecordUnreported`).  Every entry may find the
buffer full, so a step with several checks may straddle the last slot.  The
recipe task is here the engine's marks (`BeginPrimitive`) and its evaluation of a
step (`JudgeStep`), on the shared buffer; after a failure it goes on or stops.
What a run prints or publishes is its verdict only.  Disturbances: `overlap`,
`nomem` (no memory for the task of a precheck).

### Snapshots, TieScan

`Snapshots` is a table of named baselines: a snapshot claims a slot, scans and
fills it; a comparison looks it up.  A scan is the number of the step that made
it, so that a wrong baseline shows.  `TieScan` makes the scans: the recipe, the
console and the detection each select a channel, delay and read the converter,
which converts whatever is selected when its turn comes (`Convert`) and keeps
the result with the channel it came from.  A delay of a whole conversion round
or more does not end before every input has been converted; a shorter one may
end before or after.  Disturbances: `fail` (readings and initialisations fail),
`closed` (the UART to the DUT is closed; here the scans are those of the
LTC2498, which go through it), `busy` (the console and the detection use the mux
in a test or between two).

### Boot: CrashLog and OtaHealth

`CrashLog` is the ring with its NVS entries and their copies in RAM, one action
per NVS write.  `OtaHealth` is the task that watches a new image, round by
round, with WiFi and MQTT coming and going, and the images, the factory one and
the two OTA slots with their states.  The controller starts as it was flashed,
with the factory image only.  The task may not be created (`TaskCreated`), which
`app_main` does not notice.  `Boot` composes them through the resets: a crash or a power failure at
any time (`Fails`), an update or a rollback (`Restarts`).  Disturbances: `append`
(a reset while a record is written), `clear` (a reset while the log is emptied).

### Persistence: Storage, RecipeStore and Settings

`Storage` is the directory of files, written in two steps (`Opens`, `Closes`)
between which the power may fail; a file is the text it was written from and how
much of it is there.  `RecipeStore` is `set-b64`, `delete`, `select` and `run` of
the console and the load of the recipe task, which reads the size and the text
one after the other.  `Settings` is the configuration tree and the calibration,
which is written place by place: `cal load` passes the defaults through it, and a key
that the JSON does not have is written with its default once more.
`Persistence` composes them with the start of `app_main`, a test that reads its
limits and its calibration, and power failures.  Disturbances, each by itself:
`torn` (a file open for writing may be left cut), `full` (a write fails), `format`
(a mount fails, and formats), `nvs` (an NVS read or write fails), `reload`
(`config load` and `cal load` during a test), `collide` (a recipe with the name
"device", which is the configuration's).

## 3. The runs

| Run | Bounds | What it shows | Distinct states |
|---|---|---|---|
| RecipeEngine | every pair of ten kinds of step, two triples, branches of 0 to 2 attempts; buffer of 3; six effects | a PASS hides no failure that the engine can see (`PassSound`); a critical failure cuts the power; production firmware is not programmed after a failure; an abort is final; the failed step is the cause; the engine implements `RecipeVerdict`; every run ends | 400 k |
| DutDetect | 2 tasks, debounce 2, one `dut start` or `dut stop`; undisturbed, `boot` with `sample`, `console` | the gate has the mux to itself (`HandOverIsClean`, `PbAHeld`); presence is debounced; one automatic start per insertion; a stopped detection ends | 1.45 M |
| TestCycle | 3 steps; with `remove`, and with everything | the DUT has power only in gate and test; the worker stack has one user; every test ends | 8.8 k |
| Vdac | two target voltages, two duties, sweeps of up to four points; `sample` alone, with `overlap`, and `insert` with `stale` | a DUT that has been seen is never overdriven; a calibration is the measured line | 2.0 M |
| DutUart | 2 boards, 3 programs, the UART steps of `g3-mb-v2` and `g3-cn7`, branch and button test | a bad session does not poison the next; where one task sends, an OK answers its own command and the cached version is the board's; between programs that leave test mode the port is closed | 833 k |
| Selftest | buffer of 3, 2 selftests, recipes of up to four primitives that overfill it, reported and only recorded; one after another with `nomem`, and `overlap` | a verdict is of the run's own reports; a step fails exactly for a failure of its own that the engine can see; a precheck answers | 113 k |
| Boot | ring of 3, 5 unwanted resets, 2 updates of the factory image, 2 rounds until the deadline; undisturbed, `append`, `clear` | the log shows the last records in order, and a reset while writing spoils at most the oldest; an image that is validated was up; a good image is not given up; every trial ends whose check was created | 729 k |
| Persistence | one recipe and "device", texts of two lengths, 2 channels, 3 commands, 2 power failures; undisturbed and each disturbance but `reload` | a recipe that runs is whole and one that was uploaded; a saved configuration survives; the profile describes the stored calibration; a test uses what is stored | 7.5 M |
| TieScan | 3 channels, 3 names in 3 slots, 3 or 6 snapshots, a heartbeat of 5 samples with an edge every 2; undisturbed, `fail`, `fail` with `closed`, `busy` | a comparison finds its latest baseline, never another name's; a settled reading is of its channel; the check of a live heartbeat does not fail | 3.9 M |

Why these bounds are enough.  The engine's rules look at the current step, the
flag for earlier failures and the attempts, so that two steps (three where
something must happen in between) reach every combination, and a buffer of 3 is
full after two or three attempts.  Two detection tasks are as many as can exist
before the first of them has looked at `s_running`, and a debounce of 2 has one
reading that must not suffice.  Three recipe steps let one `power_check` come
before and after any other step.  Three names in three slots and six snapshots are
the fewest in which a failed scan makes a name own two slots and another none.  A
ring of three wraps with the fourth crash, which the fifth reset may interrupt on
the full ring, and two updates put both slots on trial, or one of them twice, over
an image that failed its own.  Two texts of different
length are what it takes for a size to be out of date, three commands set, save
and load, and two power failures interrupt a command and the boot that mends it.
Three channels are the probed, the beating and the driven one; five samples see
two edges, as the 25 of the code do of a beat of 5 to 10.  Three programs are a
bad one, one after it, and a board exchanged in between.

Three runs end in a counterexample; each is a disagreement between the code and
what it says of itself.

* **RemovalMissed** (`RemovalIsConfirmed`).  The watchdog confirms a removal with
  `dut_detect_present()`, which does not change in a test because the detection
  is stopped: the removal of a DUT that was seen is never confirmed.
* **SettingsReload** (`ReloadIsSafe`).  `tc_config_load` and `tc_cal_load` are "safe
  to call multiple times".  The first deletes the tree a test may hold a pointer
  into, the second writes the defaults and then the new values, place by place,
  into the calibration that a test computes a duty cycle from.
* **ShortMissed** (`BadBoardFails`).  `short_detect` waits 20 ms after it selects a
  channel, the converter takes 96 ms for a round: most channels are judged by
  the conversion of an earlier one, and a board with a short passes.  With
  110 ms, as in `mux_read`, the property holds.  The scans of the snapshots and
  of `selftest mux`, and the first sample of the heartbeat, wait 20 ms too.

### Fairness

Safety properties need none.  The liveness properties assume weak fairness of
the tasks: FreeRTOS runs a ready task eventually, every delay and every lock in
the modelled code has a timeout, and no task here has an unbounded loop at a
high priority.  Nothing is assumed of the operator, the console or the DUT:
`CmdStart`, insertions, removals, aborts and console commands are never forced.
`RecipeEngine` is one task, so that its fairness is of `Next`: each primitive
returns (they all have timeouts).  `DutDetect` assumes it of each detection task,
of the gate and of the second half of a start; `TestCycle` of the recipe task,
the watchdog and the gate; `Selftest` of each task.  `Boot` assumes it of
`app_main` and of the health check, and strong fairness of the rollback it has
decided on, which has to wait while the log is emptied in scenarios without a
reset there.

## 4. What is proved

The theorems hold for every value of the constants that satisfies the named
assumptions of the module, the bounds of TLC's runs not being among them.

**RecipeEngineProofs** (any recipes, effects and buffer capacity).  `TypeCorrect`
includes that `s_ncheck` never passes the end of the buffer.
`CriticalFailuresCutPower`, `ProductionIsGated`, `AbortIsFinal` and
`FailedStepIsTheCause` follow from the inductive invariant `SafetyInv`.  None of
them is inductive: each speaks of recorded results, while the code decides from
flags, so that the invariant has to tie the two together: steps are recorded in
order and once (`Chronology`), `any_required_fail`, `aborted` and `outcome` say
exactly what has been recorded (`Flags`), and `failed_step` is the first failure
that counts (`FirstFailure`).  `PassIsSound` adds `Attribution`, what `step_ok` and a
verdict say of the last attempt, and the lemma `DeltaSeesFailures`: the marks that
the engine takes around an execution bracket its own checks and reports, also
when the buffer fills up in the middle, so that the evaluation passes exactly an
attempt without a visible failure.  It has no hypothesis on the effects; the
failures that are not visible are in section 6.  `EngineKeepsPromise` is the safety part of the
refinement of `RecipeVerdict`.

**DutDetectProofs** (any number of tasks, any debounce, any set of scenarios).
`DetectTypeCorrect` and `PresenceIsDebounced` hold in every scenario.  The second needs that
`debounce_count` never exceeds the run of equal readings that the task has really
had (`CountsReadings`), and that a task begins with neither.  `DetectionIsGone` and
`PbAStaysHeld` are about the undisturbed scenario, with the invariant
`HandOverInv`: there is at most one task and the handle, or the start in progress,
names it (`OneTask`); it runs in IDLE only (`RunsInIdle`); a gate past its wait
has no task beside it (`GateHasMux`).  `StartsOncePerInsertion`, where there is never a
second task (`SoleTask`), needs what the published presence remembers: a DUT that
was not ABSENT since the last start still counts as present, so that no reading of
it is news (`PresentSinceStart`), and what the task is about to report is what it has
published (`ReportsPublished`).

**TestCycleProofs** (any number of steps, any set of scenarios).
`CycleTypeCorrect` in every scenario.  `PowerIsCut` and `WorkerIsExclusive` without
aborts and stale starts, from `CycleInv`: gate and recipe task exist only in
their states of the state machine (`TasksFollow`), power only beside one of them
(`PowerFollows`), and a DUT in the fixture was published before the cycle began
(`PresenceIsFresh`), without which an E-STOP would leave the recipe task running.

**VdacProofs** (any duties, voltages and points of a sweep, in any order).
`SeenDutIsSafe`, also when the console interrupts a test cycle, and `SweepsMeasure`,
where they take turns (`TakeTurns`).  A program of driver calls is safe when what it
turns on is on a safe duty already, or it sets that duty before and the
interlock's refusal ends it (`Guarded`); the other task's calls keep safe channels
safe while a DUT is in the fixture (`Watched`).  A sweep that has had one call
accepted will have none refused, and reads each point after both duties were set
(`Sweeps`, `Measured`), so that the two anchors lie on the line (`Anchored`).

**DutUartProofs** (any boards, recipes and commands).  `OwnAnswers` and `OwnVersion`
need that answers are not late and that one task sends (`OneSender`): while it waits,
the DUT has no other command, and nothing but its answer is on the line
(`InFlight`), because `dut_cmd` flushes what came before.  Where a task is between
the parts of a step is `Placed`, that tasks take turns `Turns`.  `PortIsClosed` is about
programs that leave test mode after entering it and run no fixture recipe
meanwhile, one program after another (`Orderly`): while the port is open there is an
exit ahead, and the driver and the flag differ between the two halves of an
opening or closing only (`SessionOf`).  `GoodBoardHasNoFailure` is about such programs
whose steps also come in an order that a DUT can follow (`Prepared`): power before
ENTER_TEST, test mode before what it gates, PC5 high before ADC readings in the
same power cycle, because `s_ltc2498_enabled` survives one and `adc_read` then does
not ask for it.  Its invariant `GoodInv` says, while every command was answered in
time, what holds in each part of a step (`StepGoesWell`: what is under way, what
the DUT was told, what it will answer), and that the rest of the program
can be followed from what will be prepared when the step is done (`Follows`).
A program starts with nothing prepared, whatever the one before left.

**SelftestProofs**, Selftest (any primitives, reported or only recorded, any plans
and capacity of the buffer).  `VerdictsAreOwn` and `StepsAreJudgedByOwn`, for tasks
that run one after another: at most one task is not idle (`OneTask`), the counters
are those of its run whatever was in them before (`CountsOwn`), and what has come
after the engine's marks is what the step itself has reported and what of its
records found room (`Bracketed`).  The second says exactly when a step passes, so
that it is no promise about failures the engine cannot see.

**SelftestProofs**, TieScan and Snapshots (any names and size of the table, any
channels, settling times of a round or more).  `BaselinesAreNamed`, whatever fails:
what a valid slot holds was scanned under its name (`TableInv`).
`ComparesWithLatest`, while no scan fails: the slots in use are the first ones, no two
have one name, and each holds the latest scan of its own (`Filed`); a failure leaves a gap,
and a name can then be filed twice.  `ReadingsAreOwn`: a task that waits
alone for a channel has the select lines, and what was converted since is of that
channel (`WaitsOwn`), or in its mode (`WaitsInMode`).  `BeatIsSeen` needs `HeartSeen`, what the
samples of a beat have seen, counted from the last edge: the first one may be of
another channel, and one after an edge of either level.  It assumes three samples
more than there are between two edges (`TimingAssumption`; the code takes 25 of a
beat of 5 to 10).

**BootProofs** (any two slots and factory image, deadline and number of resets).  `ValidatedWasUp` and
`GoodImageStays`: what the task has latched was up since this image started
(`LatchedWasSeen`), and only an image on trial is checked (`ChecksTrials`), without
which a rollback could hit a good one.  `ResetKeepsValid` says what a reset does
to the states of the slots.  `LogShowsLatest` and `RecentRecordsIntact`, for a ring of any
capacity: NVS shows the latest records, and all that there is room for unless a reset
came between two writes (`Stored`); while a record is being written the copies in RAM are
a record ahead (`Saving`).

**PersistenceProofs** (any recipes, texts, lengths, commands and power failures).
`RecipesRunWhole`, where no recipe is called "device", from: a write in progress
is of an upload under its own id (`WritesOwn`), and so is everything in a file, cut
or whole, and everything that was read of one (`RecipesAreOwn`); the parser refuses
a cut text.  `SavedConfigSurvives`, where a file is replaced when it is closed and a
write does not fail: the configuration's file is whole, of the last text saved
or the one being saved (`ConfigIsKept`).  `ProfileFollowsStore` and `TestsUseTheStore` come
from `SettingsInv`: what the console can be at (`Commanded`); the live
calibration is the stored one, or will be when the assignments that are left have
been made (`Settles`, `CalIsStored`); so is the profile, once it has been written
(`ProfileFollows`), and the configuration tree (`ConfigIsStored`); a test has what is
live (`TestIsCurrent`).

Only model-checked: the liveness properties (`Termination`, `DetectionStops`, `TestEnds`,
`PrecheckEnds`, `TrialEnds`; the prover has no ENABLED, and so no fairness), and the liveness of
`ImplementsVerdict`, whose safety `EngineKeepsPromise` proves.

## 5. Assumptions and abstractions

* The state machine is in a submodule that the repository does not contain.  From
  its callers, the comments and `docs/manual`: it stops the detection when it
  leaves IDLE and starts it when it is back; ends of tests call `dut_power_cut`;
  `sm abort` goes to IDLE; it cannot end the recipe task, whose handle it never
  sees; its check of the state and its E-STOP are atomic for the watchdog; an
  E-STOP ends with a power cycle.
* GPIO and LEDC calls on valid pins do not fail; the interlock of `vdac_set_duty` is
  evaluated and acted upon in one step.
* In Selftest, reporting a check and recording it are one step each, and
  increments of the counters are atomic.
* Without `late`, the DUT has answered or dropped a command before the next one is
  sent.
* An NVS entry is written whole or not at all, in the order of the calls; in
  CrashLog opening and setting succeed, in Persistence they do but in `nvs`.
* LittleFS replaces a file when it is closed: until then the old one is what a
  reader and the next boot find.  Nothing in the repository says so, and
  `fopen("w")` by itself truncates: `ConfigSurvives` rests on it.  Scenario `torn` is
  without this assumption.
* The bootloader and the OTA states are the ESP-IDF's with rollback enabled: it
  starts a new image as pending, gives up a pending one after a reset, and starts
  the factory image when neither slot has one to start.
* In Persistence the console does not touch configuration and calibration while
  a test reads them, except in `reload` (the run SettingsReload).
* Who enters test mode leaves it, and one task sends at a time: these are
  hypotheses of the properties of DutUart (`Orderly`, `OneSender`), which the recipes and
  commands of section 6 do not satisfy.  `Followed` adds that no answer is late and
  that programs prepare what their steps need; every program of the run that enters
  test mode and leaves it does.
* TieScan has no clock: a delay is only known to be longer than a conversion
  round, or not.  The four muxes share the converter and nothing else, one of
  them is modelled.  The detection's sample holds `i2c_lock` from its first access
  to its last.
* Voltages of the detection, the currents of the gate and single measurements
  against a window are one nondeterministic verdict.
* A watchdog of an earlier test, which sleeps 300 ms, has ended when the gate of the
  next one, which settles for 500 ms, passes; so has a recipe task that has called
  `tc_sm_recipe_done` and has only to delete itself.
* A recipe task that outlives an abort is replaced by the next one as if its stack
  and TCB were free.  What `xTaskCreateStatic` does to a TCB that is still in the
  scheduler's lists (recipe_task.c:187-193) is undefined and not modelled: after an
  abort, where `OneWorker` says nothing either, TestCycle shows one way it may go.

## 6. Limits found while modelling

These are seen when the condition of a property is dropped, or by reading; they
are not separate runs.

Test cycle and detection

* An abort leaves the recipe task running: its `power_check` powers the DUT after
  the cut, and the next test creates a recipe task on the same static stack
  (`PowerOnlyInTest`, `OneWorker`).
* A start before the detection has published an insertion lets the watchdog take a step
  with its outputs off for a removal (scenario `stale` of TestCycle).
* `dut start`, `dut stop` or a quick restart leave two detection tasks, one of which
  releases the mux of the other, or starts a second test on its own reading
  (`PbAHeld`, `OneStartPerInsertion`).
* `dut_detect_wait_stopped` says that it blocks until the detection task has
  exited.  It gives up after 2 s, and the first task sleeps for 5 s before it looks
  at anything: a test that reaches its gate in this boot delay may lose PB-A to
  the task's last `u8_mux_release` (scenario `boot`, `HandOverIsClean`).

Recipe engine

* recipe_engine.c:9-10 promises an abort after the last attempt of a recovery; for a
  REQUIRED step the engine only notes the failure and goes on (:267).
* Two kinds of failure the engine cannot see, and a step with one passes
  (`Visible` in RecipeEngine and in Selftest leaves them out).  A failed check that
  finds the buffer full, without a report beside it: the 125 enabled steps of
  `g3-cn7-shorting-test.json` record more than the 128 checks there is room for,
  nearly all of them by primitives of `g3_primitives.c`, which do not report.
  `test_recipe_engine.c:14` expects "Primitive calling
  selftest_check_record(false) -> step FAIL".  And a failed report of a primitive
  that has recorded anything: `run_i2c`, the CRITICAL first step of the recipes,
  records the four checks of the bus, and then reports "ADC128: init failed" or a
  failed mode switch of the temperature reading without a record
  (cmd_selftest.c:147-151, 190-194).  The step passes, and so may the recipe,
  although `docs/manual/developer.md:518-525` calls it "bus scan + rail check" and
  says that a critical failure aborts.
* `retry_after` is parsed and never read.

Regulators and measurements

* A DUT inserted after a low duty was set, or before its insertion is published,
  meets a voltage above its rating: the interlock looks only when a duty is set
  (`DutRatedVoltage`).
* A test cycle, or an insertion, in the middle of a sweep makes it save a wrong
  calibration: refused duties are ignored, readings go on
  (`CalibrationIsMeasured`).
* `tie read`, a mux scan or a detection sample in a test turns the mux under
  another task's reading; only a reading that nobody disturbed is its own
  (`ReadingIsOwn`).  A task that initialises the converter ends another's mode 0, and
  `run_temp` then takes an input voltage for a temperature.  Whether the
  temperature's restore of mode 1 succeeded is not checked (cmd_selftest.c:178-180),
  and `run_adc` straight after it publishes a temperature code as VDUT2Mon.
* A failed scan frees a slot; the next name may take it a second time, and after one
  more failure its older baseline is compared with (`CompareUsesLatest`), or the
  table is full.

DUT UART and selftest

* `run_fixture_recipe` clears `s_uart_open` "to ensure clean UART state" without
  deleting the driver: after a recipe that left the port open every
  `dut_enter_test` fails until a reboot.  `g3-cn7` and `g3-cn8` have no
  `dut_exit_test` step and leave it open (`SessionClosed`).
* `dut raw` during a recipe takes the answers of its steps (`GoodBoardPasses`); an
  answer that comes after its timeout is taken for the next command's (`OkIsOwn`,
  `VersionIsBoards`).  `s_pfw_version` keeps the version of an earlier board when
  VERSION fails, `s_ltc2498_enabled` survives a power cycle of the DUT, and
  `branch_test` does not look at the answer to `PWR_DISABLE`.
* A selftest started during another, or during a recipe, resets the counters and
  the buffer of both: a failed precheck may pass, a failed step too
  (`VerdictIsOwn`, `StepJudgedByOwn`).  Without memory for its task a precheck never
  answers (`PrecheckEnds`).  Failures to initialise an ADC are reported and not
  recorded, so that a publication does not name them.

Start-up and storage

* A reset between the two NVS writes of `crash clear` brings emptied records back
  (`RecentIntact`).
* Where `xTaskCreate` fails for the health check (main.cpp:266), nobody notices: the
  image works, stays on trial, and is given up at the next reset (`TrialEnds`
  excepts it).
* `docs/manual/maintainer.md:68-70` lets an image mark itself valid on its first
  boot; the code does so after WiFi and MQTT were seen, both but not at once.  A
  rollback reboots whether or not a test is running.
* The two storage domains share one directory: `recipe set-b64`, `delete` or `select` of
  "device" work on the configuration, and `config save` on the recipe of that name
  (`RunsWhole`, `ConfigSurvives`).  Clearing a domain, or listing it, takes in both.
* The result of `fclose` is not looked at (storage_spiffs.c:195), so that a full disk
  can lose a file that was reported as written; a mount that fails formats the
  file system (`ConfigSurvives`).
* `cal load` that fails leaves the defaults in the live calibration, and a `cal save`
  then stores them over every channel.  The date is renewed in RAM even if the
  save fails.  A power failure between the two writes of a save leaves the old
  profile until the next boot (`ProfileIsStored` holds after it).
* The key `vdut.slope` that tc_config.h:25-37 describes has no effect on the
  calibration; the stored version of the active recipe is read by nobody.
* recipe_json.c:448 says "Only one recipe runs at a time": nothing enforces it between
  `recipe run` and the state machine's test.
* A recipe of more than 140 steps is cut silently; `g3-mb-v2` has 138.

## 7. Not modelled, and the plan

Not modelled: the HAL and bus drivers (I/O without protocol), the arithmetic of
single measurements and `run_adc`'s readings, the SWD identification and the other
commands of the TIE console (they keep no state), the serialisation of recipes
and the JSON syntax, `app/Hardware.cpp` and its branches (not built into the
firmware), the mocks, the host scripts, the vendored cJSON, and the common
submodule, whose sources are not here.

Planned next: a composition of TestCycle with the engine's abstract verdict and
DutDetect's presence, replacing the frozen presence by the detection itself.
