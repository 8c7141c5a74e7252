------------------------------- MODULE DutUart -------------------------------
(***************************************************************************)
(* The command session with the DUT over UART_NUM_1: the transport         *)
(* (dut_uart_open, dut_uart_close, dut_cmd), the recipe steps that use it  *)
(* and the state they keep (src/src/cmd_selftest.c, g3_primitives.c,       *)
(* dut_identify.c), and the console commands that share the port.          *)
(*                                                                         *)
(* A program is a sequence of steps: a recipe, or what is typed on the     *)
(* console.  A command line and its answer are one message each; the       *)
(* parsers that accept any "OK" with a plausible value are one step,       *)
(* hw_rev; the commands that set something in the DUT are gpio_clear and   *)
(* the two that switch a branch.                                           *)
(***************************************************************************)
EXTENDS Naturals, Sequences

CONSTANTS
  Boards,       \* the boards that are put into the fixture
  NoVersion,    \* the empty s_pfw_version
  Scenarios,    \* what may go wrong, each a set of
                \* "silent"  the DUT may leave a command unanswered
                \* "cut"     the DUT may lose its power
                \* "late"    an answer may come after the next command was sent
                \* "overlap" the console may be used while a recipe runs
  Recipes,      \* the recipes the recipe task may run, by scenario
  Commands,     \* what may be typed on the console, by scenario
  MaxPrograms   \* bound: programs started

Threads == {"recipe", "console"}
Asking == {"hw_rev", "pin_read"}
Setting == {"gpio_clear", "pwr_enable", "pwr_disable"}
Simple == Asking \cup Setting
Composite == {"branch_test", "button_test"}
Gated == {"version", "pc5_high", "adc_read"} \cup Simple \cup Composite
Steps == Gated \cup {"enter", "exit", "raw", "read_id", "fixture", "power_on", "power_off"}

ASSUME ScenariosAssumption == Scenarios \subseteq SUBSET {"silent", "cut", "late", "overlap"}
ASSUME ProgramsAssumption ==
  \A s \in Scenarios : Recipes[s] \cup Commands[s] \subseteq Seq(Steps)
ASSUME NoVersionAssumption == NoVersion \notin Boards
ASSUME MaxProgramsAssumption == MaxPrograms \in Nat

VARIABLES
  s_uart_open,
  driver,                  \* the driver of UART_NUM_1 is installed
  rx,                      \* lines in its receive buffer
  todo,                    \* commands the DUT has not dealt with
  board, powered,          \* the DUT in the fixture, and whether it has power
  testMode, vref, branch,  \* it accepts commands; it drives PC5 high; a branch is on
  pressed,                 \* the U8 mux pulls the button's pin low
  s_pfw_version,           \* the board whose version it is
  s_ltc2498_enabled,
  phase, rest,             \* per thread: where it is, its current and later steps
  cmd, answer,             \* the command dut_cmd sent and the line it returned
  nth, fine,               \* of a composite step: its command, and no reading was bad
  verdict,                 \* what the program has recorded
  started,                 \* programs started
  missed,                  \* the DUT has not answered a command in time
  scenario                 \* the one this behaviour is of

port == <<s_uart_open, driver, rx>>
dut == <<board, powered, testMode, vref, branch>>
cached == <<s_pfw_version, s_ltc2498_enabled>>
call == <<cmd, answer>>
composite == <<pressed, nth, fine>>
ghost == <<started, missed>>
vars == <<port, todo, dut, cached, phase, rest, call, composite, verdict, ghost, scenario>>

NoLine == [ok |-> FALSE]

Init ==
  /\ s_uart_open = FALSE /\ driver = FALSE /\ rx = <<>> /\ todo = <<>>
  /\ board \in Boards /\ powered = FALSE /\ testMode = FALSE /\ vref = FALSE
  /\ branch = FALSE /\ pressed = FALSE
  /\ nth = [t \in Threads |-> 0] /\ fine = [t \in Threads |-> TRUE]
  /\ s_pfw_version = NoVersion /\ s_ltc2498_enabled = FALSE
  /\ phase = [t \in Threads |-> "idle"] /\ rest = [t \in Threads |-> <<>>]
  /\ cmd = [t \in Threads |-> "raw"] /\ answer = [t \in Threads |-> NoLine]
  /\ verdict = [t \in Threads |-> [s \in Steps |-> "none"]]
  /\ started = 0 /\ missed = FALSE /\ scenario \in Scenarios

-----------------------------------------------------------------------------
\* The step a thread is at.
At(t, s) == rest[t] # <<>> /\ Head(rest[t]) = s
Ready(t, s) == phase[t] = "ready" /\ At(t, s)

Goto(t, p) == phase' = [phase EXCEPT ![t] = p] /\ UNCHANGED rest
Finish(t) ==
  /\ phase' = [phase EXCEPT ![t] = "ready"]
  /\ rest' = [rest EXCEPT ![t] = Tail(@)]

\* selftest_check_record.
Record(t, s, ok) == verdict' = [verdict EXCEPT ![t][s] = IF ok THEN "pass" ELSE "fail"]

NoPower ==
  /\ powered' = FALSE /\ testMode' = FALSE /\ vref' = FALSE /\ branch' = FALSE
  /\ todo' = <<>>

\* recipe_engine_run with its empty check buffer, or a console command.
Start(t, program) ==
  /\ phase[t] = "idle" /\ started < MaxPrograms
  /\ "overlap" \in scenario \/ \A u \in Threads : phase[u] = "idle"
  /\ phase' = [phase EXCEPT ![t] = "ready"]
  /\ rest' = [rest EXCEPT ![t] = program]
  /\ verdict' = [verdict EXCEPT ![t] = [s \in Steps |-> "none"]]
  /\ started' = started + 1
  /\ missed' = (missed /\ \E u \in Threads : phase[u] # "idle")
  /\ UNCHANGED <<port, todo, dut, cached, call, scenario, composite>>

\* The test's end cuts the DUT's power (tc_sm_on_test_end).
End(t) ==
  /\ phase[t] = "ready" /\ rest[t] = <<>>
  /\ Goto(t, "idle")
  /\ IF t = "recipe" THEN NoPower /\ UNCHANGED board ELSE UNCHANGED <<todo, dut>>
  /\ UNCHANGED <<port, cached, call, verdict, ghost, scenario, composite>>

PowerOn(t) ==
  /\ Ready(t, "power_on")
  /\ powered' = TRUE
  /\ Finish(t)
  /\ UNCHANGED <<port, todo, board, testMode, vref, branch, cached, call,
                 verdict, ghost, scenario, composite>>

PowerOff(t) ==
  /\ Ready(t, "power_off")
  /\ NoPower
  /\ Finish(t)
  /\ UNCHANGED <<port, board, cached, call, verdict, ghost, scenario, composite>>

-----------------------------------------------------------------------------
(***************************************************************************)
(* dut_cmd.                                                                *)
(***************************************************************************)
\* Mutation: what is left in the receive buffer is not flushed.
NotFlushed == rx
\* uart_flush_input.
FlushInput == <<>>

Send(t, c) ==
  /\ "late" \in scenario \/ todo = <<>>
  /\ rx' = FlushInput
  /\ todo' = IF driver /\ powered THEN Append(todo, c) ELSE todo
  /\ cmd' = [cmd EXCEPT ![t] = c]
  /\ Goto(t, "sent")

ReadLine(t) ==
  /\ phase[t] = "sent" /\ rx # <<>>
  /\ answer' = [answer EXCEPT ![t] = Head(rx)]
  /\ rx' = Tail(rx)
  /\ Goto(t, "answered")
  /\ UNCHANGED <<s_uart_open, driver, todo, dut, cached, cmd, verdict, ghost, scenario, composite>>

Timeout(t) ==
  /\ phase[t] = "sent" /\ rx = <<>>
  /\ answer' = [answer EXCEPT ![t] = NoLine]
  /\ missed' = (missed \/ todo # <<>>)
  /\ Goto(t, "answered")
  /\ UNCHANGED <<port, todo, dut, cached, cmd, verdict, started, scenario, composite>>

dut_cmd(t) == ReadLine(t) \/ Timeout(t)

(***************************************************************************)
(* dut_uart_close, on behalf of the step the thread is at.                 *)
(***************************************************************************)
CloseIfOpen(t) == s_uart_open

\* Mutation: the driver is not deleted.
KeepsDriver == UNCHANGED <<driver, rx>>
\* uart_driver_delete, and what its buffer held.
DeleteDriver == driver' = FALSE /\ rx' = <<>>

CloseDelete(t) ==
  /\ phase[t] = "close" /\ CloseIfOpen(t)
  /\ DeleteDriver
  /\ Goto(t, "clear")
  /\ UNCHANGED <<s_uart_open, todo, dut, cached, call, verdict, ghost, scenario, composite>>

\* A failed ENTER_TEST is CRITICAL: the engine runs no further step.
AfterClose(t) ==
  /\ phase' = [phase EXCEPT ![t] = "ready"]
  /\ rest' = [rest EXCEPT ![t] = IF t = "recipe" /\ At(t, "enter") THEN <<>> ELSE Tail(@)]

MarkClosed == s_uart_open' = FALSE

CloseClear(t) ==
  /\ phase[t] = "clear"
  /\ MarkClosed
  /\ AfterClose(t)
  /\ UNCHANGED <<driver, rx, todo, dut, cached, call, verdict, ghost, scenario, composite>>

CloseNothing(t) ==
  /\ phase[t] = "close" /\ ~CloseIfOpen(t)
  /\ AfterClose(t)
  /\ UNCHANGED <<port, todo, dut, cached, call, verdict, ghost, scenario, composite>>

dut_uart_close(t) == CloseDelete(t) \/ CloseClear(t) \/ CloseNothing(t)

-----------------------------------------------------------------------------
(***************************************************************************)
(* run_dut_enter_test, with dut_uart_open.                                 *)
(***************************************************************************)
EnterAlreadyOpen(t) ==
  /\ Ready(t, "enter") /\ s_uart_open
  /\ Goto(t, "opened")
  /\ UNCHANGED <<port, todo, dut, cached, call, verdict, ghost, scenario, composite>>

EnterInstalls(t) ==
  /\ Ready(t, "enter") /\ ~s_uart_open /\ ~driver
  /\ driver' = TRUE /\ rx' = <<>>
  /\ Goto(t, "mark")
  /\ UNCHANGED <<s_uart_open, todo, dut, cached, call, verdict, ghost, scenario, composite>>

EnterMarksOpen(t) ==
  /\ phase[t] = "mark"
  /\ s_uart_open' = TRUE
  /\ Goto(t, "opened")
  /\ UNCHANGED <<driver, rx, todo, dut, cached, call, verdict, ghost, scenario, composite>>

\* uart_driver_install refuses: somebody has the driver.
EnterCannotOpen(t) ==
  /\ Ready(t, "enter") /\ ~s_uart_open /\ driver
  /\ Record(t, "enter", FALSE)
  /\ AfterClose(t)
  /\ UNCHANGED <<port, todo, dut, cached, call, ghost, scenario, composite>>

EnterSends(t) ==
  /\ phase[t] = "opened"
  /\ IF s_uart_open
     THEN Send(t, "enter") /\ UNCHANGED <<s_uart_open, driver, answer>>
     ELSE /\ answer' = [answer EXCEPT ![t] = NoLine]
          /\ Goto(t, "answered")
          /\ UNCHANGED <<port, todo, cmd>>
  /\ UNCHANGED <<dut, cached, verdict, ghost, scenario, composite>>

EnterDone(t) ==
  /\ phase[t] = "answered" /\ At(t, "enter")
  /\ Record(t, "enter", answer[t].ok)
  /\ IF answer[t].ok THEN Finish(t) ELSE Goto(t, "close")
  /\ UNCHANGED <<port, todo, dut, cached, call, ghost, scenario, composite>>

run_dut_enter_test(t) ==
  \/ EnterAlreadyOpen(t) \/ EnterInstalls(t) \/ EnterMarksOpen(t)
  \/ EnterCannotOpen(t) \/ EnterSends(t) \/ EnterDone(t)

-----------------------------------------------------------------------------
(***************************************************************************)
(* The steps that need an open port.                                       *)
(***************************************************************************)
Skipped(t) ==
  /\ ~s_uart_open
  /\ \/ \E s \in Gated : Ready(t, s) /\ Record(t, s, FALSE)
     \/ (Ready(t, "exit") \/ Ready(t, "raw")) /\ UNCHANGED verdict
  /\ Finish(t)
  /\ UNCHANGED <<port, todo, dut, cached, call, ghost, scenario, composite>>

\* adc_read first drives PC5 high unless it is on record as high.
FirstCommand(s) == IF s = "adc_read" /\ ~s_ltc2498_enabled THEN "pc5_high" ELSE s

Sends(t) ==
  /\ s_uart_open
  /\ \/ \E s \in (Gated \ Composite) \cup {"exit", "raw"} : Ready(t, s) /\ Send(t, FirstCommand(s))
     \/ phase[t] = "enabled" /\ Send(t, "adc_read")
  /\ UNCHANGED <<s_uart_open, driver, dut, cached, answer, verdict, ghost, scenario, composite>>

\* The other thread closed the port under adc_read.
AdcReadWithoutPort(t) ==
  /\ phase[t] = "enabled" /\ ~s_uart_open
  /\ Record(t, "adc_read", FALSE)
  /\ Finish(t)
  /\ UNCHANGED <<port, todo, dut, cached, call, ghost, scenario, composite>>

Answered(t, s) == phase[t] = "answered" /\ At(t, s)

\* FW_VERSION: is in the line.
HasVersion(a) == a.ok /\ a.cmd = "version"
\* Mutation: the version is parsed once and kept.
CachedVersion(a) ==
  IF HasVersion(a) /\ s_pfw_version = NoVersion THEN a.board ELSE s_pfw_version
NewVersion(a) == IF HasVersion(a) THEN a.board ELSE s_pfw_version

VersionDone(t) ==
  /\ Answered(t, "version")
  /\ Record(t, "version", answer[t].ok)
  /\ s_pfw_version' = NewVersion(answer[t])
  /\ Finish(t)
  /\ UNCHANGED <<port, todo, dut, s_ltc2498_enabled, call, ghost, scenario, composite>>

\* run_dut_gpio_clear, run_dut_pwr_enable, run_dut_pin_read and their like: one
\* command, judged by its answer.
SimpleDone(t) ==
  /\ \E s \in Simple : Answered(t, s) /\ Record(t, s, answer[t].ok)
  /\ Finish(t)
  /\ UNCHANGED <<port, todo, dut, cached, call, ghost, scenario, composite>>

\* run_dut_gpio_set PC5 HIGH.
Pc5Done(t) ==
  /\ Answered(t, "pc5_high")
  /\ Record(t, "pc5_high", answer[t].ok)
  /\ s_ltc2498_enabled' = (s_ltc2498_enabled \/ answer[t].ok)
  /\ Finish(t)
  /\ UNCHANGED <<port, todo, dut, s_pfw_version, call, ghost, scenario, composite>>

AdcReadEnabled(t) ==
  /\ Answered(t, "adc_read") /\ cmd[t] = "pc5_high"
  /\ s_ltc2498_enabled' = answer[t].ok
  /\ Goto(t, "enabled")
  /\ UNCHANGED <<port, todo, dut, s_pfw_version, call, verdict, ghost, scenario, composite>>

\* A value counts whatever the line starts with; without VREF it is 0.
HasValue(a) == a # NoLine /\ a.cmd = "adc_read" /\ a.vref

AdcReadDone(t) ==
  /\ Answered(t, "adc_read") /\ cmd[t] = "adc_read"
  /\ Record(t, "adc_read", HasValue(answer[t]))
  /\ Finish(t)
  /\ UNCHANGED <<port, todo, dut, cached, call, ghost, scenario, composite>>

\* Mutation: the port stays open when EXIT_TEST is not acknowledged.
CloseIfOk(t) == IF answer[t].ok THEN Goto(t, "close") ELSE Finish(t)
ThenClose(t) == Goto(t, "close")

ExitDone(t) ==
  /\ Answered(t, "exit")
  /\ Record(t, "exit", answer[t].ok)
  /\ ThenClose(t)
  /\ UNCHANGED <<port, todo, dut, cached, call, ghost, scenario, composite>>

\* dut raw prints its line.
RawDone(t) ==
  /\ Answered(t, "raw")
  /\ Finish(t)
  /\ UNCHANGED <<port, todo, dut, cached, call, verdict, ghost, scenario, composite>>

GatedStep(t) ==
  \/ Skipped(t) \/ Sends(t) \/ AdcReadWithoutPort(t) \/ VersionDone(t) \/ SimpleDone(t)
  \/ Pc5Done(t) \/ AdcReadEnabled(t) \/ AdcReadDone(t) \/ ExitDone(t) \/ RawDone(t)

-----------------------------------------------------------------------------
(***************************************************************************)
(* run_branch_test and run_button_test: several commands and one judgement.*)
(***************************************************************************)
Script == [branch_test |-> <<"pwr_enable", "adc_read", "adc_read", "pwr_disable">>,
           button_test |-> <<"pin_read", "pin_read", "pin_read">>]

\* The second reading of a button is made with its pin pulled low by U8.
PulledLow(s, n) == s = "button_test" /\ n = 2

\* Command n of the step; without a port dut_cmd returns at once.
Asks(t, s, n) ==
  /\ nth' = [nth EXCEPT ![t] = n]
  /\ pressed' = IF s = "button_test" THEN PulledLow(s, n) ELSE pressed
  /\ IF s_uart_open
     THEN Send(t, Script[s][n]) /\ UNCHANGED <<s_uart_open, driver, answer>>
     ELSE /\ answer' = [answer EXCEPT ![t] = NoLine]
          /\ Goto(t, "answered")
          /\ UNCHANGED <<port, todo, cmd>>

CompositeStarts(t) ==
  /\ s_uart_open
  /\ \E s \in Composite : Ready(t, s) /\ Asks(t, s, 1)
  /\ fine' = [fine EXCEPT ![t] = TRUE]
  /\ UNCHANGED <<dut, cached, verdict, ghost, scenario>>

\* A voltage and a current in their windows; the level the step expects.
Good(t, s) ==
  /\ answer[t].ok
  /\ Script[s][nth[t]] = "adc_read" => answer[t].vref /\ answer[t].branch
  /\ Script[s][nth[t]] = "pin_read" => answer[t].low = PulledLow(s, nth[t])

\* Nothing more is sent after a refused PWR_ENABLE.
GivesUp(t, s) == Script[s][nth[t]] = "pwr_enable" /\ ~answer[t].ok

CompositeGoesOn(t) ==
  \E s \in Composite :
    /\ Answered(t, s) /\ nth[t] < Len(Script[s]) /\ ~GivesUp(t, s)
    /\ fine' = [fine EXCEPT ![t] = @ /\ Good(t, s)]
    /\ Asks(t, s, nth[t] + 1)
    /\ UNCHANGED <<dut, cached, verdict, ghost, scenario>>

\* The answer to PWR_DISABLE is not looked at.
CompositeDone(t) ==
  \E s \in Composite :
    /\ Answered(t, s) /\ (nth[t] = Len(Script[s]) \/ GivesUp(t, s))
    /\ Record(t, s, ~GivesUp(t, s) /\ fine[t] /\ (s = "button_test" => Good(t, s)))
    /\ pressed' = IF s = "button_test" THEN FALSE ELSE pressed
    /\ nth' = [nth EXCEPT ![t] = 0] /\ fine' = [fine EXCEPT ![t] = TRUE]
    /\ Finish(t)
    /\ UNCHANGED <<port, todo, dut, cached, call, ghost, scenario>>

CompositeStep(t) == CompositeStarts(t) \/ CompositeGoesOn(t) \/ CompositeDone(t)

-----------------------------------------------------------------------------
(***************************************************************************)
(* The other users of the driver.                                          *)
(***************************************************************************)
\* dut_identify_uart has the driver while it listens.
ReadIdListens(t) ==
  /\ Ready(t, "read_id") /\ ~driver
  /\ driver' = TRUE /\ rx' = <<>>
  /\ Goto(t, "listen")
  /\ UNCHANGED <<s_uart_open, todo, dut, cached, call, verdict, ghost, scenario, composite>>

ReadIdDone(t) ==
  /\ phase[t] = "listen"
  /\ driver' = FALSE /\ rx' = <<>>
  /\ Record(t, "read_id", TRUE)
  /\ Finish(t)
  /\ UNCHANGED <<s_uart_open, todo, dut, cached, call, ghost, scenario, composite>>

ReadIdRefused(t) ==
  /\ Ready(t, "read_id") /\ driver
  /\ Record(t, "read_id", TRUE)
  /\ Finish(t)
  /\ UNCHANGED <<port, todo, dut, cached, call, ghost, scenario, composite>>

\* run_fixture_recipe: the DUT's steps are disabled in it.
FixtureStarts(t) ==
  /\ Ready(t, "fixture")
  /\ s_uart_open' = FALSE
  /\ Goto(t, "fixture")
  /\ UNCHANGED <<driver, rx, todo, dut, cached, call, verdict, ghost, scenario, composite>>

FixtureEnds(t) ==
  /\ phase[t] = "fixture"
  /\ Goto(t, "close")
  /\ UNCHANGED <<port, todo, dut, cached, call, verdict, ghost, scenario, composite>>

OtherUser(t) ==
  \/ ReadIdListens(t) \/ ReadIdDone(t) \/ ReadIdRefused(t)
  \/ FixtureStarts(t) \/ FixtureEnds(t)

-----------------------------------------------------------------------------
(***************************************************************************)
(* The DUT and its operator.                                               *)
(***************************************************************************)
Answers(c) ==
  /\ testMode' = (c # "exit")
  /\ vref' = (vref \/ c = "pc5_high")
  /\ branch' = (IF c \in {"pwr_enable", "pwr_disable"} THEN c = "pwr_enable" ELSE branch)
  /\ rx' = IF driver
           THEN Append(rx, [cmd |-> c, board |-> board, ok |-> TRUE, vref |-> vref,
                            branch |-> branch, low |-> pressed])
           ELSE rx

DutAnswers ==
  /\ todo # <<>> /\ (testMode \/ Head(todo) = "enter")
  /\ Answers(Head(todo))
  /\ todo' = Tail(todo)
  /\ UNCHANGED <<s_uart_open, driver, board, powered, cached, phase, rest, call,
                 verdict, ghost, scenario, composite>>

DutIgnores ==
  /\ todo # <<>> /\ ~testMode /\ Head(todo) # "enter"
  /\ todo' = Tail(todo)
  /\ UNCHANGED <<port, dut, cached, phase, rest, call, verdict, ghost, scenario, composite>>

DutIsSilent ==
  /\ "silent" \in scenario /\ todo # <<>>
  /\ todo' = Tail(todo) /\ missed' = TRUE
  /\ UNCHANGED <<port, dut, cached, phase, rest, call, verdict, started, scenario, composite>>

PowerIsCut ==
  /\ "cut" \in scenario /\ powered
  /\ NoPower /\ missed' = TRUE
  /\ UNCHANGED <<port, board, cached, phase, rest, call, verdict, started, scenario, composite>>

SeatBoard(b) ==
  /\ b # board /\ ~powered /\ started < MaxPrograms
  /\ \A t \in Threads : phase[t] = "idle"
  /\ board' = b
  /\ UNCHANGED <<port, todo, powered, testMode, vref, branch, cached, phase,
                 rest, call, verdict, ghost, scenario, composite>>

Dut == DutAnswers \/ DutIgnores \/ DutIsSilent \/ PowerIsCut

Next ==
  \/ \E r \in Recipes[scenario] : Start("recipe", r)
  \/ \E c \in Commands[scenario] : Start("console", c)
  \/ \E t \in Threads :
       \/ End(t) \/ PowerOn(t) \/ PowerOff(t)
       \/ dut_cmd(t) \/ dut_uart_close(t) \/ run_dut_enter_test(t)
       \/ GatedStep(t) \/ CompositeStep(t) \/ OtherUser(t)
  \/ Dut
  \/ \E b \in Boards : SeatBoard(b)

Spec == Init /\ [][Next]_vars

-----------------------------------------------------------------------------
(***************************************************************************)
(* Properties.                                                             *)
(***************************************************************************)
Idle == \A t \in Threads : phase[t] = "idle"

\* What enters test mode leaves it later, and runs no fixture recipe meanwhile.
Leaves(program) ==
  \A i \in DOMAIN program : program[i] = "enter" =>
    /\ \E j \in DOMAIN program : i < j /\ program[j] = "exit"
    /\ \A j \in DOMAIN program : program[j] # "fixture"
\* One program after another, and every one of them leaves test mode.
Orderly ==
  "overlap" \notin scenario /\ \A p \in Recipes[scenario] \cup Commands[scenario] : Leaves(p)

\* The steps that send something, and no two tasks at them.
Sending == Gated \cup {"enter", "exit", "raw"}
OneSender ==
  "overlap" \notin scenario \/ \A c \in Commands[scenario] : \A i \in DOMAIN c : c[i] \notin Sending

\* What other steps need, which steps those are, and what undoes it: ENTER_TEST
\* needs power, other commands test mode, the DUT's converter a high PC5.
Preparing == {"power_on", "enter", "pc5_high"}
NeededBy(s) ==
  CASE s = "power_on" -> {"enter"}
    [] s = "enter" -> Gated \cup {"exit"}
    [] s = "pc5_high" -> {"adc_read", "branch_test"}
UndoneBy(s) == IF s = "enter" THEN {"exit", "power_off"} ELSE {"power_off"}
Prepared(program) ==
  \A s \in Preparing, i \in DOMAIN program : program[i] \in NeededBy(s) =>
    \E j \in DOMAIN program :
      /\ j < i /\ program[j] = s
      /\ \A k \in DOMAIN program : j < k /\ k < i => program[k] \notin UndoneBy(s)
\* Orderly programs whose steps come in an order that a DUT can follow.
Followed ==
  /\ Orderly /\ "late" \notin scenario
  /\ \A p \in Recipes[scenario] \cup Commands[scenario] : Prepared(p)

(***************************************************************************)
(* dut_cmd and dut_uart_open: a program whose DUT answers every command in *)
(* time has no failed step, whatever went wrong in the programs before it, *)
(* if its steps come in an order that the DUT can follow.                  *)
(***************************************************************************)
GoodBoardPasses ==
  Followed => \A t \in Threads :
    phase[t] # "idle" /\ ~missed => \A s \in Steps : verdict[t][s] # "fail"

(***************************************************************************)
(* The "OK" a step takes is the answer to the step's own command, from the *)
(* board in the fixture, never what is left of an earlier command          *)
(* (uart_flush_input in dut_cmd); dut_cmd knows no answer from another, so *)
(* a late one breaks this, and so does a second task that sends.           *)
(***************************************************************************)
OkIsOwn ==
  "late" \notin scenario /\ OneSender => \A t \in Threads :
    phase[t] = "answered" /\ answer[t].ok => answer[t].cmd = cmd[t] /\ answer[t].board = board

(***************************************************************************)
(* A program that recorded dut_version as passed has cached the version of *)
(* the board in the fixture (selftest_get_pfw_version), whatever is typed  *)
(* on the console meanwhile that sends nothing itself.                     *)
(***************************************************************************)
VersionIsBoards ==
  "late" \notin scenario /\ OneSender => \A t \in Threads :
    phase[t] # "idle" /\ verdict[t]["version"] = "pass" => s_pfw_version = board

(***************************************************************************)
(* cmd_selftest.c:701-702, "Driver is opened once per recipe run (in       *)
(* run_dut_enter_test) and closed in run_dut_exit_test": between programs  *)
(* the port is closed and the driver gone.                                 *)
(***************************************************************************)
SessionClosed == Orderly /\ Idle => ~s_uart_open /\ ~driver
=============================================================================
