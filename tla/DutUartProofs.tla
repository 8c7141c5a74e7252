--------------------------- MODULE DutUartProofs ----------------------------
(***************************************************************************)
(* Proofs about DutUart, for any boards, recipes and commands: a step      *)
(* takes no other answer than its own, a version is never another board's, *)
(* between programs that leave test mode the port is closed, and a board   *)
(* that answers in time passes.                                            *)
(***************************************************************************)
EXTENDS DutUart, SequenceTheorems, TLAPS

(***************************************************************************)
(* The inductive invariants.                                               *)
(***************************************************************************)
Phases == {"idle", "ready", "sent", "answered", "close", "clear", "mark", "opened", "enabled",
           "listen", "fixture"}
Lines == [cmd : Steps, board : Boards, ok : {TRUE}, vref : BOOLEAN, branch : BOOLEAN, low : BOOLEAN]

TypeOK ==
  /\ s_uart_open \in BOOLEAN /\ driver \in BOOLEAN
  /\ rx \in Seq(Lines) /\ todo \in Seq(Steps)
  /\ board \in Boards /\ powered \in BOOLEAN /\ testMode \in BOOLEAN
  /\ vref \in BOOLEAN /\ branch \in BOOLEAN /\ pressed \in BOOLEAN
  /\ phase \in [Threads -> Phases] /\ rest \in [Threads -> Seq(Steps)]
  /\ cmd \in [Threads -> Steps] /\ answer \in [Threads -> Lines \cup {NoLine}]
  /\ nth \in [Threads -> Nat] /\ fine \in [Threads -> BOOLEAN]
  /\ verdict \in [Threads -> [Steps -> {"none", "pass", "fail"}]]
  /\ scenario \in Scenarios

\* Where a task is between the parts of a step, and the command it has sent.
Placed ==
  \A t \in Threads :
    /\ phase[t] \in {"mark", "opened"} => At(t, "enter")
    /\ phase[t] = "enabled" => At(t, "adc_read")
    /\ phase[t] \notin {"idle", "ready"} => rest[t] # <<>>
    /\ phase[t] \in {"sent", "answered"} => Head(rest[t]) \in Sending
    /\ phase[t] \in {"sent", "answered"} /\ At(t, "version") => cmd[t] = "version"

\* No two tasks have sent a command.
Turns ==
  /\ "overlap" \notin scenario =>
       \A t, u \in Threads : phase[t] # "idle" /\ phase[u] # "idle" => t = u
  /\ "overlap" \in scenario /\ OneSender =>
       \A i \in 1..Len(rest["console"]) : rest["console"][i] \notin Sending

\* While a task waits, the DUT has its command only, and has answered no other.
InFlight ==
  \A t \in Threads : phase[t] = "sent" =>
    /\ \A i \in 1..Len(todo) : todo[i] = cmd[t]
    /\ \A i \in 1..Len(rx) : rx[i].cmd = cmd[t] /\ rx[i].board = board

AnswerInv == Placed /\ Turns /\ ("late" \notin scenario /\ OneSender => InFlight /\ OkIsOwn)

\* The driver and the flag, from phase to phase, and what closes them.
Ahead(p, s) == \E i \in 1..Len(p) : p[i] = s
Leaving(p) ==
  \A i \in 1..Len(p) : p[i] = "enter" =>
    /\ \E j \in 1..Len(p) : i < j /\ p[j] = "exit"
    /\ ~Ahead(p, "fixture")

SessionOf(t) ==
  /\ Leaving(rest[t])
  /\ phase[t] = "mark" => ~s_uart_open /\ driver
  /\ phase[t] = "clear" => s_uart_open /\ ~driver
  /\ phase[t] = "listen" => ~s_uart_open /\ driver
  /\ phase[t] \notin {"mark", "clear", "listen"} => s_uart_open = driver
  /\ s_uart_open /\ phase[t] \notin {"close", "clear"} =>
       Ahead(rest[t], "exit") /\ ~Ahead(rest[t], "fixture")

SessionInv ==
  Orderly => SessionClosed /\ \A t \in Threads : phase[t] # "idle" => SessionOf(t)

-----------------------------------------------------------------------------
(***************************************************************************)
(* What a step does to the commands and answers under way.                 *)
(***************************************************************************)
\* A task sends a command,
Sent(t, c) ==
  /\ phase[t] # "idle" /\ rest[t] # <<>> /\ Head(rest[t]) \in Sending
  /\ Head(rest[t]) = "version" => c = "version"
  /\ phase' = [phase EXCEPT ![t] = "sent"] /\ cmd' = [cmd EXCEPT ![t] = c]
  /\ "late" \in scenario \/ todo = <<>>
  /\ rx' = <<>> /\ todo' \in {todo, Append(todo, c)}
  /\ UNCHANGED <<rest, answer, board, scenario>>

\* or finds the port closed,
NotSent(t) ==
  /\ phase[t] # "idle" /\ rest[t] # <<>> /\ Head(rest[t]) \in Sending \ {"version"}
  /\ phase' = [phase EXCEPT ![t] = "answered"] /\ answer' = [answer EXCEPT ![t] = NoLine]
  /\ UNCHANGED <<rx, todo, cmd, rest, board, scenario>>

\* or gets on without either; what was under way may be lost.
Moved(t, p, r) ==
  /\ phase[t] # "idle"
  /\ phase' = [phase EXCEPT ![t] = p] /\ rest' = [rest EXCEPT ![t] = r]
  /\ \/ r = rest[t]
     \/ r = Tail(rest[t]) /\ rest[t] # <<>> /\ p \in {"idle", "ready"}
     \/ r = <<>> /\ p \in {"idle", "ready"}
  /\ p \notin {"idle", "ready"} => rest[t] # <<>>
  /\ p \in {"mark", "opened"} => At(t, "enter")
  /\ p = "enabled" => At(t, "adc_read")
  /\ rx' \in {rx, <<>>} /\ todo' \in {todo, <<>>}
  /\ UNCHANGED <<cmd, answer, board, scenario>>
Moves(t) == \E p \in Phases \ {"sent", "answered"}, r \in Seq(Steps) : Moved(t, p, r)

\* The DUT drops what it was asked.
Dropped ==
  /\ todo' \in {todo, <<>>} \/ (todo # <<>> /\ todo' = Tail(todo))
  /\ UNCHANGED <<rx, phase, rest, cmd, answer, board, scenario>>

LEMMA Programs ==
  ASSUME TypeOK, NEW t \in Threads
  PROVE  /\ rest[t] \in Seq(Steps) /\ <<>> \in Seq(Steps)
         /\ rest[t] # <<>> => Tail(rest[t]) \in Seq(Steps) /\ Head(rest[t]) \in Steps
  BY HeadTailProperties DEF TypeOK

LEMMA MovesFinish ==
  ASSUME TypeOK, NEW t \in Threads, phase[t] # "idle", rest[t] # <<>>, Finish(t),
         rx' \in {rx, <<>>}, todo' \in {todo, <<>>}, UNCHANGED <<cmd, answer, board, scenario>>
  PROVE  Moves(t)
<1>1. Tail(rest[t]) \in Seq(Steps) BY Programs
<1>2. Moved(t, "ready", Tail(rest[t])) BY DEF Finish, Moved
<1> QED BY <1>1, <1>2 DEF Moves, Phases

LEMMA MovesGoto ==
  ASSUME TypeOK, NEW t \in Threads, NEW p \in Phases \ {"sent", "answered"}, phase[t] # "idle",
         Goto(t, p), rest[t] # <<>> \/ p = "idle",
         p \in {"mark", "opened"} => At(t, "enter"), p = "enabled" => At(t, "adc_read"),
         rx' \in {rx, <<>>}, todo' \in {todo, <<>>}, UNCHANGED <<cmd, answer, board, scenario>>
  PROVE  Moves(t)
<1>1. rest[t] \in Seq(Steps) /\ rest' = [rest EXCEPT ![t] = rest[t]]
  BY DEF TypeOK, Goto
<1>2. Moved(t, p, rest[t]) BY <1>1 DEF Goto, Moved
<1> QED BY <1>1, <1>2 DEF Moves

LEMMA MovesAfterClose ==
  ASSUME TypeOK, NEW t \in Threads, phase[t] # "idle", rest[t] # <<>>, AfterClose(t),
         rx' \in {rx, <<>>}, todo' \in {todo, <<>>}, UNCHANGED <<cmd, answer, board, scenario>>
  PROVE  Moves(t)
<1>1. Tail(rest[t]) \in Seq(Steps) /\ <<>> \in Seq(Steps) BY Programs
<1>2. Moved(t, "ready", Tail(rest[t])) \/ Moved(t, "ready", <<>>)
  BY DEF AfterClose, Moved
<1> QED BY <1>1, <1>2 DEF Moves, Phases

LEMMA SimpleSends ==
  ASSUME NEW t, NEW s \in Sending, At(t, s), NEW c, Send(t, c), phase[t] # "idle",
         s = "version" => c = "version", UNCHANGED <<answer, board, scenario>>
  PROVE  Sent(t, c)
  BY DEF At, Send, Goto, FlushInput, Sent

LEMMA FirstCommandIsStep ==
  ASSUME NEW s \in (Gated \ Composite) \cup {"exit", "raw"}
  PROVE  /\ s \in Sending /\ FirstCommand(s) \in Steps
         /\ s = "version" => FirstCommand(s) = "version"
  BY DEF Sending, FirstCommand, Steps, Gated, Composite, Simple, Asking, Setting

LEMMA ScriptLengths ==
  ASSUME NEW s \in Composite
  PROVE  Len(Script[s]) \in Nat \ {0}
<1>1. CASE s = "branch_test"
  <2>1. Script[s] = <<"pwr_enable", "adc_read", "adc_read", "pwr_disable">> BY <1>1 DEF Script
  <2> QED BY <2>1
<1>2. CASE s = "button_test"
  <2>1. Script[s] = <<"pin_read", "pin_read", "pin_read">> BY <1>2 DEF Script
  <2> QED BY <2>1
<1> QED BY <1>1, <1>2 DEF Composite

LEMMA ScriptSteps ==
  ASSUME NEW s \in Composite, NEW n \in 1..Len(Script[s])
  PROVE  /\ Script[s][n] \in Steps /\ s \in Sending /\ s # "version"
<1>1. s = "branch_test" \/ s = "button_test" BY DEF Composite
<1>2. s \in Sending /\ s # "version" BY <1>1 DEF Sending, Gated, Composite
<1>3. CASE s = "branch_test"
  <2>1. Script[s] = <<"pwr_enable", "adc_read", "adc_read", "pwr_disable">> BY <1>3 DEF Script
  <2>2. n \in 1..4 /\ Len(Script[s]) = 4 BY <2>1
  <2>3. Script[s][n] \in {"pwr_enable", "adc_read", "pwr_disable"} BY <2>1, <2>2
  <2> QED BY <1>2, <2>2, <2>3 DEF Steps, Gated, Simple, Setting
<1>4. CASE s = "button_test"
  <2>1. Script[s] = <<"pin_read", "pin_read", "pin_read">> BY <1>4 DEF Script
  <2>2. n \in 1..3 /\ Len(Script[s]) = 3 BY <2>1
  <2>3. Script[s][n] = "pin_read" BY <2>1, <2>2
  <2> QED BY <1>2, <2>2, <2>3 DEF Steps, Gated, Simple, Asking
<1> QED BY <1>1, <1>3, <1>4

\* The steps of a task.
TaskStep(t) ==
  \/ End(t) \/ PowerOn(t) \/ PowerOff(t)
  \/ dut_cmd(t) \/ dut_uart_close(t) \/ run_dut_enter_test(t)
  \/ GatedStep(t) \/ CompositeStep(t) \/ OtherUser(t)

LEMMA TaskCases ==
  ASSUME TypeOK, Placed, NEW t \in Threads, TaskStep(t)
  PROVE  (\E c \in Steps : Sent(t, c)) \/ NotSent(t) \/ ReadLine(t) \/ Timeout(t) \/ Moves(t)
<1>1. CASE PowerOn(t)
  <2>1. phase[t] # "idle" /\ rest[t] # <<>> BY <1>1 DEF PowerOn, Ready, At, Placed
  <2> QED BY <1>1, <2>1, MovesFinish DEF PowerOn, Ready, At, port, dut, cached, call, composite, ghost
<1>2. CASE PowerOff(t)
  <2>1. phase[t] # "idle" /\ rest[t] # <<>> BY <1>2 DEF PowerOff, Ready, At, NoPower, Placed
  <2> QED BY <1>2, <2>1, MovesFinish DEF PowerOff, Ready, At, NoPower, port, dut, cached, call, composite, ghost
<1>3. CASE Skipped(t)
  <2>1. phase[t] # "idle" /\ rest[t] # <<>> BY <1>3 DEF Skipped, Ready, At, Placed
  <2> QED BY <1>3, <2>1, MovesFinish DEF Skipped, Ready, At, port, dut, cached, call, composite, ghost
<1>4. CASE AdcReadWithoutPort(t)
  <2>1. phase[t] # "idle" /\ rest[t] # <<>> BY <1>4 DEF AdcReadWithoutPort, Placed
  <2> QED BY <1>4, <2>1, MovesFinish DEF AdcReadWithoutPort, port, dut, cached, call, composite, ghost
<1>5. CASE VersionDone(t)
  <2>1. phase[t] # "idle" /\ rest[t] # <<>> BY <1>5 DEF VersionDone, Answered, At, Placed
  <2> QED BY <1>5, <2>1, MovesFinish DEF VersionDone, Answered, At, port, dut, cached, call, composite, ghost
<1>6. CASE SimpleDone(t)
  <2>1. phase[t] # "idle" /\ rest[t] # <<>> BY <1>6 DEF SimpleDone, Answered, At, Placed
  <2> QED BY <1>6, <2>1, MovesFinish DEF SimpleDone, Answered, At, port, dut, cached, call, composite, ghost
<1>7. CASE Pc5Done(t)
  <2>1. phase[t] # "idle" /\ rest[t] # <<>> BY <1>7 DEF Pc5Done, Answered, At, Placed
  <2> QED BY <1>7, <2>1, MovesFinish DEF Pc5Done, Answered, At, port, dut, cached, call, composite, ghost
<1>8. CASE AdcReadDone(t)
  <2>1. phase[t] # "idle" /\ rest[t] # <<>> BY <1>8 DEF AdcReadDone, Answered, At, Placed
  <2> QED BY <1>8, <2>1, MovesFinish DEF AdcReadDone, Answered, At, port, dut, cached, call, composite, ghost
<1>9. CASE RawDone(t)
  <2>1. phase[t] # "idle" /\ rest[t] # <<>> BY <1>9 DEF RawDone, Answered, At, Placed
  <2> QED BY <1>9, <2>1, MovesFinish DEF RawDone, Answered, At, port, dut, cached, call, composite, ghost
<1>10. CASE CompositeDone(t)
  <2>1. phase[t] # "idle" /\ rest[t] # <<>> BY <1>10 DEF CompositeDone, Answered, At, Placed
  <2> QED BY <1>10, <2>1, MovesFinish DEF CompositeDone, Answered, At, port, dut, cached, call, composite, ghost
<1>11. CASE ReadIdDone(t)
  <2>1. phase[t] # "idle" /\ rest[t] # <<>> BY <1>11 DEF ReadIdDone, Placed
  <2> QED BY <1>11, <2>1, MovesFinish DEF ReadIdDone, port, dut, cached, call, composite, ghost
<1>12. CASE ReadIdRefused(t)
  <2>1. phase[t] # "idle" /\ rest[t] # <<>> BY <1>12 DEF ReadIdRefused, Ready, At, Placed
  <2> QED BY <1>12, <2>1, MovesFinish DEF ReadIdRefused, Ready, At, port, dut, cached, call, composite, ghost
<1>13. CASE EnterAlreadyOpen(t)
  <2>1. phase[t] # "idle" /\ rest[t] # <<>> /\ Goto(t, "opened")
    BY <1>13 DEF EnterAlreadyOpen, Ready, At, Placed
  <2>2. "opened" \in Phases \ {"sent", "answered"} BY DEF Phases
  <2> QED BY <1>13, <2>1, <2>2, MovesGoto DEF EnterAlreadyOpen, Ready, At, Placed, port, dut, cached, call, composite, ghost
<1>14. CASE EnterInstalls(t)
  <2>1. phase[t] # "idle" /\ rest[t] # <<>> /\ Goto(t, "mark")
    BY <1>14 DEF EnterInstalls, Ready, At, Placed
  <2>2. "mark" \in Phases \ {"sent", "answered"} BY DEF Phases
  <2> QED BY <1>14, <2>1, <2>2, MovesGoto DEF EnterInstalls, Ready, At, Placed, port, dut, cached, call, composite, ghost
<1>15. CASE EnterMarksOpen(t)
  <2>1. phase[t] # "idle" /\ rest[t] # <<>> /\ Goto(t, "opened")
    BY <1>15 DEF EnterMarksOpen, Placed
  <2>2. "opened" \in Phases \ {"sent", "answered"} BY DEF Phases
  <2> QED BY <1>15, <2>1, <2>2, MovesGoto DEF EnterMarksOpen, Placed, port, dut, cached, call, composite, ghost
<1>16. CASE CloseDelete(t)
  <2>1. phase[t] # "idle" /\ rest[t] # <<>> /\ Goto(t, "clear")
    BY <1>16 DEF CloseDelete, Placed
  <2>2. "clear" \in Phases \ {"sent", "answered"} BY DEF Phases
  <2> QED BY <1>16, <2>1, <2>2, MovesGoto DEF CloseDelete, Placed, port, dut, cached, call, composite, ghost, DeleteDriver
<1>17. CASE AdcReadEnabled(t)
  <2>1. phase[t] # "idle" /\ rest[t] # <<>> /\ Goto(t, "enabled")
    BY <1>17 DEF AdcReadEnabled, Answered, At, Placed
  <2>2. "enabled" \in Phases \ {"sent", "answered"} BY DEF Phases
  <2> QED BY <1>17, <2>1, <2>2, MovesGoto DEF AdcReadEnabled, Answered, At, Placed, port, dut, cached, call, composite, ghost
<1>18. CASE ExitDone(t)
  <2>1. phase[t] # "idle" /\ rest[t] # <<>> /\ Goto(t, "close")
    BY <1>18 DEF ExitDone, Answered, At, ThenClose, Placed
  <2>2. "close" \in Phases \ {"sent", "answered"} BY DEF Phases
  <2> QED BY <1>18, <2>1, <2>2, MovesGoto DEF ExitDone, Answered, At, ThenClose, Placed, port, dut, cached, call, composite, ghost
<1>19. CASE ReadIdListens(t)
  <2>1. phase[t] # "idle" /\ rest[t] # <<>> /\ Goto(t, "listen")
    BY <1>19 DEF ReadIdListens, Ready, At, Placed
  <2>2. "listen" \in Phases \ {"sent", "answered"} BY DEF Phases
  <2> QED BY <1>19, <2>1, <2>2, MovesGoto DEF ReadIdListens, Ready, At, Placed, port, dut, cached, call, composite, ghost
<1>20. CASE FixtureStarts(t)
  <2>1. phase[t] # "idle" /\ rest[t] # <<>> /\ Goto(t, "fixture")
    BY <1>20 DEF FixtureStarts, Ready, At, Placed
  <2>2. "fixture" \in Phases \ {"sent", "answered"} BY DEF Phases
  <2> QED BY <1>20, <2>1, <2>2, MovesGoto DEF FixtureStarts, Ready, At, Placed, port, dut, cached, call, composite, ghost
<1>21. CASE FixtureEnds(t)
  <2>1. phase[t] # "idle" /\ rest[t] # <<>> /\ Goto(t, "close")
    BY <1>21 DEF FixtureEnds, Placed
  <2>2. "close" \in Phases \ {"sent", "answered"} BY DEF Phases
  <2> QED BY <1>21, <2>1, <2>2, MovesGoto DEF FixtureEnds, Placed, port, dut, cached, call, composite, ghost
<1>22. CASE CloseClear(t)
  <2>1. phase[t] # "idle" /\ rest[t] # <<>> BY <1>22 DEF CloseClear, Placed
  <2> QED BY <1>22, <2>1, MovesAfterClose DEF CloseClear, port, dut, cached, call, composite, ghost
<1>23. CASE CloseNothing(t)
  <2>1. phase[t] # "idle" /\ rest[t] # <<>> BY <1>23 DEF CloseNothing, Placed
  <2> QED BY <1>23, <2>1, MovesAfterClose DEF CloseNothing, port, dut, cached, call, composite, ghost
<1>24. CASE EnterCannotOpen(t)
  <2>1. phase[t] # "idle" /\ rest[t] # <<>> BY <1>24 DEF EnterCannotOpen, Ready, At, Placed
  <2> QED BY <1>24, <2>1, MovesAfterClose DEF EnterCannotOpen, port, dut, cached, call, composite, ghost
<1>25. CASE End(t)
  <2>1. Goto(t, "idle") /\ phase[t] # "idle" BY <1>25 DEF End
  <2>2. "idle" \in Phases \ {"sent", "answered"} BY DEF Phases
  <2> QED BY <1>25, <2>1, <2>2, MovesGoto DEF End, NoPower, port, dut, call
<1>26. CASE EnterDone(t)
  <2>1. phase[t] # "idle" /\ rest[t] # <<>> BY <1>26 DEF EnterDone, At
  <2>2. "close" \in Phases \ {"sent", "answered"} BY DEF Phases
  <2>3. UNCHANGED <<rx, todo, cmd, answer, board, scenario>> BY <1>26 DEF EnterDone, port, dut, call
  <2>4. Finish(t) \/ Goto(t, "close") BY <1>26 DEF EnterDone
  <2> QED BY <2>1, <2>2, <2>3, <2>4, MovesFinish, MovesGoto
<1>27. CASE EnterSends(t)
  <2>1. phase[t] = "opened" /\ At(t, "enter") /\ "enter" \in Sending /\ "enter" \in Steps
    BY <1>27 DEF EnterSends, Placed, Sending, Steps
  <2>2. CASE s_uart_open
    <3>1. Send(t, "enter") /\ UNCHANGED <<answer, board, scenario>>
      BY <1>27, <2>2 DEF EnterSends, dut
    <3> QED BY <2>1, <3>1, SimpleSends
  <2>3. CASE ~s_uart_open
    BY <1>27, <2>1, <2>3 DEF EnterSends, NotSent, Goto, At, port, dut
  <2> QED BY <2>2, <2>3
<1>28. CASE Sends(t)
  <2>1. UNCHANGED <<answer, board, scenario>> BY <1>28 DEF Sends, dut
  <2>2. ASSUME NEW s \in (Gated \ Composite) \cup {"exit", "raw"}, Ready(t, s), Send(t, FirstCommand(s))
        PROVE  \E c \in Steps : Sent(t, c)
    BY <2>1, <2>2, FirstCommandIsStep, SimpleSends DEF Ready
  <2>3. ASSUME phase[t] = "enabled", Send(t, "adc_read") PROVE \E c \in Steps : Sent(t, c)
    <3>1. At(t, "adc_read") /\ "adc_read" \in Sending /\ "adc_read" \in Steps
      BY <2>3 DEF Placed, Sending, Steps, Gated
    <3> QED BY <2>1, <2>3, <3>1, SimpleSends
  <2> QED BY <1>28, <2>2, <2>3 DEF Sends
<1>29. CASE CompositeStarts(t)
  <2>1. PICK s \in Composite : Ready(t, s) /\ Asks(t, s, 1) BY <1>29 DEF CompositeStarts
  <2>2. Send(t, Script[s][1]) /\ UNCHANGED <<answer, board, scenario>>
    BY <1>29, <2>1 DEF CompositeStarts, Asks, dut
  <2>3. 1 \in 1..Len(Script[s])
    <3>1. Len(Script[s]) \in Nat \ {0} BY ScriptLengths
    <3> QED BY <3>1
  <2> QED BY <2>1, <2>2, <2>3, ScriptSteps, SimpleSends DEF Ready
<1>30. CASE CompositeGoesOn(t)
  <2>1. PICK s \in Composite : /\ Answered(t, s) /\ nth[t] < Len(Script[s])
                               /\ Asks(t, s, nth[t] + 1)
                               /\ UNCHANGED <<dut, scenario>>
    BY <1>30 DEF CompositeGoesOn
  <2>2. nth[t] + 1 \in 1..Len(Script[s])
    <3>1. Len(Script[s]) \in Nat BY ScriptLengths
    <3> QED BY <2>1, <3>1 DEF TypeOK
  <2>3. Script[s][nth[t] + 1] \in Steps /\ s \in Sending /\ s # "version" BY <2>2, ScriptSteps
  <2>4. CASE s_uart_open
    <3>1. Send(t, Script[s][nth[t] + 1]) /\ UNCHANGED <<answer, board, scenario>>
      BY <2>1, <2>4 DEF Asks, dut
    <3> QED BY <2>1, <2>3, <3>1, SimpleSends DEF Answered
  <2>5. CASE ~s_uart_open
    BY <2>1, <2>3, <2>5 DEF Asks, NotSent, Goto, Answered, At, port, dut
  <2> QED BY <2>4, <2>5
<1>31. CASE dut_cmd(t) BY <1>31 DEF dut_cmd
<1> QED BY <1>1, <1>2, <1>3, <1>4, <1>5, <1>6, <1>7, <1>8, <1>9, <1>10, <1>11, <1>12, <1>13,
        <1>14, <1>15, <1>16, <1>17, <1>18, <1>19, <1>20, <1>21, <1>22, <1>23, <1>24, <1>25,
        <1>26, <1>27, <1>28, <1>29, <1>30, <1>31
        DEF TaskStep, dut_uart_close, run_dut_enter_test, GatedStep, CompositeStep, OtherUser

LEMMA NextCases ==
  ASSUME TypeOK, Placed, [Next]_vars
  PROVE  \/ \E r \in Recipes[scenario] : Start("recipe", r)
         \/ \E c \in Commands[scenario] : Start("console", c)
         \/ \E t \in Threads : \/ \E c \in Steps : Sent(t, c)
                               \/ NotSent(t) \/ ReadLine(t) \/ Timeout(t) \/ Moves(t)
         \/ DutAnswers \/ Dropped
         \/ \E b \in Boards : SeatBoard(b)
<1>1. CASE Next
  <2>1. DutIgnores \/ DutIsSilent \/ PowerIsCut => Dropped
    BY DEF DutIgnores, DutIsSilent, PowerIsCut, NoPower, Dropped, port, dut, call
  <2>2. (\E t \in Threads : TaskStep(t)) \/ ~\E t \in Threads : TaskStep(t) OBVIOUS
  <2> QED BY <1>1, <2>1, TaskCases DEF Next, Dut, TaskStep
<1>2. CASE UNCHANGED vars BY <1>2 DEF vars, port, dut, call, Dropped
<1> QED BY <1>1, <1>2

(***************************************************************************)
(* Types, and the places of the tasks.                                     *)
(***************************************************************************)
LEMMA InitAnswers == Init => TypeOK /\ AnswerInv /\ VersionIsBoards
<1> SUFFICES ASSUME Init PROVE TypeOK /\ AnswerInv /\ VersionIsBoards OBVIOUS
<1>1. TypeOK
  <2>1. /\ phase \in [Threads -> Phases] /\ rest \in [Threads -> Seq(Steps)]
        /\ cmd \in [Threads -> Steps] /\ answer \in [Threads -> Lines \cup {NoLine}]
    BY DEF Init, Phases, Steps
  <2>2. /\ nth \in [Threads -> Nat] /\ verdict \in [Threads -> [Steps -> {"none", "pass", "fail"}]]
    BY DEF Init
  <2>3. rx \in Seq(Lines) /\ todo \in Seq(Steps) BY DEF Init
  <2> QED BY <2>1, <2>2, <2>3 DEF Init, TypeOK
<1>2. \A t \in Threads : phase[t] = "idle" /\ rest[t] = <<>> BY DEF Init
<1>3. Placed /\ Turns /\ InFlight /\ OkIsOwn /\ VersionIsBoards
  BY <1>2 DEF Placed, Turns, InFlight, OkIsOwn, VersionIsBoards, Threads
<1> QED BY <1>1, <1>3 DEF AnswerInv

LEMMA RecordTypes ==
  ASSUME TypeOK, NEW t \in Threads, NEW s \in Steps, NEW v \in {"pass", "fail"},
         verdict' = [verdict EXCEPT ![t][s] = v]
  PROVE  verdict' \in [Threads -> [Steps -> {"none", "pass", "fail"}]]
  BY DEF TypeOK

\* What the classes of steps do not tell.
LEMMA OtherTypes ==
  ASSUME TypeOK, [Next]_vars
  PROVE  /\ s_uart_open' \in BOOLEAN /\ driver' \in BOOLEAN
         /\ powered' \in BOOLEAN /\ testMode' \in BOOLEAN
         /\ vref' \in BOOLEAN /\ branch' \in BOOLEAN /\ pressed' \in BOOLEAN
         /\ nth' \in [Threads -> Nat] /\ fine' \in [Threads -> BOOLEAN]
         /\ verdict' \in [Threads -> [Steps -> {"none", "pass", "fail"}]]
<1> USE DEF TypeOK
<1>0. Steps = Gated \cup {"enter", "exit", "raw", "read_id", "fixture", "power_on", "power_off"}
      /\ Simple \subseteq Gated /\ Composite \subseteq Gated
      /\ "version" \in Gated /\ "pc5_high" \in Gated /\ "adc_read" \in Gated
  BY DEF Steps, Gated
<1>1. ASSUME NEW t \in Threads, run_dut_enter_test(t) \/ dut_cmd(t) \/ dut_uart_close(t)
                               \/ End(t) \/ PowerOn(t) \/ PowerOff(t) \/ OtherUser(t)
      PROVE  /\ s_uart_open' \in BOOLEAN /\ driver' \in BOOLEAN
             /\ powered' \in BOOLEAN /\ testMode' \in BOOLEAN
             /\ vref' \in BOOLEAN /\ branch' \in BOOLEAN /\ UNCHANGED <<pressed, nth, fine>>
             /\ \/ \E s \in Steps, v \in {"pass", "fail"} : verdict' = [verdict EXCEPT ![t][s] = v]
                \/ UNCHANGED verdict
  <2>1. CASE dut_cmd(t)
    BY <2>1 DEF dut_cmd, ReadLine, Timeout, port, dut, composite
  <2>2. CASE dut_uart_close(t)
    BY <2>2 DEF dut_uart_close, CloseDelete, CloseClear, CloseNothing, DeleteDriver, MarkClosed,
                port, dut, composite
  <2>3. CASE End(t) \/ PowerOn(t) \/ PowerOff(t)
    BY <2>3 DEF End, PowerOn, PowerOff, NoPower, port, dut, composite
  <2>4. CASE OtherUser(t)
    BY <1>0, <2>4 DEF OtherUser, ReadIdListens, ReadIdDone, ReadIdRefused, FixtureStarts, FixtureEnds,
                Record, port, dut, composite
  <2>5. CASE run_dut_enter_test(t)
    <3>1. CASE EnterAlreadyOpen(t) \/ EnterInstalls(t) \/ EnterMarksOpen(t) \/ EnterSends(t)
      BY <3>1 DEF EnterAlreadyOpen, EnterInstalls, EnterMarksOpen, EnterSends, Send,
                  port, dut, composite
    <3>2. CASE EnterCannotOpen(t) BY <1>0, <3>2 DEF EnterCannotOpen, Record, port, dut, composite
    <3>3. CASE EnterDone(t) BY <1>0, <3>3 DEF EnterDone, Record, port, dut, composite
    <3> QED BY <2>5, <3>1, <3>2, <3>3 DEF run_dut_enter_test
  <2> QED BY <1>1, <2>1, <2>2, <2>3, <2>4, <2>5
<1>2. ASSUME NEW t \in Threads, GatedStep(t)
      PROVE  /\ s_uart_open' \in BOOLEAN /\ driver' \in BOOLEAN
             /\ powered' \in BOOLEAN /\ testMode' \in BOOLEAN
             /\ vref' \in BOOLEAN /\ branch' \in BOOLEAN /\ UNCHANGED <<pressed, nth, fine>>
             /\ verdict' \in [Threads -> [Steps -> {"none", "pass", "fail"}]]
  <2>1. UNCHANGED <<s_uart_open, driver, powered, testMode, vref, branch, pressed, nth, fine>>
    BY <1>2 DEF GatedStep, Skipped, Sends, AdcReadWithoutPort, VersionDone, SimpleDone, Pc5Done,
                AdcReadEnabled, AdcReadDone, ExitDone, RawDone, port, dut, composite
  <2>2. \/ \E s \in Steps, v \in {"pass", "fail"} : verdict' = [verdict EXCEPT ![t][s] = v]
        \/ UNCHANGED verdict
    <3>1. CASE Skipped(t) BY <1>0, <3>1 DEF Skipped, Record
    <3>2. CASE Sends(t) BY <3>2 DEF Sends
    <3>3. CASE AdcReadEnabled(t) \/ RawDone(t) BY <3>3 DEF AdcReadEnabled, RawDone
    <3>4. CASE AdcReadWithoutPort(t) \/ AdcReadDone(t)
      BY <1>0, <3>4 DEF AdcReadWithoutPort, AdcReadDone, Record
    <3>5. CASE VersionDone(t) \/ SimpleDone(t) \/ Pc5Done(t) \/ ExitDone(t)
      BY <1>0, <3>5 DEF VersionDone, SimpleDone, Pc5Done, ExitDone, Record
    <3> QED BY <1>2, <3>1, <3>2, <3>3, <3>4, <3>5 DEF GatedStep
  <2> QED BY <2>1, <2>2, RecordTypes
<1>3. ASSUME NEW t \in Threads, CompositeStep(t)
      PROVE  /\ s_uart_open' \in BOOLEAN /\ driver' \in BOOLEAN
             /\ powered' \in BOOLEAN /\ testMode' \in BOOLEAN
             /\ vref' \in BOOLEAN /\ branch' \in BOOLEAN
             /\ pressed' \in BOOLEAN /\ nth' \in [Threads -> Nat] /\ fine' \in [Threads -> BOOLEAN]
             /\ verdict' \in [Threads -> [Steps -> {"none", "pass", "fail"}]]
  <2>1. ASSUME NEW s \in Composite, NEW n \in Nat, Asks(t, s, n)
        PROVE  /\ s_uart_open' \in BOOLEAN /\ driver' \in BOOLEAN
               /\ pressed' \in BOOLEAN /\ nth' \in [Threads -> Nat]
    BY <2>1 DEF Asks, PulledLow, port
  <2>2. CASE CompositeStarts(t) BY <2>1, <2>2 DEF CompositeStarts, dut
  <2>3. CASE CompositeGoesOn(t)
    <3>1. nth[t] + 1 \in Nat OBVIOUS
    <3> QED BY <2>1, <2>3, <3>1 DEF CompositeGoesOn, dut
  <2>4. CASE CompositeDone(t)
    <3>1. \E s \in Steps, v \in {"pass", "fail"} : verdict' = [verdict EXCEPT ![t][s] = v]
      BY <1>0, <2>4 DEF CompositeDone, Record
    <3>2. verdict' \in [Threads -> [Steps -> {"none", "pass", "fail"}]]
      BY <3>1, RecordTypes
    <3>3. pressed' \in BOOLEAN /\ nth' = [nth EXCEPT ![t] = 0]
          /\ fine' \in [Threads -> BOOLEAN] /\ UNCHANGED <<port, dut>>
      BY <2>4 DEF CompositeDone
    <3> QED BY <3>2, <3>3 DEF port, dut
  <2> QED BY <1>3, <2>2, <2>3, <2>4 DEF CompositeStep
<1>4. ASSUME NEW t \in Threads, NEW p, Start(t, p)
      PROVE  /\ UNCHANGED <<s_uart_open, driver, powered, testMode, vref, branch, pressed, nth, fine>>
             /\ verdict' \in [Threads -> [Steps -> {"none", "pass", "fail"}]]
  BY <1>4 DEF Start, port, dut, composite
<1>5. CASE Dut
  <2>1. powered' \in BOOLEAN /\ testMode' \in BOOLEAN /\ vref' \in BOOLEAN /\ branch' \in BOOLEAN
    BY <1>5 DEF Dut, DutAnswers, DutIgnores, DutIsSilent, PowerIsCut, Answers, NoPower, dut
  <2> QED BY <1>5, <2>1 DEF Dut, DutAnswers, DutIgnores, DutIsSilent, PowerIsCut, port, composite
<1>6. ASSUME NEW b \in Boards, SeatBoard(b)
      PROVE  UNCHANGED <<s_uart_open, driver, powered, testMode, vref, branch, pressed, nth, fine, verdict>>
  BY <1>6 DEF SeatBoard, port, composite
<1>7. ASSUME NEW t \in Threads, TaskStep(t)
      PROVE  /\ s_uart_open' \in BOOLEAN /\ driver' \in BOOLEAN
             /\ powered' \in BOOLEAN /\ testMode' \in BOOLEAN
             /\ vref' \in BOOLEAN /\ branch' \in BOOLEAN
             /\ pressed' \in BOOLEAN /\ nth' \in [Threads -> Nat] /\ fine' \in [Threads -> BOOLEAN]
             /\ verdict' \in [Threads -> [Steps -> {"none", "pass", "fail"}]]
  BY <1>1, <1>2, <1>3, <1>7, RecordTypes DEF TaskStep
<1>8. CASE UNCHANGED vars BY <1>8 DEF vars, port, dut, composite
<1> QED BY <1>4, <1>5, <1>6, <1>7, <1>8 DEF Next, TaskStep, Threads

\* An answer of the DUT.
Line(c) == [cmd |-> c, board |-> board, ok |-> TRUE, vref |-> vref, branch |-> branch, low |-> pressed]

LEMMA DutAnswersOne ==
  ASSUME TypeOK, DutAnswers
  PROVE  /\ todo # <<>> /\ Head(todo) \in Steps /\ todo' = Tail(todo) /\ todo' \in Seq(Steps)
         /\ Line(Head(todo)) \in Lines /\ rx' \in {rx, Append(rx, Line(Head(todo)))}
         /\ rx' \in Seq(Lines)
         /\ UNCHANGED <<board, phase, rest, cmd, answer, scenario, verdict, s_pfw_version>>
<1>1. /\ todo # <<>> /\ todo' = Tail(todo) /\ rx' \in {rx, Append(rx, Line(Head(todo)))}
      /\ UNCHANGED <<board, phase, rest, cmd, answer, scenario, verdict, s_pfw_version>>
  BY DEF DutAnswers, Answers, Line, call, cached
<1>2. Head(todo) \in Steps /\ Tail(todo) \in Seq(Steps)
  BY <1>1, HeadTailProperties DEF TypeOK
<1>3. Line(Head(todo)) \in Lines BY <1>2 DEF TypeOK, Line, Lines
<1>4. rx' \in Seq(Lines)
  <2>1. rx \in Seq(Lines) BY DEF TypeOK
  <2>2. Append(rx, Line(Head(todo))) \in Seq(Lines) BY <1>3, <2>1, AppendProperties
  <2> QED BY <1>1, <2>1, <2>2
<1> QED BY <1>1, <1>2, <1>3, <1>4

LEMMA NextTypes ==
  ASSUME TypeOK, Placed, [Next]_vars
  PROVE  TypeOK'
<1>0. /\ s_uart_open' \in BOOLEAN /\ driver' \in BOOLEAN
      /\ powered' \in BOOLEAN /\ testMode' \in BOOLEAN
      /\ vref' \in BOOLEAN /\ branch' \in BOOLEAN /\ pressed' \in BOOLEAN
      /\ nth' \in [Threads -> Nat] /\ fine' \in [Threads -> BOOLEAN]
      /\ verdict' \in [Threads -> [Steps -> {"none", "pass", "fail"}]]
  BY OtherTypes
<1> DEFINE Flow == /\ rx \in Seq(Lines) /\ todo \in Seq(Steps) /\ board \in Boards
                   /\ phase \in [Threads -> Phases] /\ rest \in [Threads -> Seq(Steps)]
                   /\ cmd \in [Threads -> Steps] /\ answer \in [Threads -> Lines \cup {NoLine}]
                   /\ scenario \in Scenarios
<1>00. Flow BY DEF TypeOK
<1>1. ASSUME NEW t \in Threads, NEW p \in Recipes[scenario] \cup Commands[scenario], Start(t, p)
      PROVE  Flow'
  <2>1. p \in Seq(Steps) BY ProgramsAssumption DEF TypeOK
  <2> QED BY <1>00, <1>1, <2>1 DEF Start, port, dut, call, Phases
<1>2. ASSUME NEW t \in Threads, NEW c \in Steps, Sent(t, c) PROVE Flow'
  <2>1. Append(todo, c) \in Seq(Steps) BY <1>00, AppendProperties
  <2>2. <<>> \in Seq(Lines) OBVIOUS
  <2> QED BY <1>00, <1>2, <2>1, <2>2 DEF Sent, Phases
<1>3. ASSUME NEW t \in Threads, NotSent(t) PROVE Flow'
  BY <1>00, <1>3 DEF NotSent, Phases
<1>4. ASSUME NEW t \in Threads, ReadLine(t) PROVE Flow'
  <2>1. Head(rx) \in Lines /\ Tail(rx) \in Seq(Lines)
    BY <1>00, <1>4, HeadTailProperties DEF ReadLine
  <2> QED BY <1>00, <1>4, <2>1 DEF ReadLine, Goto, dut, Phases
<1>5. ASSUME NEW t \in Threads, Timeout(t) PROVE Flow'
  BY <1>00, <1>5 DEF Timeout, Goto, port, dut, Phases
<1>6. ASSUME NEW t \in Threads, Moves(t) PROVE Flow'
  <2>1. PICK p \in Phases \ {"sent", "answered"}, r \in Seq(Steps) : Moved(t, p, r)
    BY <1>6 DEF Moves
  <2>2. <<>> \in Seq(Lines) /\ <<>> \in Seq(Steps) OBVIOUS
  <2> QED BY <1>00, <2>1, <2>2 DEF Moved
<1>7. ASSUME DutAnswers PROVE Flow'
  <2>1. /\ todo' \in Seq(Steps) /\ rx' \in Seq(Lines)
        /\ UNCHANGED <<board, phase, rest, cmd, answer, scenario>>
    BY <1>7, DutAnswersOne
  <2> QED BY <1>00, <2>1
<1>8. ASSUME Dropped PROVE Flow'
  <2>1. todo # <<>> => Tail(todo) \in Seq(Steps) BY <1>00, HeadTailProperties
  <2>2. <<>> \in Seq(Steps) OBVIOUS
  <2>3. todo' \in Seq(Steps) BY <1>00, <1>8, <2>1, <2>2 DEF Dropped
  <2>4. UNCHANGED <<rx, phase, rest, cmd, answer, board, scenario>> BY <1>8 DEF Dropped
  <2> QED BY <1>00, <2>3, <2>4
<1>9. ASSUME NEW b \in Boards, SeatBoard(b) PROVE Flow'
  BY <1>00, <1>9 DEF SeatBoard, port, call
<1> HIDE DEF Flow
<1>10. Flow'
  BY <1>1, <1>2, <1>3, <1>4, <1>5, <1>6, <1>7, <1>8, <1>9, NextCases DEF Threads
<1> QED BY <1>0, <1>10 DEF TypeOK, Flow

LEMMA NextPlaced ==
  ASSUME TypeOK, Placed, [Next]_vars
  PROVE  Placed'
<1> USE DEF TypeOK
<1>1. ASSUME NEW t \in Threads, NEW p, Start(t, p) PROVE Placed'
  <2>1. \A u \in Threads \ {t} : phase'[u] = phase[u] /\ rest'[u] = rest[u] /\ cmd'[u] = cmd[u]
    BY <1>1 DEF Start, call
  <2>2. phase'[t] = "ready" BY <1>1 DEF Start
  <2> QED BY <2>1, <2>2 DEF Placed, At
<1>2. ASSUME NEW t \in Threads, NEW c \in Steps, Sent(t, c) PROVE Placed'
  <2>1. \A u \in Threads \ {t} : phase'[u] = phase[u] /\ rest'[u] = rest[u] /\ cmd'[u] = cmd[u]
    BY <1>2 DEF Sent
  <2>2. phase'[t] = "sent" /\ rest'[t] = rest[t] /\ cmd'[t] = c BY <1>2 DEF Sent
  <2> QED BY <1>2, <2>1, <2>2 DEF Placed, At, Sent
<1>3. ASSUME NEW t \in Threads, NotSent(t) PROVE Placed'
  <2>1. \A u \in Threads \ {t} : phase'[u] = phase[u] /\ rest'[u] = rest[u] /\ cmd'[u] = cmd[u]
    BY <1>3 DEF NotSent
  <2>2. phase'[t] = "answered" /\ rest'[t] = rest[t] BY <1>3 DEF NotSent
  <2> QED BY <1>3, <2>1, <2>2 DEF Placed, At, NotSent
<1>4. ASSUME NEW t \in Threads, ReadLine(t) \/ Timeout(t) PROVE Placed'
  <2>1. /\ phase[t] = "sent" /\ phase' = [phase EXCEPT ![t] = "answered"] /\ UNCHANGED <<rest, cmd>>
    BY <1>4 DEF ReadLine, Timeout, Goto
  <2> QED BY <2>1 DEF Placed, At
<1>5. ASSUME NEW t \in Threads, Moves(t) PROVE Placed'
  <2>1. PICK p \in Phases \ {"sent", "answered"}, r \in Seq(Steps) : Moved(t, p, r)
    BY <1>5 DEF Moves
  <2>2. \A u \in Threads \ {t} : phase'[u] = phase[u] /\ rest'[u] = rest[u] /\ cmd'[u] = cmd[u]
    BY <2>1 DEF Moved
  <2>3. /\ phase'[t] = p /\ rest'[t] = r
        /\ p \notin {"idle", "ready"} => r = rest[t] /\ rest[t] # <<>>
        /\ p \in {"mark", "opened"} => At(t, "enter")
        /\ p = "enabled" => At(t, "adc_read")
    BY <2>1 DEF Moved
  <2> QED BY <2>2, <2>3 DEF Placed, At
<1>6. CASE DutAnswers BY <1>6, DutAnswersOne DEF Placed, At
<1>7. CASE Dropped BY <1>7 DEF Dropped, Placed, At
<1>8. ASSUME NEW b \in Boards, SeatBoard(b) PROVE Placed'
  BY <1>8 DEF SeatBoard, call, Placed, At
<1> QED BY <1>1, <1>2, <1>3, <1>4, <1>5, <1>6, <1>7, <1>8, NextCases DEF Threads

-----------------------------------------------------------------------------
(***************************************************************************)
(* A step takes no answer but its own.                                     *)
(***************************************************************************)
LEMMA ScenarioStays ==
  ASSUME TypeOK, Placed, [Next]_vars
  PROVE  scenario' = scenario /\ (OneSender' <=> OneSender)
<1>1. scenario' = scenario
  <2>1. \A t \in Threads : Moves(t) => scenario' = scenario BY DEF Moves, Moved
  <2>2. \A t \in Threads, c \in Steps : Sent(t, c) => scenario' = scenario BY DEF Sent
  <2>3. DutAnswers => scenario' = scenario BY DutAnswersOne
  <2> QED BY <2>1, <2>2, <2>3, NextCases
          DEF Start, NotSent, ReadLine, Timeout, Dropped, SeatBoard
<1> QED BY <1>1 DEF OneSender

LEMMA TailOf ==
  ASSUME NEW S, NEW p \in Seq(S), p # <<>>
  PROVE  /\ Tail(p) \in Seq(S) /\ Len(p) \in Nat \ {0} /\ Len(Tail(p)) = Len(p) - 1
         /\ Head(p) = p[1] /\ p[1] \in S
         /\ \A i \in 1..Len(Tail(p)) : Tail(p)[i] = p[i + 1] /\ i + 1 \in 1..Len(p)
<1>1. Len(p) \in Nat \ {0} BY EmptySeq
<1>2. /\ Tail(p) \in Seq(S) /\ Len(Tail(p)) = Len(p) - 1
      /\ \A i \in 1..Len(Tail(p)) : Tail(p)[i] = p[i + 1]
  BY HeadTailProperties
<1>3. \A i \in 1..Len(Tail(p)) : i + 1 \in 1..Len(p) BY <1>1, <1>2
<1>4. Head(p) = p[1] /\ p[1] \in S BY <1>1, ElementOfSeq
<1> QED BY <1>1, <1>2, <1>3, <1>4

LEMMA NextTurns ==
  ASSUME TypeOK, Placed, Turns, [Next]_vars
  PROVE  Turns'
<1> USE DEF TypeOK
<1> DEFINE Mute == \A i \in 1..Len(rest["console"]) : rest["console"][i] \notin Sending
           Alone == \A t, u \in Threads : phase[t] # "idle" /\ phase[u] # "idle" => t = u
<1>0. "console" \in Threads /\ "recipe" \in Threads BY DEF Threads
<1>1. ASSUME NEW t \in Threads, NEW p \in Seq(Steps), Start(t, p),
             t = "console" => p \in Commands[scenario]
      PROVE  Turns'
  <2>0. scenario' = scenario /\ (OneSender' <=> OneSender) BY <1>1 DEF Start, OneSender
  <2>1. "overlap" \notin scenario => Alone' BY <1>1 DEF Start
  <2>2. "overlap" \in scenario /\ OneSender => Mute'
    <3>1. CASE t = "recipe"
      <4>1. rest'["console"] = rest["console"] BY <1>0, <1>1, <3>1 DEF Start
      <4> QED BY <4>1 DEF Turns
    <3>2. CASE t = "console"
      <4>1. rest'["console"] = p BY <1>0, <1>1, <3>2 DEF Start
      <4>2. DOMAIN p = 1..Len(p) OBVIOUS
      <4> QED BY <1>1, <3>2, <4>1, <4>2 DEF OneSender
    <3> QED BY <3>1, <3>2 DEF Threads
  <2> QED BY <2>0, <2>1, <2>2 DEF Turns
<1>2. ASSUME \A u \in Threads : phase'[u] # "idle" => phase[u] # "idle",
             rest'["console"] \in {rest["console"], <<>>}
                \/ (rest["console"] # <<>> /\ rest'["console"] = Tail(rest["console"])),
             scenario' = scenario
      PROVE  Turns'
  <2>0. OneSender' <=> OneSender BY <1>2 DEF OneSender
  <2>1. "overlap" \notin scenario => Alone' BY <1>2 DEF Turns
  <2>2. "overlap" \in scenario /\ OneSender => Mute'
    <3>1. CASE rest'["console"] = rest["console"] BY <3>1 DEF Turns
    <3>2. CASE rest'["console"] = <<>> BY <3>2
    <3>3. CASE rest["console"] # <<>> /\ rest'["console"] = Tail(rest["console"])
      BY <1>0, <3>3, TailOf DEF Turns
    <3> QED BY <1>2, <3>1, <3>2, <3>3
  <2> QED BY <1>2, <2>0, <2>1, <2>2 DEF Turns
<1>3. ASSUME NEW t \in Threads, NEW c \in Steps, Sent(t, c) PROVE Turns'
  <2>1. /\ \A u \in Threads : phase'[u] # "idle" => phase[u] # "idle"
        /\ rest' = rest /\ scenario' = scenario
    BY <1>3 DEF Sent
  <2> QED BY <1>2, <2>1
<1>4. ASSUME NEW t \in Threads, NotSent(t) \/ ReadLine(t) \/ Timeout(t) PROVE Turns'
  <2>1. /\ \A u \in Threads : phase'[u] # "idle" => phase[u] # "idle"
        /\ rest' = rest /\ scenario' = scenario
    BY <1>4 DEF NotSent, ReadLine, Timeout, Goto
  <2> QED BY <1>2, <2>1
<1>5. ASSUME NEW t \in Threads, Moves(t) PROVE Turns'
  <2>1. PICK p \in Phases \ {"sent", "answered"}, r \in Seq(Steps) : Moved(t, p, r)
    BY <1>5 DEF Moves
  <2>2. /\ \A u \in Threads : phase'[u] # "idle" => phase[u] # "idle"
        /\ scenario' = scenario
        /\ rest'["console"] \in {rest["console"], <<>>}
             \/ (rest["console"] # <<>> /\ rest'["console"] = Tail(rest["console"]))
    BY <1>0, <2>1 DEF Moved
  <2> QED BY <1>2, <2>2
<1>6. ASSUME DutAnswers \/ Dropped PROVE Turns'
  <2>1. phase' = phase /\ rest' = rest /\ scenario' = scenario
    BY <1>6, DutAnswersOne DEF Dropped
  <2> QED BY <1>2, <2>1
<1>7. ASSUME NEW b \in Boards, SeatBoard(b) PROVE Turns'
  <2>1. phase' = phase /\ rest' = rest /\ scenario' = scenario BY <1>7 DEF SeatBoard
  <2> QED BY <1>2, <2>1
<1>8. ASSUME NEW p \in Recipes[scenario], Start("recipe", p) PROVE Turns'
  <2>1. p \in Seq(Steps) BY ProgramsAssumption
  <2> QED BY <1>0, <1>1, <1>8, <2>1
<1>9. ASSUME NEW p \in Commands[scenario], Start("console", p) PROVE Turns'
  <2>1. p \in Seq(Steps) BY ProgramsAssumption
  <2> QED BY <1>0, <1>1, <1>9, <2>1
<1> QED BY <1>3, <1>4, <1>5, <1>6, <1>7, <1>8, <1>9, NextCases

\* Who is at a step that sends is the only one who waits for an answer.
LEMMA SingleSender ==
  ASSUME TypeOK, Placed, Turns, OneSender, NEW t \in Threads, NEW u \in Threads,
         phase[t] = "sent", phase[u] # "idle", rest[u] # <<>>, Head(rest[u]) \in Sending
  PROVE  t = u
<1>1. CASE "overlap" \notin scenario BY <1>1 DEF Turns
<1>2. CASE "overlap" \in scenario
  <2>1. ASSUME rest["console"] # <<>> PROVE Head(rest["console"]) \notin Sending
    <3>1. rest["console"] \in Seq(Steps) BY DEF TypeOK, Threads
    <3>2. Head(rest["console"]) = rest["console"][1] /\ 1 \in 1..Len(rest["console"])
      BY <2>1, <3>1, TailOf
    <3> QED BY <1>2, <3>2 DEF Turns
  <2>2. rest[t] # <<>> /\ Head(rest[t]) \in Sending BY DEF Placed
  <2> QED BY <2>1, <2>2 DEF Threads
<1> QED BY <1>1, <1>2

LEMMA NextInFlight ==
  ASSUME TypeOK, Placed, Turns, InFlight, OkIsOwn, "late" \notin scenario, OneSender, [Next]_vars
  PROVE  InFlight' /\ OkIsOwn'
<1> USE DEF TypeOK
<1> DEFINE Own == \A t \in Threads : phase[t] = "answered" /\ answer[t].ok
                    => answer[t].cmd = cmd[t] /\ answer[t].board = board
<1>0. /\ Own /\ (Own' => OkIsOwn')
      /\ ~NoLine.ok
  BY DEF OkIsOwn, NoLine
<1>1. ASSUME NEW t \in Threads, NEW p, Start(t, p) PROVE InFlight' /\ Own'
  <2>1. /\ UNCHANGED <<rx, todo, board, cmd, answer>>
        /\ phase' = [phase EXCEPT ![t] = "ready"]
    BY <1>1 DEF Start, port, dut, call
  <2> QED BY <1>0, <2>1 DEF InFlight
<1>2. ASSUME NEW t \in Threads, NEW c \in Steps, Sent(t, c) PROVE InFlight' /\ Own'
  <2>1. \A u \in Threads \ {t} : phase[u] # "sent" /\ phase'[u] = phase[u] /\ cmd'[u] = cmd[u]
    BY <1>2, SingleSender DEF Sent
  <2>2. /\ phase'[t] = "sent" /\ cmd'[t] = c /\ rx' = <<>> /\ todo' \in {<<>>, Append(<<>>, c)}
        /\ UNCHANGED <<answer, board>>
    BY <1>2 DEF Sent
  <2>3. \A i \in 1..Len(todo') : todo'[i] = c BY <2>2
  <2>4. InFlight'
    <3>1. \A u \in Threads : phase'[u] = "sent" => u = t BY <2>1
    <3>2. \A i \in 1..Len(rx') : FALSE BY <2>2
    <3> QED BY <2>2, <2>3, <3>1, <3>2 DEF InFlight
  <2>5. Own' BY <1>0, <2>1, <2>2
  <2> QED BY <2>4, <2>5
<1>3. ASSUME NEW t \in Threads, NotSent(t) \/ Timeout(t) PROVE InFlight' /\ Own'
  <2>1. /\ phase' = [phase EXCEPT ![t] = "answered"] /\ answer' = [answer EXCEPT ![t] = NoLine]
        /\ UNCHANGED <<rx, todo, cmd, board>>
    BY <1>3 DEF NotSent, Timeout, Goto, port, dut
  <2> QED BY <1>0, <2>1 DEF InFlight
<1>4. ASSUME NEW t \in Threads, ReadLine(t) PROVE InFlight' /\ Own'
  <2>1. /\ phase[t] = "sent" /\ rx # <<>> /\ phase' = [phase EXCEPT ![t] = "answered"]
        /\ answer' = [answer EXCEPT ![t] = Head(rx)] /\ rx' = Tail(rx)
        /\ UNCHANGED <<todo, cmd, board>>
    BY <1>4 DEF ReadLine, Goto, dut
  <2>2. \A u \in Threads \ {t} : phase[u] # "sent"
    <3> SUFFICES ASSUME NEW u \in Threads, phase[u] = "sent" PROVE u = t OBVIOUS
    <3>1. rest[t] # <<>> /\ Head(rest[t]) \in Sending BY <2>1 DEF Placed
    <3> QED BY <2>1, <3>1, SingleSender
  <2>3. Head(rx).cmd = cmd[t] /\ Head(rx).board = board
    <3>1. Head(rx) = rx[1] /\ 1 \in 1..Len(rx) BY <2>1, TailOf
    <3> QED BY <2>1, <3>1 DEF InFlight
  <2>4. InFlight' BY <2>1, <2>2 DEF InFlight
  <2>5. Own' BY <1>0, <2>1, <2>3
  <2> QED BY <2>4, <2>5
<1>5. ASSUME NEW t \in Threads, Moves(t) PROVE InFlight' /\ Own'
  <2>1. PICK p \in Phases \ {"sent", "answered"}, r \in Seq(Steps) : Moved(t, p, r)
    BY <1>5 DEF Moves
  <2>2. /\ \A u \in Threads : phase'[u] \in {"sent", "answered"} => phase'[u] = phase[u]
        /\ rx' \in {rx, <<>>} /\ todo' \in {todo, <<>>} /\ UNCHANGED <<cmd, answer, board>>
    BY <2>1 DEF Moved
  <2>3. /\ \A i \in 1..Len(rx') : i \in 1..Len(rx) /\ rx'[i] = rx[i]
        /\ \A i \in 1..Len(todo') : i \in 1..Len(todo) /\ todo'[i] = todo[i]
    BY <2>2
  <2>4. InFlight' BY <2>2, <2>3 DEF InFlight
  <2>5. Own' BY <1>0, <2>2
  <2> QED BY <2>4, <2>5
<1>6. ASSUME DutAnswers PROVE InFlight' /\ Own'
  <2> DEFINE c == Head(todo)
  <2>1. /\ todo # <<>> /\ todo' = Tail(todo) /\ rx' \in {rx, Append(rx, Line(c))} /\ Line(c) \in Lines
        /\ UNCHANGED <<board, phase, cmd, answer>>
    BY <1>6, DutAnswersOne
  <2>2. Own' BY <1>0, <2>1
  <2>3. ASSUME NEW t \in Threads, phase[t] = "sent"
        PROVE  /\ \A i \in 1..Len(todo') : todo'[i] = cmd[t]
               /\ \A i \in 1..Len(rx') : rx'[i].cmd = cmd[t] /\ rx'[i].board = board
    <3>1. /\ c = todo[1] /\ 1 \in 1..Len(todo)
          /\ \A i \in 1..Len(Tail(todo)) : Tail(todo)[i] = todo[i + 1] /\ i + 1 \in 1..Len(todo)
      BY <2>1, TailOf
    <3>2. c = cmd[t] BY <2>3, <3>1 DEF InFlight
    <3>3. Line(c).cmd = cmd[t] /\ Line(c).board = board BY <3>2 DEF Line
    <3>4. \A i \in 1..Len(rx) : rx[i].cmd = cmd[t] /\ rx[i].board = board BY <2>3 DEF InFlight
    <3>5. CASE rx' = Append(rx, Line(c))
      <4>1. /\ Len(rx') = Len(rx) + 1 /\ rx'[Len(rx) + 1] = Line(c)
            /\ \A i \in 1..Len(rx) : rx'[i] = rx[i]
            /\ Len(rx) \in Nat
        BY <2>1, <3>5, AppendProperties
      <4>2. ASSUME NEW i \in 1..Len(rx') PROVE rx'[i].cmd = cmd[t] /\ rx'[i].board = board
        <5>1. i \in 1..Len(rx) \/ i = Len(rx) + 1 BY <4>1
        <5>2. CASE i \in 1..Len(rx) BY <3>4, <4>1, <5>2
        <5>3. CASE i = Len(rx) + 1 BY <3>3, <4>1, <5>3
        <5> QED BY <5>1, <5>2, <5>3
      <4> QED BY <2>1, <2>3, <3>1, <4>2 DEF InFlight
    <3>6. CASE rx' = rx BY <2>1, <2>3, <3>1, <3>4, <3>6 DEF InFlight
    <3> QED BY <2>1, <3>5, <3>6
  <2>4. InFlight' BY <2>1, <2>3 DEF InFlight
  <2> QED BY <2>2, <2>4
<1>7. ASSUME Dropped PROVE InFlight' /\ Own'
  <2>1. UNCHANGED <<rx, phase, rest, cmd, answer, board, scenario>> BY <1>7 DEF Dropped
  <2>2. \A i \in 1..Len(todo') : \E j \in 1..Len(todo) : todo'[i] = todo[j]
    <3>1. CASE todo' = todo
      <4> QED BY <3>1
    <3>2. CASE todo' = <<>>
      <4>1. 1..Len(todo') = {} BY <3>2
      <4> QED BY <4>1
    <3>3. CASE todo # <<>> /\ todo' = Tail(todo) BY <3>3, TailOf
    <3> QED BY <1>7, <3>1, <3>2, <3>3 DEF Dropped
  <2> QED BY <1>0, <2>1, <2>2 DEF InFlight
<1>8. ASSUME NEW b \in Boards, SeatBoard(b) PROVE InFlight' /\ Own'
  <2>1. \A u \in Threads : phase'[u] = "idle" BY <1>8 DEF SeatBoard
  <2> QED BY <2>1 DEF InFlight
<1>9. InFlight' /\ Own'
  <2> HIDE DEF Own
  <2> QED BY <1>1, <1>2, <1>3, <1>4, <1>5, <1>6, <1>7, <1>8, NextCases DEF Threads
<1> QED BY <1>0, <1>9

LEMMA NextAnswerInv ==
  ASSUME TypeOK, AnswerInv, [Next]_vars
  PROVE  AnswerInv'
<1>1. Placed' /\ Turns' BY NextPlaced, NextTurns DEF AnswerInv
<1>2. scenario' = scenario /\ (OneSender' <=> OneSender) BY ScenarioStays DEF AnswerInv
<1> QED BY <1>1, <1>2, NextInFlight DEF AnswerInv

-----------------------------------------------------------------------------
(***************************************************************************)
(* A version is never another board's.                                     *)
(***************************************************************************)
\* No version is parsed, and none is recorded as read.
NoVersionRead ==
  /\ s_pfw_version' = s_pfw_version
  /\ \A u \in Threads : verdict'[u]["version"] = "pass" => verdict[u]["version"] = "pass"

LEMMA OtherRecords ==
  ASSUME TypeOK, NEW t \in Threads, NEW s \in Steps, NEW v \in {"pass", "fail"},
         s = "version" => v = "fail",
         verdict' = [verdict EXCEPT ![t][s] = v], s_pfw_version' = s_pfw_version
  PROVE  NoVersionRead
<1>1. ASSUME NEW u \in Threads, verdict'[u]["version"] = "pass" PROVE verdict[u]["version"] = "pass"
  <2>1. CASE u = t
    <3>1. verdict'[t] = [verdict[t] EXCEPT ![s] = v] BY DEF TypeOK
    <3>2. "version" \in Steps BY DEF Steps, Gated
    <3>3. verdict[t] \in [Steps -> {"none", "pass", "fail"}] BY DEF TypeOK
    <3> QED BY <1>1, <2>1, <3>1, <3>2, <3>3
  <2>2. CASE u # t BY <1>1, <2>2 DEF TypeOK
  <2> QED BY <2>1, <2>2
<1> QED BY <1>1 DEF NoVersionRead

LEMMA TaskKeepsVersion ==
  ASSUME TypeOK, NEW t \in Threads, TaskStep(t)
  PROVE  VersionDone(t) \/ NoVersionRead
<1> DEFINE Other == \E s \in Steps, v \in {"pass", "fail"} :
                      (s = "version" => v = "fail") /\ verdict' = [verdict EXCEPT ![t][s] = v]
           Kept == s_pfw_version' = s_pfw_version /\ (Other \/ verdict' = verdict)
<1>0. Kept => NoVersionRead BY OtherRecords DEF NoVersionRead
<1>2. /\ {"enter", "adc_read", "pc5_high", "exit", "read_id"} \cup Simple \cup Composite
           \subseteq Steps \ {"version"}
      /\ Gated \subseteq Steps
  BY DEF Steps, Gated, Simple, Asking, Setting, Composite
<1>3. CASE run_dut_enter_test(t)
  <2>1. ASSUME EnterAlreadyOpen(t) \/ EnterInstalls(t) \/ EnterMarksOpen(t) \/ EnterSends(t) PROVE Kept
    BY <2>1 DEF EnterAlreadyOpen, EnterInstalls, EnterMarksOpen, EnterSends, cached
  <2>2. ASSUME EnterCannotOpen(t) PROVE Kept BY <1>2, <2>2 DEF EnterCannotOpen, Record, cached
  <2>3. ASSUME EnterDone(t) PROVE Kept BY <1>2, <2>3 DEF EnterDone, Record, cached
  <2> QED BY <1>0, <1>3, <2>1, <2>2, <2>3 DEF run_dut_enter_test
<1>4. CASE End(t) \/ PowerOn(t) \/ PowerOff(t) \/ dut_cmd(t) \/ dut_uart_close(t)
  <2>1. Kept
    BY <1>4 DEF End, PowerOn, PowerOff, dut_cmd, ReadLine, Timeout, dut_uart_close, CloseDelete,
                CloseClear, CloseNothing, cached
  <2> QED BY <1>0, <2>1
<1>5. CASE OtherUser(t)
  <2>1. ASSUME ReadIdListens(t) \/ FixtureStarts(t) \/ FixtureEnds(t) PROVE Kept
    BY <2>1 DEF ReadIdListens, FixtureStarts, FixtureEnds, cached
  <2>2. ASSUME ReadIdDone(t) PROVE Kept BY <1>2, <2>2 DEF ReadIdDone, Record, cached
  <2>3. ASSUME ReadIdRefused(t) PROVE Kept BY <1>2, <2>3 DEF ReadIdRefused, Record, cached
  <2> QED BY <1>0, <1>5, <2>1, <2>2, <2>3 DEF OtherUser
<1>6. CASE CompositeStep(t)
  <2>1. ASSUME CompositeStarts(t) PROVE Kept BY <2>1 DEF CompositeStarts, cached
  <2>2. ASSUME CompositeGoesOn(t) PROVE Kept BY <2>2 DEF CompositeGoesOn, cached
  <2>3. ASSUME CompositeDone(t) PROVE Kept BY <1>2, <2>3 DEF CompositeDone, Record, cached
  <2> QED BY <1>0, <1>6, <2>1, <2>2, <2>3 DEF CompositeStep
<1>7. CASE GatedStep(t)
  <2>1. ASSUME Skipped(t) PROVE Kept BY <1>2, <2>1 DEF Skipped, Record, cached
  <2>2. ASSUME Sends(t) \/ AdcReadEnabled(t) \/ RawDone(t) PROVE Kept
    BY <2>2 DEF Sends, AdcReadEnabled, RawDone, cached
  <2>3. ASSUME AdcReadWithoutPort(t) PROVE Kept BY <1>2, <2>3 DEF AdcReadWithoutPort, Record, cached
  <2>4. ASSUME AdcReadDone(t) PROVE Kept BY <1>2, <2>4 DEF AdcReadDone, Record, cached
  <2>5. ASSUME SimpleDone(t) PROVE Kept BY <1>2, <2>5 DEF SimpleDone, Record, cached
  <2>6. ASSUME Pc5Done(t) PROVE Kept BY <1>2, <2>6 DEF Pc5Done, Record, cached
  <2>7. ASSUME ExitDone(t) PROVE Kept BY <1>2, <2>7 DEF ExitDone, Record, cached
  <2> QED BY <1>0, <1>7, <2>1, <2>2, <2>3, <2>4, <2>5, <2>6, <2>7 DEF GatedStep
<1> QED BY <1>3, <1>4, <1>5, <1>6, <1>7 DEF TaskStep

\* The task steps neither wake a task nor change the board.
LEMMA TaskKeepsBoard ==
  ASSUME TypeOK, Placed, NEW t \in Threads, TaskStep(t)
  PROVE  /\ \A u \in Threads : phase'[u] # "idle" => phase[u] # "idle"
         /\ UNCHANGED <<board, scenario>>
<1> USE DEF TypeOK
<1>1. ASSUME NEW c \in Steps, Sent(t, c)
      PROVE  /\ \A u \in Threads : phase'[u] # "idle" => phase[u] # "idle"
             /\ UNCHANGED <<board, scenario>>
  BY <1>1 DEF Sent
<1>2. CASE NotSent(t) BY <1>2 DEF NotSent
<1>3. CASE ReadLine(t) \/ Timeout(t) BY <1>3 DEF ReadLine, Timeout, Goto, dut
<1>4. CASE Moves(t)
  <2>1. PICK p \in Phases \ {"sent", "answered"}, r \in Seq(Steps) : Moved(t, p, r)
    BY <1>4 DEF Moves
  <2> QED BY <2>1 DEF Moved
<1> QED BY <1>1, <1>2, <1>3, <1>4, TaskCases

LEMMA NextVersion ==
  ASSUME TypeOK, AnswerInv, VersionIsBoards, [Next]_vars
  PROVE  VersionIsBoards'
<1> USE DEF TypeOK
<1>0. SUFFICES ASSUME "late" \notin scenario, OneSender
               PROVE  \A u \in Threads : phase'[u] # "idle" /\ verdict'[u]["version"] = "pass"
                                            => s_pfw_version' = board'
  BY ScenarioStays DEF VersionIsBoards, AnswerInv
<1>1. \A u \in Threads : phase[u] # "idle" /\ verdict[u]["version"] = "pass" => s_pfw_version = board
  BY <1>0 DEF VersionIsBoards
<1>2. ASSUME NEW t \in Threads, NEW p, Start(t, p), NEW u \in Threads,
             phase'[u] # "idle", verdict'[u]["version"] = "pass"
      PROVE  s_pfw_version' = board'
  <2>1. "version" \in Steps BY DEF Steps, Gated
  <2>2. u # t BY <1>2, <2>1 DEF Start
  <2> QED BY <1>1, <1>2, <2>2 DEF Start, dut, cached
<1>3. ASSUME NEW t \in Threads, VersionDone(t), NEW u \in Threads,
             phase'[u] # "idle", verdict'[u]["version"] = "pass"
      PROVE  s_pfw_version' = board'
  <2>1. board' = board BY <1>3 DEF VersionDone, dut
  <2>2. CASE answer[t].ok
    <3>1. answer[t].cmd = "version" /\ answer[t].board = board
      BY <1>0, <1>3, <2>2 DEF AnswerInv, OkIsOwn, Placed, VersionDone, Answered
    <3> QED BY <1>3, <2>1, <2>2, <3>1 DEF VersionDone, NewVersion, HasVersion
  <2>3. CASE ~answer[t].ok
    <3>1. s_pfw_version' = s_pfw_version BY <1>3, <2>3 DEF VersionDone, NewVersion, HasVersion
    <3>2. verdict' = [verdict EXCEPT ![t]["version"] = "fail"] BY <1>3, <2>3 DEF VersionDone, Record
    <3>3. "version" \in Steps BY DEF Steps, Gated
    <3>4. NoVersionRead BY <3>1, <3>2, <3>3, OtherRecords
    <3>5. phase[u] # "idle" BY <1>3 DEF VersionDone, Finish, Answered
    <3> QED BY <1>1, <1>3, <2>1, <3>1, <3>4, <3>5 DEF NoVersionRead
  <2> QED BY <2>2, <2>3
<1>4. ASSUME NEW t \in Threads, TaskStep(t), NoVersionRead, NEW u \in Threads,
             phase'[u] # "idle", verdict'[u]["version"] = "pass"
      PROVE  s_pfw_version' = board'
  BY <1>1, <1>4, TaskKeepsBoard DEF NoVersionRead, AnswerInv
<1>5. ASSUME Dut \/ UNCHANGED vars, NEW u \in Threads,
             phase'[u] # "idle", verdict'[u]["version"] = "pass"
      PROVE  s_pfw_version' = board'
  <2>1. UNCHANGED <<phase, verdict, board, s_pfw_version>>
    BY <1>5 DEF Dut, DutAnswers, DutIgnores, DutIsSilent, PowerIsCut, Answers, NoPower, dut, cached, vars
  <2> QED BY <1>1, <1>5, <2>1
<1>6. ASSUME NEW b \in Boards, SeatBoard(b) PROVE \A u \in Threads : phase'[u] = "idle"
  BY <1>6 DEF SeatBoard
<1>7. ASSUME NEW t \in Threads, TaskStep(t), NEW u \in Threads,
             phase'[u] # "idle", verdict'[u]["version"] = "pass"
      PROVE  s_pfw_version' = board'
  BY <1>3, <1>4, <1>7, TaskKeepsVersion
<1> QED BY <1>2, <1>5, <1>6, <1>7 DEF Next, TaskStep, Threads

\* The invariants of both theorems.
LEMMA Answering == Spec => [](TypeOK /\ AnswerInv /\ VersionIsBoards)
<1>1. Init => TypeOK /\ AnswerInv /\ VersionIsBoards BY InitAnswers
<1>2. TypeOK /\ AnswerInv /\ VersionIsBoards /\ [Next]_vars
        => (TypeOK /\ AnswerInv /\ VersionIsBoards)'
  BY NextTypes, NextAnswerInv, NextVersion DEF AnswerInv
<1> QED BY <1>1, <1>2, PTL DEF Spec

(***************************************************************************)
(* OkIsOwn: unless an answer may come late, or two tasks send, the OK a    *)
(* step takes is the answer to the command it sent, from the board in the  *)
(* fixture: dut_cmd flushes what is left of earlier commands.              *)
(***************************************************************************)
THEOREM OwnAnswers == Spec => []OkIsOwn
<1>1. AnswerInv => OkIsOwn BY DEF AnswerInv, OkIsOwn
<1> QED BY <1>1, Answering, PTL

(***************************************************************************)
(* VersionIsBoards: a program that recorded dut_version as passed has      *)
(* cached the version of the board in the fixture.                         *)
(***************************************************************************)
THEOREM OwnVersion == Spec => []VersionIsBoards
  BY Answering, PTL

-----------------------------------------------------------------------------
(***************************************************************************)
(* Between programs the port is closed.                                    *)
(***************************************************************************)
LEMMA AheadTail ==
  ASSUME NEW p \in Seq(Steps), p # <<>>
  PROVE  /\ \A s : Ahead(Tail(p), s) => Ahead(p, s)
         /\ \A s : Ahead(p, s) /\ Head(p) # s => Ahead(Tail(p), s)
         /\ Leaving(p) => Leaving(Tail(p))
<1>1. /\ Len(p) \in Nat \ {0} /\ Len(Tail(p)) = Len(p) - 1 /\ Head(p) = p[1]
      /\ \A i \in 1..Len(Tail(p)) : Tail(p)[i] = p[i + 1] /\ i + 1 \in 1..Len(p)
  BY TailOf
<1>2. \A j \in 1..Len(p) : j > 1 => j - 1 \in 1..Len(Tail(p)) /\ Tail(p)[j - 1] = p[j]
  <2> SUFFICES ASSUME NEW j \in 1..Len(p), j > 1
               PROVE  j - 1 \in 1..Len(Tail(p)) /\ Tail(p)[j - 1] = p[j]
    OBVIOUS
  <2>1. j - 1 \in 1..Len(Tail(p)) /\ (j - 1) + 1 = j BY <1>1
  <2> QED BY <1>1, <2>1
<1>3. ASSUME NEW s, Ahead(Tail(p), s) PROVE Ahead(p, s)
  BY <1>1, <1>3 DEF Ahead
<1>4. ASSUME NEW s, Ahead(p, s), Head(p) # s PROVE Ahead(Tail(p), s)
  <2>1. PICK j \in 1..Len(p) : p[j] = s BY <1>4 DEF Ahead
  <2>2. j > 1 BY <1>1, <1>4, <2>1
  <2> QED BY <1>2, <2>1, <2>2 DEF Ahead
<1>5. ASSUME Leaving(p) PROVE Leaving(Tail(p))
  <2> SUFFICES ASSUME NEW i \in 1..Len(Tail(p)), Tail(p)[i] = "enter"
               PROVE  /\ \E j \in 1..Len(Tail(p)) : i < j /\ Tail(p)[j] = "exit"
                      /\ ~Ahead(Tail(p), "fixture")
    BY DEF Leaving
  <2>1. p[i + 1] = "enter" /\ i + 1 \in 1..Len(p) /\ i \in Nat BY <1>1
  <2>2. PICK j \in 1..Len(p) : i + 1 < j /\ p[j] = "exit" BY <1>5, <2>1 DEF Leaving
  <2>3. j > 1 /\ i < j - 1 BY <1>1, <2>1, <2>2
  <2>4. \E k \in 1..Len(Tail(p)) : i < k /\ Tail(p)[k] = "exit" BY <1>2, <2>2, <2>3
  <2>5. ~Ahead(Tail(p), "fixture") BY <1>3, <1>5, <2>1 DEF Leaving
  <2> QED BY <2>4, <2>5
<1> QED BY <1>3, <1>4, <1>5

LEMMA NothingAhead == Leaving(<<>>) /\ \A s : ~Ahead(<<>>, s)
  BY DEF Leaving, Ahead

\* A task gets on with its step,
Waits(t) ==
  /\ phase[t] \notin {"idle", "mark", "clear", "listen", "close"}
  /\ phase'[t] \notin {"idle", "mark", "clear", "listen"}
  /\ rest'[t] = rest[t] /\ UNCHANGED <<s_uart_open, driver>>
\* or ends it, and leaves the port as it is.
Passes(t) ==
  /\ phase[t] \notin {"idle", "mark", "clear", "listen", "close"}
  /\ phase'[t] = "ready" /\ rest[t] # <<>> /\ rest'[t] = Tail(rest[t])
  /\ Head(rest[t]) # "exit" \/ ~s_uart_open
  /\ UNCHANGED <<s_uart_open, driver>>

LEMMA SessionCases ==
  ASSUME TypeOK, Placed, NEW t \in Threads, TaskStep(t)
  PROVE  \/ Waits(t) \/ Passes(t) \/ End(t) \/ dut_uart_close(t)
         \/ EnterInstalls(t) \/ EnterMarksOpen(t) \/ EnterCannotOpen(t)
         \/ ReadIdListens(t) \/ ReadIdDone(t) \/ FixtureStarts(t)
<1> USE DEF TypeOK
<1>1. \A s \in Steps \ {"exit"} : Ready(t, s) /\ Finish(t) /\ UNCHANGED <<s_uart_open, driver>>
                                    => Passes(t)
  BY DEF Ready, At, Finish, Passes
<1>2. \A s \in Steps \ {"exit"} : Answered(t, s) /\ Finish(t) /\ UNCHANGED <<s_uart_open, driver>>
                                    => Passes(t)
  BY DEF Answered, At, Finish, Passes
<1>3. /\ {"enter", "version", "adc_read", "pc5_high", "raw", "read_id", "power_on", "power_off"}
           \cup Simple \cup Composite \subseteq Steps \ {"exit"}
      /\ Gated \subseteq Steps \ {"exit"}
  BY DEF Steps, Gated, Simple, Asking, Setting, Composite
<1>4. CASE PowerOn(t) \/ PowerOff(t)
  BY <1>1, <1>3, <1>4 DEF PowerOn, PowerOff, port
<1>5. CASE dut_cmd(t) BY <1>5 DEF dut_cmd, ReadLine, Timeout, Goto, port, Waits
<1>6. CASE EnterAlreadyOpen(t) BY <1>6 DEF EnterAlreadyOpen, Ready, Goto, port, Waits
<1>7. CASE EnterSends(t) BY <1>7 DEF EnterSends, Send, Goto, port, Waits
<1>8. CASE EnterDone(t)
  BY <1>2, <1>3, <1>8 DEF EnterDone, Answered, Goto, port, Waits
<1>9. CASE Skipped(t)
  <2>1. phase[t] = "ready" /\ rest[t] # <<>> BY <1>9 DEF Skipped, Ready, At
  <2> QED BY <1>9, <2>1 DEF Skipped, Finish, port, Passes
<1>10. CASE Sends(t) BY <1>10 DEF Sends, Ready, Send, Goto, Waits
<1>11. CASE AdcReadWithoutPort(t)
  <2>1. rest[t] # <<>> BY <1>11 DEF AdcReadWithoutPort, Placed
  <2> QED BY <1>11, <2>1 DEF AdcReadWithoutPort, Finish, port, Passes
<1>12. CASE VersionDone(t) \/ Pc5Done(t) \/ AdcReadDone(t) \/ RawDone(t)
  BY <1>2, <1>3, <1>12 DEF VersionDone, Pc5Done, AdcReadDone, RawDone, port
<1>13. CASE SimpleDone(t)
  BY <1>2, <1>3, <1>13 DEF SimpleDone, port
<1>14. CASE AdcReadEnabled(t) BY <1>14 DEF AdcReadEnabled, Answered, Goto, port, Waits
<1>15. CASE ExitDone(t) BY <1>15 DEF ExitDone, ThenClose, Answered, Goto, port, Waits
<1>16. CASE CompositeStarts(t) BY <1>16 DEF CompositeStarts, Asks, Ready, Send, Goto, port, Waits
<1>17. CASE CompositeGoesOn(t)
  BY <1>17 DEF CompositeGoesOn, Asks, Answered, Send, Goto, port, Waits
<1>18. CASE CompositeDone(t)
  BY <1>2, <1>3, <1>18 DEF CompositeDone, port
<1>19. CASE ReadIdRefused(t)
  BY <1>1, <1>3, <1>19 DEF ReadIdRefused, port
<1>20. CASE FixtureEnds(t) BY <1>20 DEF FixtureEnds, Goto, port, Waits
<1> QED BY <1>4, <1>5, <1>6, <1>7, <1>8, <1>9, <1>10, <1>11, <1>12, <1>13, <1>14, <1>15, <1>16,
           <1>17, <1>18, <1>19, <1>20
        DEF TaskStep, run_dut_enter_test, GatedStep, CompositeStep, OtherUser

LEMMA TaskIsActive ==
  ASSUME TypeOK, Placed, NEW t \in Threads, TaskStep(t)
  PROVE  phase[t] # "idle"
<1>1. ASSUME NEW c \in Steps, Sent(t, c) PROVE phase[t] # "idle" BY <1>1 DEF Sent
<1>2. CASE NotSent(t) \/ ReadLine(t) \/ Timeout(t) BY <1>2 DEF NotSent, ReadLine, Timeout
<1>3. CASE Moves(t) BY <1>3 DEF Moves, Moved
<1> QED BY <1>1, <1>2, <1>3, TaskCases

LEMMA TaskSession ==
  ASSUME TypeOK, Placed, NEW t \in Threads, TaskStep(t), SessionOf(t)
  PROVE  IF phase'[t] = "idle" THEN ~s_uart_open' /\ ~driver' ELSE SessionOf(t)'
<1> USE DEF TypeOK
<1>0. /\ rest[t] \in Seq(Steps) /\ Leaving(rest[t])
      /\ rest[t] # <<>> => Leaving(Tail(rest[t]))
  BY AheadTail DEF SessionOf
<1>1. CASE Waits(t) BY <1>1 DEF Waits, SessionOf
<1>2. CASE Passes(t)
  <2>1. s_uart_open => Ahead(Tail(rest[t]), "exit") /\ ~Ahead(Tail(rest[t]), "fixture")
    BY <1>0, <1>2, AheadTail DEF Passes, SessionOf
  <2> QED BY <1>0, <1>2, <2>1 DEF Passes, SessionOf
<1>3. CASE End(t)
  <2>1. phase[t] = "ready" /\ rest[t] = <<>> /\ phase'[t] = "idle"
        /\ UNCHANGED <<s_uart_open, driver>>
    BY <1>3 DEF End, Goto, port
  <2> QED BY <2>1, NothingAhead DEF SessionOf
<1>4. CASE dut_uart_close(t)
  <2>1. CASE CloseDelete(t)
    <3>1. /\ phase[t] = "close" /\ s_uart_open /\ phase'[t] = "clear" /\ rest'[t] = rest[t]
          /\ driver' = FALSE /\ s_uart_open' = s_uart_open
      BY <2>1 DEF CloseDelete, CloseIfOpen, DeleteDriver, Goto
    <3> QED BY <1>0, <3>1 DEF SessionOf
  <2>2. ASSUME CloseClear(t) \/ CloseNothing(t) PROVE s_uart_open' = FALSE /\ driver' = FALSE
    BY <2>2 DEF CloseClear, CloseNothing, CloseIfOpen, MarkClosed, port, SessionOf
  <2>3. ASSUME CloseClear(t) \/ CloseNothing(t)
        PROVE  phase'[t] = "ready" /\ Leaving(rest'[t])
    <3>1. AfterClose(t) /\ rest[t] # <<>>
      BY <2>3 DEF CloseClear, CloseNothing, Placed
    <3> QED BY <1>0, <3>1, NothingAhead DEF AfterClose
  <2>4. CASE CloseClear(t) \/ CloseNothing(t) BY <2>2, <2>3, <2>4 DEF SessionOf
  <2> QED BY <1>4, <2>1, <2>4 DEF dut_uart_close
<1>5. CASE EnterInstalls(t)
  <2>1. /\ phase'[t] = "mark" /\ rest'[t] = rest[t] /\ ~s_uart_open' /\ driver'
    BY <1>5 DEF EnterInstalls, Goto
  <2> QED BY <1>0, <2>1 DEF SessionOf
<1>6. CASE EnterMarksOpen(t)
  <2>1. /\ phase[t] = "mark" /\ phase'[t] = "opened" /\ rest'[t] = rest[t] /\ s_uart_open' /\ driver'
    BY <1>6 DEF EnterMarksOpen, Goto, SessionOf
  <2>2. rest[t] # <<>> /\ Head(rest[t]) = "enter" BY <2>1 DEF Placed, At
  <2>3. 1 \in 1..Len(rest[t]) /\ rest[t][1] = "enter" BY <1>0, <2>2, TailOf
  <2>4. Ahead(rest[t], "exit") /\ ~Ahead(rest[t], "fixture")
    BY <1>0, <2>3 DEF Leaving, Ahead
  <2> QED BY <1>0, <1>6, <2>1, <2>4 DEF SessionOf, EnterMarksOpen
<1>7. CASE EnterCannotOpen(t)
  <2>1. phase[t] = "ready" /\ ~s_uart_open /\ driver BY <1>7 DEF EnterCannotOpen, Ready
  <2> QED BY <2>1 DEF SessionOf
<1>8. CASE ReadIdListens(t)
  <2>1. phase[t] = "ready" /\ ~driver /\ driver' /\ s_uart_open' = s_uart_open
        /\ phase'[t] = "listen" /\ rest'[t] = rest[t]
    BY <1>8 DEF ReadIdListens, Ready, Goto
  <2> QED BY <1>0, <2>1 DEF SessionOf
<1>9. CASE ReadIdDone(t)
  <2>1. phase[t] = "listen" /\ driver' = FALSE /\ s_uart_open' = s_uart_open
        /\ phase'[t] = "ready" /\ rest'[t] = Tail(rest[t]) /\ rest[t] # <<>>
    BY <1>9 DEF ReadIdDone, Finish, Placed
  <2> QED BY <1>0, <2>1 DEF SessionOf
<1>10. CASE FixtureStarts(t)
  <2>1. /\ phase[t] = "ready" /\ rest[t] # <<>> /\ Head(rest[t]) = "fixture"
        /\ s_uart_open' = FALSE /\ driver' = driver
        /\ phase'[t] = "fixture" /\ rest'[t] = rest[t]
    BY <1>10 DEF FixtureStarts, Ready, At, Goto
  <2>2. 1 \in 1..Len(rest[t]) /\ rest[t][1] = "fixture" BY <1>0, <2>1, TailOf
  <2>3. Ahead(rest[t], "fixture") BY <2>2 DEF Ahead
  <2>4. ~s_uart_open /\ ~driver BY <2>1, <2>3 DEF SessionOf
  <2> QED BY <1>0, <2>1, <2>4 DEF SessionOf
<1> QED BY <1>1, <1>2, <1>3, <1>4, <1>5, <1>6, <1>7, <1>8, <1>9, <1>10, SessionCases

LEMMA InitSession == Init => SessionInv
  BY DEF Init, SessionInv, SessionClosed

LEMMA NextSession ==
  ASSUME TypeOK, AnswerInv, SessionInv, [Next]_vars
  PROVE  SessionInv'
<1> USE DEF TypeOK
<1> DEFINE Closed == Idle => ~s_uart_open /\ ~driver
           Sessions == \A t \in Threads : phase[t] # "idle" => SessionOf(t)
<1>0. Placed /\ Turns /\ (Orderly' => Orderly)
  BY ScenarioStays DEF AnswerInv, Orderly
<1>1. SUFFICES ASSUME Orderly PROVE Closed' /\ Sessions'
  BY <1>0 DEF SessionInv, SessionClosed
<1>2. /\ Closed /\ Sessions
      /\ \A t, u \in Threads : phase[t] # "idle" /\ phase[u] # "idle" => t = u
  BY <1>0, <1>1 DEF SessionInv, SessionClosed, Orderly, Turns
<1>3. ASSUME NEW t \in Threads, NEW p \in Recipes[scenario] \cup Commands[scenario], Start(t, p)
      PROVE  Closed' /\ Sessions'
  <2>1. /\ \A u \in Threads : phase[u] = "idle"
        /\ phase' = [phase EXCEPT ![t] = "ready"] /\ rest'[t] = p
        /\ UNCHANGED <<s_uart_open, driver>>
    BY <1>1, <1>3 DEF Start, Orderly, port
  <2>2. s_uart_open' = FALSE /\ driver' = FALSE BY <1>2, <2>1 DEF Idle
  <2>3. Leaving(p)
    <3>1. p \in Seq(Steps) /\ DOMAIN p = 1..Len(p) BY ProgramsAssumption
    <3>2. Leaves(p) BY <1>1 DEF Orderly
    <3> QED BY <3>1, <3>2 DEF Leaves, Leaving, Ahead
  <2>4. SessionOf(t)' BY <2>1, <2>2, <2>3 DEF SessionOf
  <2> QED BY <2>1, <2>2, <2>4 DEF Idle
<1>4. ASSUME NEW t \in Threads, TaskStep(t) PROVE Closed' /\ Sessions'
  <2>1. /\ phase[t] # "idle" /\ SessionOf(t)
        /\ \A u \in Threads : phase'[u] # "idle" => u = t
    <3>1. \A u \in Threads : phase'[u] # "idle" => phase[u] # "idle" BY <1>0, <1>4, TaskKeepsBoard
    <3>2. phase[t] # "idle" BY <1>0, <1>4, TaskIsActive
    <3> QED BY <1>2, <3>1, <3>2
  <2>2. IF phase'[t] = "idle" THEN ~s_uart_open' /\ ~driver' ELSE SessionOf(t)'
    BY <1>0, <1>4, <2>1, TaskSession
  <2> QED BY <2>1, <2>2 DEF Idle
<1>5. ASSUME UNCHANGED <<phase, rest, s_uart_open, driver>> PROVE Closed' /\ Sessions'
  <2>1. \A t \in Threads : SessionOf(t) => SessionOf(t)' BY <1>5 DEF SessionOf
  <2> QED BY <1>2, <1>5, <2>1 DEF Idle
<1>6. ASSUME Dut \/ (\E b \in Boards : SeatBoard(b)) \/ UNCHANGED vars
      PROVE  UNCHANGED <<phase, rest, s_uart_open, driver>>
  BY <1>6 DEF Dut, DutAnswers, Answers, DutIgnores, DutIsSilent, PowerIsCut, SeatBoard, port, vars
<1> HIDE DEF Closed, Sessions
<1> QED BY <1>3, <1>4, <1>5, <1>6 DEF Next, TaskStep, Threads

(***************************************************************************)
(* SessionClosed: where every program that enters test mode leaves it, one *)
(* program after another, the port is closed and its driver gone between   *)
(* programs, whatever the DUT answered or left unanswered.                 *)
(***************************************************************************)
THEOREM PortIsClosed == Spec => []SessionClosed
<1>1. Init => SessionInv BY InitSession
<1>2. TypeOK /\ AnswerInv /\ SessionInv /\ [Next]_vars => SessionInv' BY NextSession
<1>3. SessionInv => SessionClosed BY DEF SessionInv, SessionClosed
<1> QED BY <1>1, <1>2, <1>3, Answering, PTL DEF Spec

-----------------------------------------------------------------------------
(***************************************************************************)
(* A board that answers in time passes.                                    *)
(***************************************************************************)
\* A DUT for which the steps in done have been prepared can follow p.
CanFollow(p, done) ==
  \A s \in Preparing, i \in 1..Len(p) : p[i] \in NeededBy(s) =>
    \/ s \in done /\ \A k \in 1..(i - 1) : p[k] \notin UndoneBy(s)
    \/ \E j \in 1..(i - 1) : p[j] = s /\ \A k \in (j + 1)..(i - 1) : p[k] \notin UndoneBy(s)

PortUp == s_uart_open /\ driver /\ powered

\* A line that the step of t judges well.
GoodLine(t, line) ==
  /\ line.ok /\ line.cmd = cmd[t]
  /\ cmd[t] = "adc_read" => line.vref
  /\ cmd[t] = "adc_read" /\ At(t, "branch_test") => line.branch
  /\ At(t, "button_test") => line.low = PulledLow("button_test", nth[t])

\* The command of t is under way to the DUT, or its answer on the way back.
Exchange(t) ==
  \/ todo = <<cmd[t]>> /\ rx = <<>>
  \/ todo = <<>> /\ Len(rx) = 1 /\ GoodLine(t, rx[1])
Served(t) == phase[t] = "answered" \/ (phase[t] = "sent" /\ todo = <<>>)

\* The DUT is in test mode, and nothing else than t's command is under way.
Session(t) ==
  /\ PortUp /\ testMode
  /\ phase[t] = "sent" => Exchange(t)
  /\ phase[t] # "sent" => todo = <<>>

\* What comes after the current step, and what will have been prepared then.
InStep(t, s) == phase[t] # "ready" /\ At(t, s)
Later(t) == IF phase[t] = "ready" THEN rest[t] ELSE Tail(rest[t])
WillTest(t) == InStep(t, "enter") \/ (Session(t) /\ ~InStep(t, "exit"))
WillBeHigh(t) == vref \/ InStep(t, "pc5_high")
Done(t) ==
  {s \in Preparing : \/ s = "power_on" /\ powered
                     \/ s = "enter" /\ WillTest(t)
                     \/ s = "pc5_high" /\ WillBeHigh(t)}

EnterGoesWell(t) ==
  /\ phase[t] \in {"mark", "opened", "sent", "answered"} /\ powered
  /\ phase[t] # "mark" => PortUp
  /\ phase[t] \in {"sent", "answered"} => cmd[t] = "enter"
  /\ phase[t] = "sent" => Exchange(t)
  /\ Served(t) => testMode
  /\ phase[t] = "answered" => answer[t].ok /\ todo = <<>>

ExitGoesWell(t) ==
  /\ phase[t] \in {"sent", "answered", "close", "clear"}
  /\ phase[t] = "sent" => PortUp /\ cmd[t] = "exit" /\ Exchange(t) /\ (todo # <<>> => testMode)
  /\ phase[t] = "answered" => answer[t].ok

\* What a step has asked, and how the DUT is when it answers.
Asked(t) ==
  /\ phase[t] # "enabled" => cmd[t] \in Steps \ {"enter", "exit"}
  /\ At(t, "pc5_high") => cmd[t] = "pc5_high"
  /\ phase[t] = "enabled" \/ cmd[t] = "adc_read" \/ (cmd[t] = "pc5_high" /\ Served(t)) => vref
  /\ At(t, "adc_read") /\ phase[t] # "enabled" => cmd[t] \in {"pc5_high", "adc_read"}
AskedBranch(t) ==
  /\ vref /\ fine[t] /\ nth[t] \in 1..4 /\ cmd[t] = Script["branch_test"][nth[t]]
  /\ nth[t] \in {2, 3} \/ (nth[t] = 1 /\ Served(t)) => branch
AskedButton(t) ==
  /\ fine[t] /\ nth[t] \in 1..3 /\ cmd[t] = "pin_read"
  /\ pressed = PulledLow("button_test", nth[t])

CommandGoesWell(t) ==
  /\ phase[t] \in {"sent", "answered", "enabled"} /\ Session(t) /\ Asked(t)
  /\ At(t, "branch_test") => AskedBranch(t)
  /\ At(t, "button_test") => AskedButton(t)
  /\ phase[t] = "answered" => GoodLine(t, answer[t])

StepGoesWell(t) ==
  phase[t] # "ready" =>
    \/ At(t, "enter") /\ EnterGoesWell(t)
    \/ At(t, "exit") /\ ExitGoesWell(t)
    \/ Head(rest[t]) \in Gated /\ CommandGoesWell(t)
    \/ At(t, "raw") /\ phase[t] \in {"sent", "answered"} /\ cmd[t] = "raw"
    \/ At(t, "read_id") /\ phase[t] = "listen"
    \/ At(t, "fixture") /\ phase[t] \in {"fixture", "close", "clear"} /\ ~s_uart_open

NoFail(t) == \A s \in Steps : verdict[t][s] # "fail"
Follows(t) == CanFollow(Later(t), Done(t))
GoodTask(t) == NoFail(t) /\ StepGoesWell(t) /\ Follows(t)
GoodInv == Followed => \A t \in Threads : phase[t] # "idle" /\ ~missed => GoodTask(t)

LEMMA CanFollowTail ==
  ASSUME NEW p \in Seq(Steps), p # <<>>, NEW done, NEW then, CanFollow(p, done),
         \A s \in Preparing : Head(p) = s \/ (s \in done /\ Head(p) \notin UndoneBy(s)) => s \in then
  PROVE  CanFollow(Tail(p), then)
<1>1. /\ Len(p) \in Nat \ {0} /\ Len(Tail(p)) = Len(p) - 1 /\ Head(p) = p[1]
      /\ \A i \in 1..Len(Tail(p)) : Tail(p)[i] = p[i + 1] /\ i + 1 \in 1..Len(p)
  BY TailOf
<1> SUFFICES ASSUME NEW s \in Preparing, NEW i \in 1..Len(Tail(p)), Tail(p)[i] \in NeededBy(s)
             PROVE  \/ s \in then /\ \A k \in 1..(i - 1) : Tail(p)[k] \notin UndoneBy(s)
                    \/ \E j \in 1..(i - 1) : /\ Tail(p)[j] = s
                                             /\ \A k \in (j + 1)..(i - 1) : Tail(p)[k] \notin UndoneBy(s)
  BY DEF CanFollow
<1>2. i \in Nat /\ p[i + 1] \in NeededBy(s) /\ i + 1 \in 1..Len(p) /\ (i + 1) - 1 = i BY <1>1
<1>3. \A k \in 1..(i - 1) : Tail(p)[k] = p[k + 1] /\ k + 1 \in 2..i
  BY <1>1, <1>2
<1>4. \/ s \in done /\ \A k \in 1..i : p[k] \notin UndoneBy(s)
      \/ \E j \in 1..i : p[j] = s /\ \A k \in (j + 1)..i : p[k] \notin UndoneBy(s)
  BY <1>2 DEF CanFollow
<1>5. CASE s \in done /\ \A k \in 1..i : p[k] \notin UndoneBy(s)
  <2>1. 1 \in 1..i BY <1>1, <1>2
  <2>2. s \in then BY <1>1, <1>5, <2>1
  <2>3. \A k \in 1..(i - 1) : k + 1 \in 1..i BY <1>2
  <2> QED BY <1>3, <1>5, <2>2, <2>3
<1>6. CASE \E j \in 1..i : p[j] = s /\ \A k \in (j + 1)..i : p[k] \notin UndoneBy(s)
  <2>1. PICK j \in 1..i : p[j] = s /\ \A k \in (j + 1)..i : p[k] \notin UndoneBy(s) BY <1>6
  <2>2. CASE j = 1
    <3>1. s \in then BY <1>1, <2>1, <2>2
    <3>2. \A k \in 1..(i - 1) : k + 1 \in (j + 1)..i BY <1>2, <2>2
    <3> QED BY <1>3, <2>1, <3>1, <3>2
  <2>3. CASE j # 1
    <3>1. j - 1 \in 1..(i - 1) /\ (j - 1) + 1 = j BY <1>2, <2>1, <2>3
    <3>2. Tail(p)[j - 1] = s BY <1>3, <2>1, <3>1
    <3>3. \A k \in ((j - 1) + 1)..(i - 1) : k \in 1..(i - 1) /\ k + 1 \in (j + 1)..i
      BY <1>2, <2>1, <2>3
    <3>4. \A k \in ((j - 1) + 1)..(i - 1) : Tail(p)[k] \notin UndoneBy(s) BY <1>3, <2>1, <3>3
    <3> QED BY <3>1, <3>2, <3>4
  <2> QED BY <2>2, <2>3
<1> QED BY <1>4, <1>5, <1>6

LEMMA CanFollowHead ==
  ASSUME NEW p \in Seq(Steps), p # <<>>, NEW done, CanFollow(p, done)
  PROVE  /\ Head(p) = "enter" => "power_on" \in done
         /\ Head(p) \in Gated \cup {"exit"} => "enter" \in done
         /\ Head(p) \in {"adc_read", "branch_test"} => "pc5_high" \in done
<1>1. Len(p) \in Nat \ {0} /\ Head(p) = p[1] /\ 1 \in 1..Len(p) BY TailOf
<1>2. ASSUME NEW s \in Preparing, p[1] \in NeededBy(s) PROVE s \in done
  <2>1. 1..(1 - 1) = {} OBVIOUS
  <2> QED BY <1>1, <1>2, <2>1 DEF CanFollow
<1>3. /\ NeededBy("power_on") = {"enter"} /\ NeededBy("enter") = Gated \cup {"exit"}
      /\ NeededBy("pc5_high") = {"adc_read", "branch_test"}
  BY DEF NeededBy
<1> QED BY <1>1, <1>2, <1>3 DEF Preparing

LEMMA CanFollowMore ==
  ASSUME NEW p, NEW done, NEW then, CanFollow(p, done), done \subseteq then
  PROVE  CanFollow(p, then)
  BY DEF CanFollow

LEMMA PreparedFollows ==
  ASSUME NEW p \in Seq(Steps), Prepared(p), NEW done
  PROVE  CanFollow(p, done)
<1>1. Len(p) \in Nat /\ DOMAIN p = 1..Len(p) OBVIOUS
<1> SUFFICES ASSUME NEW s \in Preparing, NEW i \in 1..Len(p), p[i] \in NeededBy(s)
             PROVE  \E j \in 1..(i - 1) : p[j] = s /\ \A k \in (j + 1)..(i - 1) : p[k] \notin UndoneBy(s)
  BY DEF CanFollow
<1>2. PICK j \in 1..Len(p) : /\ j < i /\ p[j] = s
                             /\ \A k \in 1..Len(p) : j < k /\ k < i => p[k] \notin UndoneBy(s)
  BY <1>1 DEF Prepared
<1>3. j \in 1..(i - 1) /\ \A k \in (j + 1)..(i - 1) : k \in 1..Len(p) /\ j < k /\ k < i
  BY <1>1, <1>2
<1> QED BY <1>2, <1>3

\* The rest of a program goes on as it could,
LEMMA FollowsOn ==
  ASSUME NEW t \in Threads, Follows(t), Later(t)' = Later(t),
         powered => powered', WillTest(t) => WillTest(t)', WillBeHigh(t) => WillBeHigh(t)'
  PROVE  Follows(t)'
<1>1. Done(t) \subseteq Done(t)' BY DEF Done
<1>2. CanFollow(Later(t), Done(t)) BY DEF Follows
<1>3. CanFollow(Later(t), Done(t)') BY <1>1, <1>2, CanFollowMore
<1>4. CanFollow(Later(t)', Done(t)') BY <1>3
<1> QED BY <1>4 DEF Follows

\* when a step begins or is done at once too.
LEMMA FollowsNext ==
  ASSUME TypeOK, NEW t \in Threads, phase[t] = "ready", rest[t] # <<>>, Follows(t),
         Later(t)' = Tail(rest[t]),
         At(t, "power_on") \/ (powered /\ ~At(t, "power_off")) => powered',
         At(t, "enter") \/ (Session(t) /\ ~At(t, "exit") /\ ~At(t, "power_off")) => WillTest(t)',
         At(t, "pc5_high") \/ (vref /\ ~At(t, "power_off")) => WillBeHigh(t)'
  PROVE  Follows(t)'
<1>1. rest[t] \in Seq(Steps) BY DEF TypeOK
<1>2. CanFollow(rest[t], Done(t)) BY DEF Follows, Later
<1>3. ASSUME NEW s \in Preparing, Head(rest[t]) = s \/ (s \in Done(t) /\ Head(rest[t]) \notin UndoneBy(s))
      PROVE  s \in Done(t)'
  <2>1. CASE s = "power_on"
    <3>1. UndoneBy(s) = {"power_off"} BY <2>1 DEF UndoneBy
    <3>2. s \in Done(t) => powered BY <2>1 DEF Done
    <3>3. powered' BY <1>3, <2>1, <3>1, <3>2 DEF At
    <3> QED BY <2>1, <3>3 DEF Done
  <2>2. CASE s = "enter"
    <3>1. UndoneBy(s) = {"exit", "power_off"} BY <2>2 DEF UndoneBy
    <3>2. s \in Done(t) => Session(t) BY <2>2 DEF Done, WillTest, InStep
    <3>3. WillTest(t)' BY <1>3, <2>2, <3>1, <3>2 DEF At
    <3> QED BY <2>2, <3>3 DEF Done
  <2>3. CASE s = "pc5_high"
    <3>1. UndoneBy(s) = {"power_off"} BY <2>3 DEF UndoneBy
    <3>2. s \in Done(t) => vref BY <2>3 DEF Done, WillBeHigh, InStep
    <3>3. WillBeHigh(t)' BY <1>3, <2>3, <3>1, <3>2 DEF At
    <3> QED BY <2>3, <3>3 DEF Done
  <2> QED BY <2>1, <2>2, <2>3 DEF Preparing
<1>4. CanFollow(Tail(rest[t]), Done(t)') BY <1>1, <1>2, <1>3, CanFollowTail
<1>5. CanFollow(Later(t)', Done(t)') BY <1>4
<1> QED BY <1>5 DEF Follows

\* What a step finds that can be followed.
LEMMA FindsReady ==
  ASSUME TypeOK, NEW t \in Threads, phase[t] = "ready", rest[t] # <<>>, Follows(t)
  PROVE  /\ At(t, "enter") => powered
         /\ Head(rest[t]) \in Gated \cup {"exit"} => Session(t)
         /\ At(t, "adc_read") \/ At(t, "branch_test") => vref
<1>1. rest[t] \in Seq(Steps) BY DEF TypeOK
<1>2. CanFollow(rest[t], Done(t)) BY DEF Follows, Later
<1>3. /\ "power_on" \in Done(t) => powered
      /\ "enter" \in Done(t) => Session(t)
      /\ "pc5_high" \in Done(t) => vref
  BY DEF Done, WillTest, WillBeHigh, InStep
<1> QED BY <1>1, <1>2, <1>3, CanFollowHead DEF At

LEMMA PassKept ==
  ASSUME TypeOK, NEW t \in Threads, NEW s \in Steps, NoFail(t), Record(t, s, TRUE)
  PROVE  NoFail(t)'
<1>1. verdict'[t] = [verdict[t] EXCEPT ![s] = "pass"] BY DEF TypeOK, Record
<1>2. verdict[t] \in [Steps -> {"none", "pass", "fail"}] BY DEF TypeOK
<1> QED BY <1>1, <1>2 DEF NoFail

\* Where a step of a task starts from.
Going(t) ==
  /\ TypeOK /\ Placed /\ SessionOf(t) /\ "late" \notin scenario /\ phase[t] # "idle" /\ GoodTask(t)

LEMMA GoodReadLine ==
  ASSUME NEW t \in Threads, Going(t), ReadLine(t)
  PROVE  GoodTask(t)'
<1> USE DEF TypeOK
<1>0. TypeOK /\ NoFail(t) /\ StepGoesWell(t) /\ Follows(t) BY DEF Going, GoodTask
<1>1. /\ phase[t] = "sent" /\ phase'[t] = "answered" /\ rx # <<>> /\ answer'[t] = Head(rx)
      /\ UNCHANGED <<rest, s_uart_open, driver, powered, testMode, vref, branch, todo, cmd, nth,
                     fine, pressed, verdict>>
  BY <1>0 DEF ReadLine, Goto, dut, composite
<1>2. Exchange(t) => todo = <<>> /\ GoodLine(t, Head(rx))
  <2>1. Head(rx) = rx[1] BY <1>0, <1>1, TailOf
  <2> QED BY <1>1, <2>1 DEF Exchange
<1>3. GoodLine(t, Head(rx)) => GoodLine(t, answer[t])' BY <1>1 DEF GoodLine, At
<1>4. Session(t) => Session(t)' BY <1>1, <1>2 DEF Session, PortUp
<1>5. \A s : At(t, s)' <=> At(t, s) BY <1>1 DEF At
<1>6. StepGoesWell(t)'
  <2>1. CASE At(t, "enter") /\ EnterGoesWell(t)
    <3>1. answer'[t].ok BY <1>1, <1>2, <2>1 DEF EnterGoesWell, GoodLine
    <3>2. EnterGoesWell(t)' BY <1>1, <1>2, <2>1, <3>1 DEF EnterGoesWell, Served, PortUp
    <3> QED BY <1>5, <2>1, <3>2 DEF StepGoesWell
  <2>2. CASE At(t, "exit") /\ ExitGoesWell(t)
    <3>1. answer'[t].ok BY <1>1, <1>2, <2>2 DEF ExitGoesWell, GoodLine
    <3>2. ExitGoesWell(t)' BY <1>1, <3>1 DEF ExitGoesWell
    <3> QED BY <1>5, <2>2, <3>2 DEF StepGoesWell
  <2>3. CASE Head(rest[t]) \in Gated /\ CommandGoesWell(t)
    <3>1. Exchange(t) /\ Session(t) /\ Asked(t) BY <1>1, <2>3 DEF CommandGoesWell, Session
    <3>2. Served(t) BY <1>1, <1>2, <3>1 DEF Served
    <3>3. Asked(t)' BY <1>1, <1>5, <3>1, <3>2 DEF Asked
    <3>4. AskedBranch(t) => AskedBranch(t)' BY <1>1, <3>2 DEF AskedBranch
    <3>5. AskedButton(t) => AskedButton(t)' BY <1>1 DEF AskedButton
    <3>6. CommandGoesWell(t)'
      BY <1>1, <1>2, <1>3, <1>4, <1>5, <2>3, <3>1, <3>3, <3>4, <3>5 DEF CommandGoesWell
    <3> QED BY <1>1, <2>3, <3>6 DEF StepGoesWell
  <2>4. CASE At(t, "raw") /\ cmd[t] = "raw" BY <1>1, <1>5, <2>4 DEF StepGoesWell
  <2> QED BY <1>0, <1>1, <2>1, <2>2, <2>3, <2>4 DEF StepGoesWell
<1>7. Follows(t)'
  <2>1. WillTest(t) => WillTest(t)' BY <1>1, <1>4, <1>5 DEF WillTest, InStep
  <2>2. WillBeHigh(t) => WillBeHigh(t)' BY <1>1, <1>5 DEF WillBeHigh, InStep
  <2>3. Later(t)' = Later(t) BY <1>1 DEF Later
  <2> QED BY <1>0, <1>1, <2>1, <2>2, <2>3, FollowsOn
<1>8. NoFail(t)' BY <1>0, <1>1 DEF NoFail
<1> QED BY <1>6, <1>7, <1>8 DEF GoodTask

\* Only dut raw outside test mode is not answered.
LEMMA GoodTimeout ==
  ASSUME NEW t \in Threads, Going(t), Timeout(t), ~missed'
  PROVE  GoodTask(t)'
<1> USE DEF TypeOK
<1>0. TypeOK /\ NoFail(t) /\ StepGoesWell(t) /\ Follows(t) BY DEF Going, GoodTask
<1>1. /\ phase[t] = "sent" /\ phase'[t] = "answered" /\ rx = <<>> /\ todo = <<>>
      /\ UNCHANGED <<rest, powered, vref, cmd, verdict>>
  BY <1>0 DEF Timeout, Goto, dut
<1>2. ~Exchange(t)
  <2>1. Len(rx) = 0 BY <1>1
  <2>2. Len(<<cmd[t]>>) = 1 /\ Len(todo) = 0 BY <1>1
  <2> QED BY <2>1, <2>2 DEF Exchange
<1>3. ~Session(t) BY <1>1, <1>2 DEF Session
<1>4. At(t, "raw") /\ cmd[t] = "raw"
  BY <1>0, <1>1, <1>2, <1>3 DEF StepGoesWell, EnterGoesWell, ExitGoesWell, CommandGoesWell
<1>5. ~At(t, "enter") BY <1>4 DEF At
<1>6. Follows(t)'
  <2>1. ~WillTest(t) BY <1>3, <1>5 DEF WillTest, InStep
  <2>2. WillBeHigh(t) => WillBeHigh(t)' BY <1>1 DEF WillBeHigh, InStep, At
  <2>3. Later(t)' = Later(t) BY <1>1 DEF Later
  <2> QED BY <1>0, <1>1, <2>1, <2>2, <2>3, FollowsOn
<1>7. StepGoesWell(t)' BY <1>1, <1>4 DEF StepGoesWell, At
<1> QED BY <1>0, <1>1, <1>6, <1>7 DEF GoodTask, NoFail

LEMMA GoodClose ==
  ASSUME NEW t \in Threads, Going(t), dut_uart_close(t)
  PROVE  GoodTask(t)'
<1> USE DEF TypeOK
<1>0. TypeOK /\ Placed /\ SessionOf(t) /\ NoFail(t) /\ StepGoesWell(t) /\ Follows(t)
  BY DEF Going, GoodTask
<1>1. /\ phase[t] \in {"close", "clear"} /\ phase'[t] \in {"ready", "clear"}
      /\ UNCHANGED <<powered, vref, verdict>>
  BY <1>0 DEF dut_uart_close, CloseDelete, CloseClear, CloseNothing, Goto, AfterClose, dut
<1>2. /\ At(t, "exit") \/ (At(t, "fixture") /\ ~s_uart_open)
      /\ ~At(t, "enter") /\ rest[t] # <<>>
  BY <1>0, <1>1
     DEF StepGoesWell, EnterGoesWell, CommandGoesWell, Placed, At
<1>3. CASE CloseDelete(t)
  <2>1. At(t, "exit") /\ phase'[t] = "clear" /\ rest'[t] = rest[t]
    BY <1>0, <1>2, <1>3 DEF CloseDelete, CloseIfOpen, Goto
  <2>2. StepGoesWell(t)' BY <2>1 DEF StepGoesWell, ExitGoesWell, At
  <2>3. Later(t)' = Later(t) BY <1>1, <2>1 DEF Later
  <2>4. ~WillTest(t) BY <1>1, <1>2, <2>1 DEF WillTest, InStep
  <2>5. WillBeHigh(t) => WillBeHigh(t)' BY <1>1, <2>1 DEF WillBeHigh, InStep, At
  <2>6. Follows(t)' BY <1>0, <1>1, <2>3, <2>4, <2>5, FollowsOn
  <2> QED BY <1>0, <1>1, <2>2, <2>6 DEF GoodTask, NoFail
<1>4. CASE CloseClear(t) \/ CloseNothing(t)
  <2>1. phase'[t] = "ready" /\ rest'[t] = Tail(rest[t])
    BY <1>0, <1>2, <1>4 DEF CloseClear, CloseNothing, AfterClose
  <2>2. Later(t)' = Later(t) BY <1>1, <2>1 DEF Later
  <2>3. ~WillTest(t)
    <3>1. ~s_uart_open => ~Session(t) BY DEF Session, PortUp
    <3> QED BY <1>1, <1>2, <3>1 DEF WillTest, InStep
  <2>4. ~At(t, "pc5_high") BY <1>2 DEF At
  <2>5. WillBeHigh(t) => WillBeHigh(t)' BY <1>1, <2>4 DEF WillBeHigh, InStep
  <2>6. Follows(t)' BY <1>0, <1>1, <2>2, <2>3, <2>5, FollowsOn
  <2> QED BY <1>0, <1>1, <2>1, <2>6 DEF GoodTask, NoFail, StepGoesWell
<1> QED BY <1>3, <1>4 DEF dut_uart_close

\* dut_cmd sends to a powered DUT.
LEMMA SendGoes ==
  ASSUME TypeOK, NEW t \in Threads, "late" \notin scenario, NEW c, Send(t, c),
         UNCHANGED <<s_uart_open, driver, powered, testMode>>
  PROVE  /\ phase'[t] = "sent" /\ rest' = rest /\ cmd'[t] = c
         /\ PortUp => PortUp' /\ Exchange(t)' /\ todo' # <<>>
         /\ Session(t) /\ phase[t] # "sent" => Session(t)'
<1> USE DEF TypeOK
<1>1. /\ phase'[t] = "sent" /\ rest' = rest /\ cmd'[t] = c /\ rx' = <<>> /\ todo = <<>>
  BY DEF Send, Goto, FlushInput
<1>2. ASSUME PortUp PROVE PortUp' /\ Exchange(t)' /\ todo' # <<>>
  <2>1. todo' = Append(<<>>, c) BY <1>1, <1>2 DEF PortUp, Send
  <2>2. todo' = <<c>> BY <2>1
  <2>3. todo' # <<>> BY <2>2
  <2> QED BY <1>1, <1>2, <2>2, <2>3 DEF PortUp, Exchange
<1>3. ASSUME Session(t) PROVE Session(t)' BY <1>1, <1>2, <1>3 DEF Session, PortUp
<1> QED BY <1>1, <1>2, <1>3

LEMMA GoodEnter ==
  ASSUME NEW t \in Threads, Going(t), run_dut_enter_test(t)
  PROVE  GoodTask(t)'
<1> USE DEF TypeOK
<1>0. /\ TypeOK /\ Placed /\ SessionOf(t) /\ "late" \notin scenario
      /\ NoFail(t) /\ StepGoesWell(t) /\ Follows(t)
  BY DEF Going, GoodTask
<1>1. UNCHANGED <<powered, testMode, vref>>
  BY DEF run_dut_enter_test, EnterAlreadyOpen, EnterInstalls, EnterMarksOpen, EnterCannotOpen,
         EnterSends, EnterDone, dut
<1>2. ASSUME At(t, "enter"), phase[t] = "ready", phase'[t] # "ready", rest' = rest
      PROVE  Follows(t)' /\ powered
  <2>1. rest[t] # <<>> /\ ~At(t, "power_off") /\ ~At(t, "pc5_high") BY <1>2 DEF At
  <2>2. powered BY <1>0, <1>2, <2>1, FindsReady
  <2>3. Later(t)' = Tail(rest[t]) BY <1>2 DEF Later
  <2>4. WillTest(t)' BY <1>2 DEF WillTest, InStep, At
  <2>5. vref => WillBeHigh(t)' BY <1>1 DEF WillBeHigh
  <2> QED BY <1>0, <1>1, <1>2, <2>1, <2>2, <2>3, <2>4, <2>5, FollowsNext
<1>3. ASSUME At(t, "enter"), phase[t] # "ready", phase'[t] # "ready", rest' = rest
      PROVE  Follows(t)'
  <2>1. ~At(t, "pc5_high") BY <1>3 DEF At
  <2>2. Later(t)' = Later(t) BY <1>3 DEF Later
  <2>3. WillTest(t)' BY <1>3 DEF WillTest, InStep, At
  <2>4. WillBeHigh(t) => WillBeHigh(t)' BY <1>1, <2>1 DEF WillBeHigh, InStep
  <2> QED BY <1>0, <1>1, <1>3, <2>2, <2>3, <2>4, FollowsOn
<1>4. At(t, "enter") /\ phase[t] # "ready" => EnterGoesWell(t)
  BY <1>0 DEF StepGoesWell, At, Gated, Simple, Asking, Setting, Composite
<1>5. CASE EnterAlreadyOpen(t)
  <2>1. /\ At(t, "enter") /\ phase[t] = "ready" /\ phase'[t] = "opened" /\ rest' = rest
        /\ s_uart_open /\ UNCHANGED <<s_uart_open, driver, verdict>>
    BY <1>0, <1>5 DEF EnterAlreadyOpen, Ready, Goto, port
  <2>2. driver BY <1>0, <2>1 DEF SessionOf
  <2>3. Follows(t)' /\ powered BY <1>2, <2>1
  <2>4. EnterGoesWell(t)' BY <1>1, <2>1, <2>2, <2>3 DEF EnterGoesWell, PortUp, Served
  <2> QED BY <1>0, <2>1, <2>3, <2>4 DEF GoodTask, NoFail, StepGoesWell, At
<1>6. CASE EnterInstalls(t)
  <2>1. /\ At(t, "enter") /\ phase[t] = "ready" /\ phase'[t] = "mark" /\ rest' = rest
        /\ UNCHANGED verdict
    BY <1>0, <1>6 DEF EnterInstalls, Ready, Goto
  <2>2. Follows(t)' /\ powered BY <1>2, <2>1
  <2>3. EnterGoesWell(t)' BY <1>1, <2>1, <2>2 DEF EnterGoesWell, Served
  <2> QED BY <1>0, <2>1, <2>2, <2>3 DEF GoodTask, NoFail, StepGoesWell, At
<1>7. CASE EnterMarksOpen(t)
  <2>1. /\ phase[t] = "mark" /\ phase'[t] = "opened" /\ rest' = rest
        /\ s_uart_open' /\ driver' = driver /\ UNCHANGED verdict
    BY <1>0, <1>7 DEF EnterMarksOpen, Goto
  <2>2. At(t, "enter") /\ driver BY <1>0, <2>1 DEF Placed, SessionOf
  <2>3. powered BY <1>4, <2>1, <2>2 DEF EnterGoesWell
  <2>4. EnterGoesWell(t)' BY <1>1, <2>1, <2>2, <2>3 DEF EnterGoesWell, PortUp, Served
  <2> QED BY <1>0, <1>3, <2>1, <2>2, <2>4 DEF GoodTask, NoFail, StepGoesWell, At
<1>8. CASE EnterCannotOpen(t)
  BY <1>0, <1>8 DEF EnterCannotOpen, Ready, SessionOf
<1>9. CASE EnterSends(t)
  <2>1. phase[t] = "opened" /\ At(t, "enter") /\ UNCHANGED verdict
    BY <1>0, <1>9 DEF EnterSends, Placed
  <2>2. PortUp BY <1>4, <2>1 DEF EnterGoesWell
  <2>3. Send(t, "enter") /\ UNCHANGED <<s_uart_open, driver>>
    BY <1>9, <2>2 DEF EnterSends, PortUp
  <2>4. /\ phase'[t] = "sent" /\ rest' = rest /\ cmd'[t] = "enter"
        /\ PortUp' /\ Exchange(t)' /\ todo' # <<>>
    BY <1>0, <1>1, <2>2, <2>3, SendGoes
  <2>5. EnterGoesWell(t)' BY <2>4 DEF EnterGoesWell, PortUp, Served
  <2> QED BY <1>0, <1>3, <2>1, <2>4, <2>5 DEF GoodTask, NoFail, StepGoesWell, At
<1>10. CASE EnterDone(t)
  <2>1. phase[t] = "answered" /\ At(t, "enter") /\ UNCHANGED <<port, todo>>
    BY <1>10 DEF EnterDone
  <2>2. PortUp /\ testMode /\ answer[t].ok /\ todo = <<>>
    BY <1>4, <2>1 DEF EnterGoesWell, Served
  <2>3. Record(t, "enter", TRUE) /\ phase'[t] = "ready" /\ rest'[t] = Tail(rest[t])
    BY <1>0, <1>10, <2>2 DEF EnterDone, Finish, Record
  <2>4. "enter" \in Steps BY DEF Steps
  <2>5. NoFail(t)' BY <1>0, <2>3, <2>4, PassKept
  <2>6. Later(t)' = Later(t) BY <2>1, <2>3 DEF Later
  <2>7. Session(t)' BY <1>1, <2>1, <2>2, <2>3 DEF Session, PortUp, port
  <2>8. WillTest(t)' BY <2>3, <2>7 DEF WillTest, InStep
  <2>9. ~At(t, "pc5_high") BY <2>1 DEF At
  <2>10. WillBeHigh(t) => WillBeHigh(t)' BY <1>1, <2>9 DEF WillBeHigh, InStep
  <2>11. Follows(t)' BY <1>0, <1>1, <2>6, <2>8, <2>10, FollowsOn
  <2> QED BY <2>3, <2>5, <2>11 DEF GoodTask, StepGoesWell
<1> QED BY <1>5, <1>6, <1>7, <1>8, <1>9, <1>10 DEF run_dut_enter_test

LEMMA GoodPower ==
  ASSUME NEW t \in Threads, Going(t), PowerOn(t) \/ PowerOff(t)
  PROVE  GoodTask(t)'
<1> USE DEF TypeOK
<1>0. TypeOK /\ NoFail(t) /\ Follows(t) BY DEF Going, GoodTask
<1>1. /\ phase[t] = "ready" /\ phase'[t] = "ready" /\ rest[t] # <<>> /\ rest'[t] = Tail(rest[t])
      /\ UNCHANGED <<s_uart_open, driver, verdict>>
  BY <1>0 DEF PowerOn, PowerOff, Ready, At, Finish, port
<1>2. Later(t)' = Tail(rest[t]) BY <1>1 DEF Later
<1>3. \/ At(t, "power_on") /\ powered' /\ UNCHANGED <<testMode, todo, vref>>
      \/ At(t, "power_off")
  BY DEF PowerOn, PowerOff, Ready
<1>4. ~At(t, "enter") /\ ~At(t, "pc5_high") /\ ~At(t, "exit") /\ (At(t, "power_on") => ~At(t, "power_off"))
  BY <1>3 DEF At
<1>5. Session(t) /\ ~At(t, "power_off") => WillTest(t)'
  BY <1>1, <1>3 DEF Session, PortUp, WillTest, InStep
<1>6. Follows(t)'
  BY <1>0, <1>1, <1>2, <1>3, <1>4, <1>5, FollowsNext DEF WillBeHigh
<1> QED BY <1>0, <1>1, <1>6 DEF GoodTask, NoFail, StepGoesWell

\* The driver's other users find the session over, and dut_identify_uart may be refused.
LEMMA GoodOtherUser ==
  ASSUME NEW t \in Threads, Going(t), OtherUser(t)
  PROVE  GoodTask(t)'
<1> USE DEF TypeOK
<1>0. TypeOK /\ Placed /\ SessionOf(t) /\ NoFail(t) /\ StepGoesWell(t) /\ Follows(t)
  BY DEF Going, GoodTask
<1>1. UNCHANGED <<powered, testMode, vref, todo>>
  BY DEF OtherUser, ReadIdListens, ReadIdDone, ReadIdRefused, FixtureStarts, FixtureEnds, dut
<1>2. "read_id" \in Steps BY DEF Steps
<1>3. ASSUME At(t, "read_id") \/ At(t, "fixture"), phase[t] = "ready",
             Later(t)' = Tail(rest[t]), Session(t) => WillTest(t)'
      PROVE  Follows(t)'
  <2>1. rest[t] # <<>> /\ ~At(t, "enter") /\ ~At(t, "pc5_high") /\ ~At(t, "power_on") BY <1>3 DEF At
  <2>2. vref => WillBeHigh(t)' BY <1>1 DEF WillBeHigh
  <2> QED BY <1>0, <1>1, <1>3, <2>1, <2>2, FollowsNext
<1>4. ASSUME At(t, "read_id") \/ At(t, "fixture"), phase[t] # "ready", ~s_uart_open,
             Later(t)' = Later(t)
      PROVE  Follows(t)'
  <2>1. ~At(t, "enter") /\ ~At(t, "pc5_high") BY <1>4 DEF At
  <2>2. ~WillTest(t) BY <1>4, <2>1 DEF WillTest, InStep, Session, PortUp
  <2>3. WillBeHigh(t) => WillBeHigh(t)' BY <1>1, <2>1 DEF WillBeHigh, InStep
  <2> QED BY <1>0, <1>1, <1>4, <2>2, <2>3, FollowsOn
<1>5. CASE ReadIdListens(t)
  <2>1. /\ At(t, "read_id") /\ phase[t] = "ready" /\ ~driver /\ phase'[t] = "listen"
        /\ rest' = rest /\ UNCHANGED verdict
    BY <1>0, <1>5 DEF ReadIdListens, Ready, Goto
  <2>2. ~Session(t) BY <2>1 DEF Session, PortUp
  <2>3. Later(t)' = Tail(rest[t]) BY <2>1 DEF Later
  <2>4. Follows(t)' BY <1>3, <2>1, <2>2, <2>3
  <2> QED BY <1>0, <2>1, <2>4 DEF GoodTask, NoFail, StepGoesWell, At
<1>6. CASE ReadIdDone(t)
  <2>1. phase[t] = "listen" /\ phase'[t] = "ready" /\ rest'[t] = Tail(rest[t])
    BY <1>0, <1>6 DEF ReadIdDone, Finish
  <2>2. At(t, "read_id")
    BY <1>0, <2>1 DEF StepGoesWell, EnterGoesWell, ExitGoesWell, CommandGoesWell
  <2>3. ~s_uart_open BY <1>0, <2>1 DEF SessionOf
  <2>4. Later(t)' = Later(t) BY <2>1 DEF Later
  <2>5. Follows(t)' BY <1>4, <2>1, <2>2, <2>3, <2>4
  <2>6. NoFail(t)' BY <1>0, <1>2, <1>6, PassKept DEF ReadIdDone
  <2> QED BY <2>1, <2>5, <2>6 DEF GoodTask, StepGoesWell
<1>7. CASE ReadIdRefused(t)
  <2>1. /\ At(t, "read_id") /\ phase[t] = "ready" /\ phase'[t] = "ready" /\ rest'[t] = Tail(rest[t])
        /\ UNCHANGED <<s_uart_open, driver>>
    BY <1>0, <1>7 DEF ReadIdRefused, Ready, Finish, port
  <2>2. Session(t) => WillTest(t)' BY <1>1, <2>1 DEF Session, PortUp, WillTest, InStep
  <2>3. Later(t)' = Tail(rest[t]) BY <2>1 DEF Later
  <2>4. Follows(t)' BY <1>3, <2>1, <2>2, <2>3
  <2>5. NoFail(t)' BY <1>0, <1>2, <1>7, PassKept DEF ReadIdRefused
  <2> QED BY <2>1, <2>4, <2>5 DEF GoodTask, StepGoesWell
<1>8. CASE FixtureStarts(t)
  <2>1. /\ At(t, "fixture") /\ phase[t] = "ready" /\ ~s_uart_open' /\ phase'[t] = "fixture"
        /\ rest' = rest /\ UNCHANGED verdict
    BY <1>0, <1>8 DEF FixtureStarts, Ready, Goto
  <2>2. ~s_uart_open
    <3>1. rest[t][1] = "fixture" /\ 1 \in 1..Len(rest[t]) BY <1>0, <2>1, TailOf DEF At
    <3>2. Ahead(rest[t], "fixture") BY <3>1 DEF Ahead
    <3> QED BY <1>0, <2>1, <3>2 DEF SessionOf
  <2>3. ~Session(t) BY <2>2 DEF Session, PortUp
  <2>4. Later(t)' = Tail(rest[t]) BY <2>1 DEF Later
  <2>5. Follows(t)' BY <1>3, <2>1, <2>3, <2>4
  <2> QED BY <1>0, <2>1, <2>5 DEF GoodTask, NoFail, StepGoesWell, At
<1>9. CASE FixtureEnds(t)
  <2>1. /\ phase[t] = "fixture" /\ phase'[t] = "close" /\ rest' = rest
        /\ UNCHANGED <<s_uart_open, verdict>>
    BY <1>0, <1>9 DEF FixtureEnds, Goto, port
  <2>2. At(t, "fixture") /\ ~s_uart_open
    BY <1>0, <2>1 DEF StepGoesWell, EnterGoesWell, ExitGoesWell, CommandGoesWell
  <2>3. Later(t)' = Later(t) BY <2>1 DEF Later
  <2>4. Follows(t)' BY <1>4, <2>1, <2>2, <2>3
  <2> QED BY <1>0, <2>1, <2>2, <2>4 DEF GoodTask, NoFail, StepGoesWell, At
<1> QED BY <1>5, <1>6, <1>7, <1>8, <1>9 DEF OtherUser

LEMMA GatedSteps ==
  /\ Gated \subseteq Steps \ {"enter", "exit", "raw", "read_id", "fixture", "power_on", "power_off"}
  /\ Simple \cup Composite \cup {"version", "pc5_high", "adc_read"} = Gated
  /\ Composite = {"branch_test", "button_test"}
  /\ "version" \notin Simple \cup Composite /\ "pc5_high" \notin Simple \cup Composite
  /\ "adc_read" \notin Simple \cup Composite /\ "branch_test" \notin Simple /\ "button_test" \notin Simple
  BY DEF Gated, Steps, Simple, Composite, Asking, Setting

LEMMA GatedCommand ==
  ASSUME NEW t \in Threads, Going(t), phase[t] # "ready", Head(rest[t]) \in Gated
  PROVE  CommandGoesWell(t) /\ rest[t] # <<>>
<1>1. StepGoesWell(t) /\ Placed /\ phase[t] # "idle" BY DEF Going, GoodTask
<1>2. rest[t] # <<>> BY <1>1 DEF Placed
<1> QED BY <1>1, <1>2, GatedSteps DEF StepGoesWell, At

\* A command has been answered, and the step goes on to the next.
LEMMA GatedEnds ==
  ASSUME NEW t \in Threads, Going(t), phase[t] = "answered", Head(rest[t]) \in Gated, Finish(t),
         UNCHANGED <<port, todo, dut>>
  PROVE  /\ Session(t) /\ Asked(t) /\ GoodLine(t, answer[t]) /\ phase'[t] = "ready"
         /\ Follows(t)'
<1> USE DEF TypeOK
<1>0. TypeOK /\ Follows(t) BY DEF Going, GoodTask
<1>1. phase'[t] = "ready" /\ rest'[t] = Tail(rest[t]) BY <1>0 DEF Finish
<1>2. Session(t) /\ Asked(t) /\ GoodLine(t, answer[t])
  BY GatedCommand DEF CommandGoesWell
<1>3. Session(t)' BY <1>1, <1>2 DEF Session, PortUp, port, dut
<1>4. WillTest(t)' BY <1>1, <1>3 DEF WillTest, InStep
<1>5. At(t, "pc5_high") => vref BY <1>2 DEF Asked, Served
<1>6. WillBeHigh(t) => WillBeHigh(t)' BY <1>5 DEF WillBeHigh, InStep, dut
<1>7. Later(t)' = Later(t) BY <1>1 DEF Later
<1>8. powered' = powered BY DEF dut
<1>9. Follows(t)' BY <1>0, <1>4, <1>6, <1>7, <1>8, FollowsOn
<1> QED BY <1>1, <1>2, <1>9

\* A step sends its first command.
LEMMA GatedBegins ==
  ASSUME NEW t \in Threads, Going(t), phase[t] = "ready", Head(rest[t]) \in Gated, rest[t] # <<>>,
         NEW c \in Steps, Send(t, c), UNCHANGED <<s_uart_open, driver, dut>>
  PROVE  /\ phase'[t] = "sent" /\ rest' = rest /\ cmd'[t] = c /\ todo' # <<>>
         /\ Session(t)' /\ Follows(t)'
         /\ At(t, "adc_read") \/ At(t, "branch_test") => vref
<1>0. TypeOK /\ Follows(t) /\ "late" \notin scenario BY DEF Going, GoodTask
<1>1. Session(t) /\ (At(t, "adc_read") \/ At(t, "branch_test") => vref) BY <1>0, FindsReady
<1>2. /\ phase'[t] = "sent" /\ rest' = rest /\ cmd'[t] = c /\ todo' # <<>> /\ Session(t)'
  BY <1>0, <1>1, SendGoes DEF Session, dut
<1>3. Later(t)' = Tail(rest[t]) BY <1>2 DEF Later
<1>4. /\ ~At(t, "power_on") /\ ~At(t, "power_off") /\ ~At(t, "exit") BY GatedSteps DEF At
<1>5. WillTest(t)' BY <1>2, <1>4 DEF WillTest, InStep, At
<1>6. At(t, "pc5_high") \/ vref => WillBeHigh(t)' BY <1>2 DEF WillBeHigh, InStep, At, dut
<1>7. Follows(t)' BY <1>0, <1>3, <1>4, <1>5, <1>6, FollowsNext DEF dut
<1> QED BY <1>1, <1>2, <1>7

LEMMA GoodSkipped ==
  ASSUME NEW t \in Threads, Going(t), Skipped(t)
  PROVE  GoodTask(t)'
<1> USE DEF TypeOK
<1>0. TypeOK /\ NoFail(t) /\ Follows(t) BY DEF Going, GoodTask
<1>1. ~s_uart_open /\ ~Session(t) BY DEF Skipped, Session, PortUp
<1>2. /\ phase[t] = "ready" /\ rest[t] # <<>> /\ phase'[t] = "ready" /\ rest'[t] = Tail(rest[t])
      /\ UNCHANGED <<powered, vref>>
  BY <1>0 DEF Skipped, Ready, At, Finish, dut
<1>3. Head(rest[t]) \notin Gated \cup {"exit"} BY <1>0, <1>1, <1>2, FindsReady
<1>4. At(t, "raw") /\ UNCHANGED verdict BY <1>3 DEF Skipped, Ready, At
<1>5. ~At(t, "enter") /\ ~At(t, "pc5_high") /\ ~At(t, "power_on") BY <1>4 DEF At
<1>6. Later(t)' = Tail(rest[t]) BY <1>2 DEF Later
<1>7. Follows(t)' BY <1>0, <1>1, <1>2, <1>5, <1>6, FollowsNext DEF WillBeHigh
<1> QED BY <1>0, <1>2, <1>4, <1>7 DEF GoodTask, NoFail, StepGoesWell

LEMMA GoodSends ==
  ASSUME NEW t \in Threads, Going(t), Sends(t)
  PROVE  GoodTask(t)'
<1> USE DEF TypeOK
<1>0. /\ TypeOK /\ Placed /\ NoFail(t) /\ StepGoesWell(t) /\ Follows(t) /\ "late" \notin scenario
      /\ UNCHANGED <<s_uart_open, driver, dut, verdict>>
  BY DEF Going, GoodTask, Sends
<1>1. ASSUME NEW s \in Gated \ Composite, Ready(t, s), Send(t, FirstCommand(s)) PROVE GoodTask(t)'
  <2>1. /\ phase[t] = "ready" /\ Head(rest[t]) = s /\ rest[t] # <<>> /\ FirstCommand(s) \in Steps
    BY <1>1, FirstCommandIsStep DEF Ready, At
  <2>2. /\ phase'[t] = "sent" /\ rest' = rest /\ cmd'[t] = FirstCommand(s) /\ todo' # <<>>
        /\ Session(t)' /\ Follows(t)' /\ (s = "adc_read" => vref)
    BY <1>0, <1>1, <2>1, GatedBegins DEF At
  <2>3. /\ FirstCommand(s) \in Steps \ {"enter", "exit"}
        /\ s = "pc5_high" => FirstCommand(s) = "pc5_high"
        /\ s = "adc_read" => FirstCommand(s) \in {"pc5_high", "adc_read"}
        /\ FirstCommand(s) = "adc_read" => s = "adc_read"
    BY <2>1, GatedSteps DEF FirstCommand
  <2>4. Asked(t)' BY <1>0, <2>1, <2>2, <2>3 DEF Asked, Served, At, dut
  <2>5. CommandGoesWell(t)' BY <1>1, <2>1, <2>2, <2>4 DEF CommandGoesWell, At, Composite
  <2> QED BY <1>0, <2>1, <2>2, <2>5 DEF GoodTask, NoFail, StepGoesWell
<1>2. ASSUME NEW s \in {"exit", "raw"}, Ready(t, s), Send(t, FirstCommand(s)) PROVE GoodTask(t)'
  <2>1. /\ phase[t] = "ready" /\ At(t, s) /\ rest[t] # <<>> /\ FirstCommand(s) = s
        /\ ~At(t, "power_on") /\ ~At(t, "power_off") /\ ~At(t, "enter") /\ ~At(t, "pc5_high")
    BY <1>2 DEF Ready, At, FirstCommand
  <2>2. /\ phase'[t] = "sent" /\ rest' = rest /\ cmd'[t] = s
        /\ PortUp => PortUp' /\ Exchange(t)'
        /\ Session(t) => Session(t)'
    BY <1>0, <1>2, <2>1, SendGoes DEF dut
  <2>3. s = "exit" => Session(t) BY <1>0, <2>1, FindsReady DEF At
  <2>4. Follows(t)'
    <3>1. Session(t) /\ ~At(t, "exit") => WillTest(t)' BY <2>2 DEF WillTest, InStep, At
    <3>2. vref => WillBeHigh(t)' BY <1>0 DEF WillBeHigh, dut
    <3>3. Later(t)' = Tail(rest[t]) BY <2>2 DEF Later
    <3> QED BY <1>0, <2>1, <3>1, <3>2, <3>3, FollowsNext DEF dut
  <2>5. StepGoesWell(t)'
    <3>1. At(t, s)' BY <2>1, <2>2 DEF At
    <3>2. s = "exit" => ExitGoesWell(t)' BY <2>2, <2>3 DEF ExitGoesWell, Session
    <3> QED BY <2>2, <3>1, <3>2 DEF StepGoesWell
  <2> QED BY <1>0, <2>4, <2>5 DEF GoodTask, NoFail
<1>3. ASSUME phase[t] = "enabled", Send(t, "adc_read") PROVE GoodTask(t)'
  <2>1. At(t, "adc_read") /\ Head(rest[t]) \in Gated BY <1>0, <1>3, GatedSteps DEF Placed, At
  <2>2. Session(t) /\ vref BY <1>3, <2>1, GatedCommand DEF CommandGoesWell, Asked
  <2>3. /\ phase'[t] = "sent" /\ rest' = rest /\ cmd'[t] = "adc_read" /\ todo' # <<>> /\ Session(t)'
    BY <1>0, <1>3, <2>2, SendGoes DEF dut, Session
  <2>4. At(t, "adc_read")' /\ Head(rest'[t]) \in Gated BY <2>1, <2>3 DEF At
  <2>5. Asked(t)'
    <3>1. "adc_read" \in Steps BY DEF Steps, Gated
    <3>2. ~At(t, "pc5_high")' BY <2>4 DEF At
    <3> QED BY <1>0, <2>2, <2>3, <3>1, <3>2 DEF Asked, dut
  <2>6. CommandGoesWell(t)' BY <2>3, <2>4, <2>5 DEF CommandGoesWell, At
  <2>7. Follows(t)'
    <3>1. Later(t)' = Later(t) BY <1>3, <2>3 DEF Later
    <3>2. WillTest(t)' BY <2>3, <2>4 DEF WillTest, InStep, At
    <3>3. WillBeHigh(t)' BY <1>0, <2>2 DEF WillBeHigh, dut
    <3> QED BY <1>0, <3>1, <3>2, <3>3, FollowsOn DEF dut
  <2> QED BY <1>0, <2>4, <2>6, <2>7 DEF GoodTask, NoFail, StepGoesWell
<1> QED BY <1>1, <1>2, <1>3 DEF Sends

LEMMA GoodAnswers ==
  ASSUME NEW t \in Threads, Going(t),
         \/ AdcReadWithoutPort(t) \/ VersionDone(t) \/ SimpleDone(t) \/ Pc5Done(t)
         \/ AdcReadEnabled(t) \/ AdcReadDone(t) \/ ExitDone(t) \/ RawDone(t)
  PROVE  GoodTask(t)'
<1> USE DEF TypeOK
<1>0. TypeOK /\ Placed /\ NoFail(t) /\ StepGoesWell(t) /\ Follows(t) BY DEF Going, GoodTask
<1>1. ASSUME NEW s \in Gated, Answered(t, s), Finish(t), UNCHANGED <<port, todo, dut>>,
             Asked(t) /\ GoodLine(t, answer[t]) => Record(t, s, TRUE)
      PROVE  GoodTask(t)'
  <2>1. phase[t] = "answered" /\ Head(rest[t]) \in Gated BY <1>1 DEF Answered, At
  <2>2. Asked(t) /\ GoodLine(t, answer[t]) /\ phase'[t] = "ready" /\ Follows(t)'
    BY <1>1, <2>1, GatedEnds
  <2>3. Record(t, s, TRUE) /\ s \in Steps BY <1>1, <2>2, GatedSteps
  <2>4. NoFail(t)' BY <1>0, <2>3, PassKept
  <2> QED BY <2>2, <2>4 DEF GoodTask, StepGoesWell
<1>2. CASE AdcReadWithoutPort(t)
  <2>1. phase[t] = "enabled" /\ ~s_uart_open /\ Head(rest[t]) \in Gated
    BY <1>0, <1>2, GatedSteps DEF AdcReadWithoutPort, Placed, At
  <2> QED BY <2>1, GatedCommand DEF CommandGoesWell, Session, PortUp
<1>3. CASE VersionDone(t)
  <2>1. /\ "version" \in Gated /\ Answered(t, "version") /\ Finish(t)
        /\ UNCHANGED <<port, todo, dut>> /\ (answer[t].ok => Record(t, "version", TRUE))
    BY <1>3, GatedSteps DEF VersionDone, Record
  <2> QED BY <1>1, <2>1 DEF GoodLine
<1>4. CASE SimpleDone(t)
  <2>1. PICK s \in Simple : Answered(t, s) /\ Record(t, s, answer[t].ok) BY <1>4 DEF SimpleDone
  <2>2. /\ s \in Gated /\ Finish(t) /\ UNCHANGED <<port, todo, dut>>
        /\ answer[t].ok => Record(t, s, TRUE)
    BY <1>4, <2>1, GatedSteps DEF SimpleDone, Record
  <2> QED BY <1>1, <2>1, <2>2 DEF GoodLine
<1>5. CASE Pc5Done(t)
  <2>1. /\ "pc5_high" \in Gated /\ Answered(t, "pc5_high") /\ Finish(t)
        /\ UNCHANGED <<port, todo, dut>> /\ (answer[t].ok => Record(t, "pc5_high", TRUE))
    BY <1>5, GatedSteps DEF Pc5Done, Record
  <2> QED BY <1>1, <2>1 DEF GoodLine
<1>6. CASE AdcReadDone(t)
  <2>1. /\ "adc_read" \in Gated /\ Answered(t, "adc_read") /\ Finish(t) /\ cmd[t] = "adc_read"
        /\ UNCHANGED <<port, todo, dut>> /\ (HasValue(answer[t]) => Record(t, "adc_read", TRUE))
    BY <1>6, GatedSteps DEF AdcReadDone, Record
  <2>2. GoodLine(t, answer[t]) => HasValue(answer[t])
    BY <2>1 DEF GoodLine, HasValue, NoLine
  <2> QED BY <1>1, <2>1, <2>2
<1>7. CASE AdcReadEnabled(t)
  <2>1. /\ phase[t] = "answered" /\ At(t, "adc_read") /\ cmd[t] = "pc5_high"
        /\ phase'[t] = "enabled" /\ rest' = rest
        /\ UNCHANGED <<s_uart_open, driver, powered, testMode, vref, todo, cmd, verdict>>
    BY <1>0, <1>7 DEF AdcReadEnabled, Answered, Goto, port, dut, call
  <2>2. Head(rest[t]) \in Gated /\ ~At(t, "pc5_high") /\ ~At(t, "branch_test") /\ ~At(t, "button_test")
    BY <2>1, GatedSteps DEF At
  <2>3. Session(t) /\ vref
    BY <2>1, <2>2, GatedCommand DEF CommandGoesWell, Asked, Served
  <2>4. Session(t)' BY <2>1, <2>3 DEF Session, PortUp
  <2>5. CommandGoesWell(t)'
    BY <2>1, <2>2, <2>3, <2>4 DEF CommandGoesWell, Asked, At
  <2>6. Follows(t)'
    <3>1. Later(t)' = Later(t) BY <2>1 DEF Later
    <3>2. WillTest(t)' BY <2>1, <2>2, <2>4 DEF WillTest, InStep, At
    <3>3. WillBeHigh(t)' BY <2>1, <2>3 DEF WillBeHigh
    <3> QED BY <1>0, <2>1, <3>1, <3>2, <3>3, FollowsOn
  <2> QED BY <1>0, <2>1, <2>2, <2>5, <2>6 DEF GoodTask, NoFail, StepGoesWell
<1>8. CASE ExitDone(t)
  <2>1. /\ phase[t] = "answered" /\ At(t, "exit") /\ phase'[t] = "close" /\ rest' = rest
        /\ UNCHANGED <<powered, vref>>
    BY <1>0, <1>8 DEF ExitDone, ThenClose, Answered, Goto, dut
  <2>2. answer[t].ok
    BY <1>0, <2>1, GatedSteps DEF StepGoesWell, ExitGoesWell, At
  <2>3. Record(t, "exit", TRUE) /\ "exit" \in Steps
    BY <1>8, <2>2 DEF ExitDone, Record, Steps
  <2>4. NoFail(t)' BY <1>0, <2>3, PassKept
  <2>5. StepGoesWell(t)' BY <2>1 DEF StepGoesWell, ExitGoesWell, At
  <2>6. Follows(t)'
    <3>1. Later(t)' = Later(t) BY <2>1 DEF Later
    <3>2. ~WillTest(t) BY <2>1 DEF WillTest, InStep, At
    <3>3. WillBeHigh(t) => WillBeHigh(t)' BY <2>1 DEF WillBeHigh, InStep, At
    <3> QED BY <1>0, <2>1, <3>1, <3>2, <3>3, FollowsOn
  <2> QED BY <2>4, <2>5, <2>6 DEF GoodTask
<1>9. CASE RawDone(t)
  <2>1. /\ phase[t] = "answered" /\ At(t, "raw") /\ phase'[t] = "ready" /\ rest'[t] = Tail(rest[t])
        /\ UNCHANGED <<s_uart_open, driver, powered, testMode, vref, todo, verdict>>
    BY <1>0, <1>9 DEF RawDone, Answered, Finish, port, dut
  <2>2. ~At(t, "enter") /\ ~At(t, "pc5_high") BY <2>1 DEF At
  <2>3. Follows(t)'
    <3>1. Later(t)' = Later(t) BY <2>1 DEF Later
    <3>2. WillTest(t) => WillTest(t)' BY <2>1, <2>2 DEF WillTest, InStep, Session, PortUp
    <3>3. WillBeHigh(t) => WillBeHigh(t)' BY <2>1, <2>2 DEF WillBeHigh, InStep
    <3> QED BY <1>0, <2>1, <3>1, <3>2, <3>3, FollowsOn
  <2> QED BY <1>0, <2>1, <2>3 DEF GoodTask, NoFail, StepGoesWell
<1> QED BY <1>2, <1>3, <1>4, <1>5, <1>6, <1>7, <1>8, <1>9

LEMMA ScriptLines ==
  /\ Len(Script["branch_test"]) = 4 /\ Len(Script["button_test"]) = 3
  /\ Script["branch_test"][1] = "pwr_enable" /\ Script["branch_test"][2] = "adc_read"
  /\ Script["branch_test"][3] = "adc_read" /\ Script["branch_test"][4] = "pwr_disable"
  /\ \A n \in 1..3 : Script["button_test"][n] = "pin_read"
<1>1. Script["branch_test"] = <<"pwr_enable", "adc_read", "adc_read", "pwr_disable">> BY DEF Script
<1>2. Script["button_test"] = <<"pin_read", "pin_read", "pin_read">> BY DEF Script
<1> QED BY <1>1, <1>2

\* Command n of a composite step is on its way.
LEMMA CompositeSent ==
  ASSUME TypeOK, NEW t \in Threads, NEW s \in Composite, NEW n \in 1..Len(Script[s]), At(t, s),
         phase'[t] = "sent", rest' = rest, cmd'[t] = Script[s][n], todo' # <<>>, Session(t)',
         s = "branch_test" => vref' /\ (n \in {2, 3} => branch'),
         fine'[t], Asks(t, s, n)
  PROVE  Head(rest'[t]) \in Gated /\ CommandGoesWell(t)'
<1> USE DEF TypeOK
<1>1. /\ Head(rest'[t]) \in Gated /\ rest'[t] # <<>> /\ Head(rest'[t]) = s
      /\ s \in {"branch_test", "button_test"}
  BY GatedSteps DEF At
<1>2. /\ n \in Nat /\ nth'[t] = n
      /\ s = "branch_test" => n \in 1..4
      /\ s = "button_test" => n \in 1..3 /\ pressed' = PulledLow("button_test", n)
  BY ScriptLines, ScriptLengths DEF Asks
<1>3. cmd'[t] \in {"pwr_enable", "adc_read", "pwr_disable", "pin_read"}
  BY <1>1, <1>2, ScriptLines
<1>4. Asked(t)'
  <2>1. cmd'[t] \in Steps \ {"enter", "exit"} BY <1>3 DEF Steps, Gated, Simple, Asking, Setting
  <2>2. cmd'[t] = "adc_read" => vref' BY <1>1, <1>2, ScriptLines
  <2> QED BY <1>1, <1>3, <2>1, <2>2 DEF Asked, At
<1>5. At(t, "branch_test")' => AskedBranch(t)'
  BY <1>1, <1>2 DEF At, AskedBranch, Served
<1>6. At(t, "button_test")' => AskedButton(t)'
  BY <1>1, <1>2, ScriptLines DEF At, AskedButton
<1> QED BY <1>1, <1>4, <1>5, <1>6 DEF CommandGoesWell

LEMMA GoodComposite ==
  ASSUME NEW t \in Threads, Going(t), CompositeStep(t)
  PROVE  GoodTask(t)'
<1> USE DEF TypeOK
<1>0. /\ TypeOK /\ Placed /\ NoFail(t) /\ StepGoesWell(t) /\ Follows(t) /\ "late" \notin scenario
  BY DEF Going, GoodTask
<1>1. CASE CompositeStarts(t)
  <2>1. PICK s \in Composite : Ready(t, s) /\ Asks(t, s, 1) BY <1>1 DEF CompositeStarts
  <2>2. /\ s \in Gated /\ 1 \in 1..Len(Script[s]) /\ Script[s][1] \in Steps
        /\ phase[t] = "ready" /\ Head(rest[t]) = s /\ rest[t] # <<>> /\ At(t, s)
    BY <2>1, GatedSteps, ScriptLengths, ScriptSteps DEF Ready, At
  <2>3. /\ Send(t, Script[s][1]) /\ UNCHANGED <<s_uart_open, driver, dut, verdict>> /\ fine'[t]
    BY <1>0, <1>1, <2>1 DEF CompositeStarts, Asks
  <2>4. /\ phase'[t] = "sent" /\ rest' = rest /\ cmd'[t] = Script[s][1] /\ todo' # <<>>
        /\ Session(t)' /\ Follows(t)' /\ (s = "branch_test" => vref)
    BY <2>2, <2>3, GatedBegins DEF At
  <2>5. Head(rest'[t]) \in Gated /\ CommandGoesWell(t)'
    BY <1>0, <2>1, <2>2, <2>3, <2>4, CompositeSent DEF dut
  <2> QED BY <1>0, <2>3, <2>4, <2>5 DEF GoodTask, NoFail, StepGoesWell
<1>2. ASSUME NEW s \in Composite, Answered(t, s)
      PROVE  /\ CommandGoesWell(t) /\ Head(rest[t]) = s /\ s \in Gated
             /\ nth[t] \in 1..Len(Script[s]) /\ fine[t] /\ Good(t, s) /\ ~GivesUp(t, s)
             /\ s = "branch_test" => vref /\ (nth[t] + 1 \in {2, 3} => branch)
  <2>1. /\ phase[t] = "answered" /\ At(t, s) /\ Head(rest[t]) = s /\ s \in Gated
        /\ s \in {"branch_test", "button_test"}
    BY <1>2, GatedSteps DEF Answered, At
  <2>2. CommandGoesWell(t) BY <2>1, GatedCommand
  <2>3. GoodLine(t, answer[t]) /\ answer[t].ok BY <2>1, <2>2 DEF CommandGoesWell, GoodLine
  <2>4. ~GivesUp(t, s) BY <2>3 DEF GivesUp
  <2>5. CASE s = "branch_test"
    <3>1. AskedBranch(t) BY <2>1, <2>2, <2>5 DEF CommandGoesWell
    <3>2. Script[s][nth[t]] # "pin_read" BY <2>5, <3>1, ScriptLines DEF AskedBranch
    <3>3. Good(t, s) BY <2>1, <2>3, <2>5, <3>1, <3>2 DEF Good, GoodLine, AskedBranch
    <3>4. nth[t] + 1 \in {2, 3} => branch
      BY <2>1, <3>1 DEF AskedBranch, Served
    <3> QED BY <2>1, <2>2, <2>4, <2>5, <3>1, <3>3, <3>4, ScriptLines DEF AskedBranch
  <2>6. CASE s = "button_test"
    <3>1. AskedButton(t) BY <2>1, <2>2, <2>6 DEF CommandGoesWell
    <3>2. Script[s][nth[t]] = "pin_read" BY <2>6, <3>1, ScriptLines DEF AskedButton
    <3>3. Good(t, s) BY <2>1, <2>3, <2>6, <3>1, <3>2 DEF Good, GoodLine, AskedButton
    <3> QED BY <2>1, <2>2, <2>4, <2>6, <3>1, <3>3, ScriptLines DEF AskedButton
  <2> QED BY <2>1, <2>5, <2>6
<1>3. CASE CompositeGoesOn(t)
  <2>1. PICK s \in Composite : /\ Answered(t, s) /\ nth[t] < Len(Script[s])
                               /\ fine' = [fine EXCEPT ![t] = @ /\ Good(t, s)]
                               /\ Asks(t, s, nth[t] + 1) /\ UNCHANGED <<dut, verdict>>
    BY <1>3 DEF CompositeGoesOn
  <2>2. /\ CommandGoesWell(t) /\ Head(rest[t]) = s /\ s \in Gated /\ phase[t] = "answered" /\ At(t, s)
        /\ nth[t] \in 1..Len(Script[s]) /\ fine[t] /\ Good(t, s)
        /\ s = "branch_test" => vref /\ (nth[t] + 1 \in {2, 3} => branch)
    BY <1>2, <2>1 DEF Answered
  <2>3. nth[t] + 1 \in 1..Len(Script[s]) BY <2>1, <2>2, ScriptLengths
  <2>4. Session(t) /\ s_uart_open BY <2>2 DEF CommandGoesWell, Session, PortUp
  <2>5. Send(t, Script[s][nth[t] + 1]) /\ UNCHANGED <<s_uart_open, driver>>
    BY <2>1, <2>4 DEF Asks
  <2>6. fine'[t] BY <1>0, <2>1, <2>2
  <2>7. /\ phase'[t] = "sent" /\ rest' = rest /\ cmd'[t] = Script[s][nth[t] + 1] /\ todo' # <<>>
        /\ Session(t)'
    BY <1>0, <2>1, <2>2, <2>4, <2>5, SendGoes DEF dut, Session
  <2>8. Head(rest'[t]) \in Gated /\ CommandGoesWell(t)'
    BY <1>0, <2>1, <2>2, <2>3, <2>6, <2>7, CompositeSent DEF dut
  <2>9. Follows(t)'
    <3>1. ~At(t, "exit") /\ ~At(t, "pc5_high") BY <2>2, GatedSteps DEF At
    <3>2. Later(t)' = Later(t) BY <2>2, <2>7 DEF Later
    <3>3. WillTest(t)' BY <2>7, <3>1 DEF WillTest, InStep, At
    <3>4. WillBeHigh(t) => WillBeHigh(t)' BY <2>1, <3>1 DEF WillBeHigh, InStep, dut
    <3>5. powered' = powered BY <2>1 DEF dut
    <3> QED BY <1>0, <3>2, <3>3, <3>4, <3>5, FollowsOn
  <2> QED BY <1>0, <2>1, <2>7, <2>8, <2>9 DEF GoodTask, NoFail, StepGoesWell
<1>4. CASE CompositeDone(t)
  <2>1. PICK s \in Composite :
          /\ Answered(t, s) /\ Finish(t) /\ UNCHANGED <<port, todo, dut>>
          /\ Record(t, s, ~GivesUp(t, s) /\ fine[t] /\ (s = "button_test" => Good(t, s)))
    BY <1>4 DEF CompositeDone
  <2>2. Head(rest[t]) = s /\ s \in Gated /\ fine[t] /\ Good(t, s) /\ ~GivesUp(t, s)
    BY <1>2, <2>1
  <2>3. phase'[t] = "ready" /\ Follows(t)' BY <2>1, <2>2, GatedEnds DEF Answered
  <2>4. Record(t, s, TRUE) /\ s \in Steps BY <2>1, <2>2, GatedSteps DEF Record
  <2>5. NoFail(t)' BY <1>0, <2>4, PassKept
  <2> QED BY <2>3, <2>5 DEF GoodTask, StepGoesWell
<1> QED BY <1>1, <1>3, <1>4 DEF CompositeStep

LEMMA GoodDutAnswers ==
  ASSUME NEW t \in Threads, Going(t), DutAnswers
  PROVE  GoodTask(t)'
<1> USE DEF TypeOK
<1>0. /\ TypeOK /\ NoFail(t) /\ StepGoesWell(t) /\ Follows(t) BY DEF Going, GoodTask
<1>1. /\ todo # <<>> /\ todo' = Tail(todo)
      /\ rx' = IF driver THEN Append(rx, Line(Head(todo))) ELSE rx
      /\ testMode' = (Head(todo) # "exit") /\ vref' = (vref \/ Head(todo) = "pc5_high")
      /\ branch' = (IF Head(todo) \in {"pwr_enable", "pwr_disable"} THEN Head(todo) = "pwr_enable"
                                                                    ELSE branch)
      /\ UNCHANGED <<s_uart_open, driver, powered, phase, rest, cmd, answer, nth, fine, pressed, verdict>>
  BY DEF DutAnswers, Answers, Line, call, composite
<1>2. Len(Append(<<>>, Line(cmd[t]))) = 1 /\ Append(<<>>, Line(cmd[t]))[1] = Line(cmd[t]) OBVIOUS
<1>3. ASSUME Exchange(t)
      PROVE  Head(todo) = cmd[t] /\ todo' = <<>> /\ rx = <<>>
  <2>1. todo = <<cmd[t]>> /\ rx = <<>> BY <1>1, <1>3 DEF Exchange
  <2> QED BY <1>1, <2>1
<1>4. ASSUME Exchange(t), driver, cmd[t] = "adc_read" => vref,
             cmd[t] = "adc_read" /\ At(t, "branch_test") => branch,
             At(t, "button_test") => pressed = PulledLow("button_test", nth[t])
      PROVE  Exchange(t)'
  <2>1. todo' = <<>> /\ Len(rx') = 1 /\ rx'[1] = Line(cmd[t]) BY <1>1, <1>2, <1>3, <1>4
  <2>2. GoodLine(t, Line(cmd[t])) BY <1>4 DEF GoodLine, Line
  <2>3. GoodLine(t, rx[1])' BY <1>1, <2>1, <2>2 DEF GoodLine, At
  <2> QED BY <2>1, <2>3 DEF Exchange
<1>5. \A s : At(t, s)' <=> At(t, s) BY <1>1 DEF At
<1>6. ASSUME At(t, "enter"), EnterGoesWell(t) PROVE EnterGoesWell(t)'
  <2>1. CASE phase[t] = "sent"
    <3>1. cmd[t] = "enter" /\ PortUp /\ Exchange(t) BY <1>6, <2>1 DEF EnterGoesWell
    <3>2. ~At(t, "branch_test") /\ ~At(t, "button_test") BY <1>6 DEF At
    <3>3. Exchange(t)' BY <1>4, <3>1, <3>2 DEF PortUp
    <3>4. testMode' BY <1>1, <1>3, <3>1
    <3> QED BY <1>1, <1>6, <2>1, <3>1, <3>3, <3>4 DEF EnterGoesWell, PortUp
  <2>2. CASE phase[t] # "sent" BY <1>1, <1>6, <2>2 DEF EnterGoesWell, Served, PortUp
  <2> QED BY <2>1, <2>2
<1>7. ASSUME At(t, "exit"), ExitGoesWell(t) PROVE ExitGoesWell(t)'
  <2>1. CASE phase[t] = "sent"
    <3>1. cmd[t] = "exit" /\ PortUp /\ Exchange(t) BY <1>7, <2>1 DEF ExitGoesWell
    <3>2. ~At(t, "branch_test") /\ ~At(t, "button_test") BY <1>7 DEF At
    <3>3. Exchange(t)' /\ todo' = <<>> BY <1>3, <1>4, <3>1, <3>2 DEF PortUp
    <3> QED BY <1>1, <2>1, <3>1, <3>3 DEF ExitGoesWell, PortUp
  <2>2. CASE phase[t] # "sent" BY <1>1, <1>7, <2>2 DEF ExitGoesWell
  <2> QED BY <2>1, <2>2
<1>8. ASSUME Head(rest[t]) \in Gated, CommandGoesWell(t) PROVE CommandGoesWell(t)'
  <2>1. phase[t] = "sent" /\ Session(t) /\ Exchange(t) /\ Asked(t)
    BY <1>1, <1>8 DEF CommandGoesWell, Session
  <2>2. /\ cmd[t] \in Steps \ {"enter", "exit"} /\ Head(todo) = cmd[t] /\ todo' = <<>>
    BY <1>3, <2>1 DEF Asked
  <2>3. /\ cmd[t] = "adc_read" => vref
        /\ cmd[t] = "adc_read" /\ At(t, "branch_test") => branch
        /\ At(t, "button_test") => pressed = PulledLow("button_test", nth[t])
    <3>1. cmd[t] = "adc_read" => vref BY <2>1 DEF Asked
    <3>2. ASSUME AskedBranch(t), cmd[t] = "adc_read" PROVE branch
      <4>1. nth[t] \notin {1, 4} BY <3>2, ScriptLines DEF AskedBranch
      <4> QED BY <3>2, <4>1 DEF AskedBranch
    <3> QED BY <1>8, <3>1, <3>2 DEF CommandGoesWell, AskedButton
  <2>4. Exchange(t)' BY <1>4, <2>1, <2>3 DEF Session, PortUp
  <2>5. Session(t)' BY <1>1, <2>1, <2>2, <2>4 DEF Session, PortUp
  <2>6. Asked(t)' BY <1>1, <1>5, <2>1, <2>2 DEF Asked
  <2>7. AskedBranch(t) => AskedBranch(t)'
    <3> SUFFICES ASSUME AskedBranch(t) PROVE AskedBranch(t)' OBVIOUS
    <3>1. nth[t] = 1 => cmd[t] = "pwr_enable" BY ScriptLines DEF AskedBranch
    <3>2. nth[t] \in {2, 3} => cmd[t] = "adc_read" BY ScriptLines DEF AskedBranch
    <3>3. nth[t] = 1 => branch' BY <1>1, <2>2, <3>1
    <3>4. nth[t] \in {2, 3} => branch' BY <1>1, <2>2, <3>2 DEF AskedBranch
    <3> QED BY <1>1, <3>3, <3>4 DEF AskedBranch
  <2>8. AskedButton(t) => AskedButton(t)' BY <1>1 DEF AskedButton
  <2> QED BY <1>1, <1>5, <1>8, <2>1, <2>5, <2>6, <2>7, <2>8 DEF CommandGoesWell
<1>9. StepGoesWell(t)'
  BY <1>0, <1>1, <1>5, <1>6, <1>7, <1>8 DEF StepGoesWell
<1>10. WillTest(t) => WillTest(t)'
  <2>1. InStep(t, "enter") => InStep(t, "enter")' BY <1>1, <1>5 DEF InStep
  <2>2. ASSUME Session(t), ~InStep(t, "exit"), ~InStep(t, "enter") PROVE Session(t)'
    <3>1. phase[t] = "sent" /\ Exchange(t) BY <1>1, <2>2 DEF Session
    <3>2. ~At(t, "enter") /\ ~At(t, "exit") BY <2>2, <3>1 DEF InStep
    <3>3. \/ Head(rest[t]) \in Gated /\ CommandGoesWell(t)
          \/ At(t, "raw") /\ cmd[t] = "raw"
      BY <1>0, <3>1, <3>2 DEF StepGoesWell
    <3>4. CASE Head(rest[t]) \in Gated /\ CommandGoesWell(t)
      BY <1>8, <3>4 DEF CommandGoesWell
    <3>5. CASE At(t, "raw") /\ cmd[t] = "raw"
      <4>1. ~At(t, "branch_test") /\ ~At(t, "button_test") BY <3>5 DEF At
      <4>2. Exchange(t)' BY <1>4, <2>2, <3>1, <3>5, <4>1 DEF Session, PortUp
      <4>3. testMode' BY <1>1, <1>3, <3>1, <3>5
      <4> QED BY <1>1, <2>2, <3>1, <4>2, <4>3 DEF Session, PortUp
    <3> QED BY <3>3, <3>4, <3>5
  <2> QED BY <1>1, <1>5, <2>1, <2>2 DEF WillTest, InStep
<1>11. Follows(t)'
  <2>1. WillBeHigh(t) => WillBeHigh(t)' BY <1>1, <1>5 DEF WillBeHigh, InStep
  <2>2. Later(t)' = Later(t) BY <1>1 DEF Later
  <2> QED BY <1>0, <1>1, <1>10, <2>1, <2>2, FollowsOn
<1> QED BY <1>0, <1>1, <1>9, <1>11 DEF GoodTask, NoFail

\* What the DUT ignores is not what a step waits for.
LEMMA GoodDutIgnores ==
  ASSUME NEW t \in Threads, Going(t), DutIgnores
  PROVE  GoodTask(t)'
<1> USE DEF TypeOK
<1>0. /\ TypeOK /\ NoFail(t) /\ StepGoesWell(t) /\ Follows(t) BY DEF Going, GoodTask
<1>1. /\ todo # <<>> /\ Head(todo) # "enter" /\ ~testMode
      /\ UNCHANGED <<s_uart_open, driver, powered, testMode, vref, phase, rest, cmd, answer, verdict>>
  BY DEF DutIgnores, port, dut, call
<1>2. ~Session(t) BY <1>1 DEF Session
<1>3. \A s : At(t, s)' <=> At(t, s) BY <1>1 DEF At
<1>4. ~CommandGoesWell(t) BY <1>2 DEF CommandGoesWell
<1>5. Exchange(t) => cmd[t] = Head(todo)
  <2>1. Exchange(t) => todo = <<cmd[t]>> BY <1>1 DEF Exchange
  <2> QED BY <2>1
<1>6. EnterGoesWell(t) => EnterGoesWell(t)'
  <2>1. EnterGoesWell(t) => phase[t] \in {"mark", "opened"} BY <1>1, <1>5 DEF EnterGoesWell
  <2> QED BY <1>1, <2>1 DEF EnterGoesWell, PortUp, Served
<1>7. ExitGoesWell(t) => ExitGoesWell(t)'
  <2>1. ExitGoesWell(t) => phase[t] # "sent" BY <1>1 DEF ExitGoesWell
  <2> QED BY <1>1, <2>1 DEF ExitGoesWell
<1>8. StepGoesWell(t)' BY <1>0, <1>1, <1>3, <1>4, <1>6, <1>7 DEF StepGoesWell
<1>9. Follows(t)'
  <2>1. WillTest(t) => WillTest(t)' BY <1>1, <1>2, <1>3 DEF WillTest, InStep
  <2>2. WillBeHigh(t) => WillBeHigh(t)' BY <1>1, <1>3 DEF WillBeHigh, InStep
  <2>3. Later(t)' = Later(t) BY <1>1 DEF Later
  <2> QED BY <1>0, <1>1, <2>1, <2>2, <2>3, FollowsOn
<1> QED BY <1>0, <1>1, <1>8, <1>9 DEF GoodTask, NoFail

LEMMA GoodStart ==
  ASSUME TypeOK, NEW t \in Threads, NEW p \in Seq(Steps), Prepared(p), Start(t, p)
  PROVE  GoodTask(t)'
<1> USE DEF TypeOK
<1>1. /\ phase'[t] = "ready" /\ rest'[t] = p /\ verdict'[t] = [s \in Steps |-> "none"]
  BY DEF Start
<1>2. Later(t)' = p BY <1>1 DEF Later
<1>3. CanFollow(p, Done(t)') BY PreparedFollows
<1>4. Follows(t)' BY <1>2, <1>3 DEF Follows
<1> QED BY <1>1, <1>4 DEF GoodTask, NoFail, StepGoesWell

LEMMA NextGood ==
  ASSUME TypeOK, AnswerInv, SessionInv, GoodInv, [Next]_vars
  PROVE  GoodInv'
<1> USE DEF TypeOK
<1>0. Placed /\ Turns /\ scenario' = scenario BY ScenarioStays DEF AnswerInv
<1>1. SUFFICES ASSUME Followed, NEW t \in Threads, phase'[t] # "idle", ~missed' PROVE GoodTask(t)'
  BY <1>0 DEF GoodInv, Followed, Orderly
<1>2. /\ Orderly /\ "late" \notin scenario /\ "overlap" \notin scenario
      /\ \A u \in Threads : phase[u] # "idle" /\ ~missed => GoodTask(u)
      /\ \A u \in Threads : phase[u] # "idle" => SessionOf(u)
      /\ \A u, w \in Threads : phase[u] # "idle" /\ phase[w] # "idle" => u = w
  BY <1>0, <1>1 DEF Followed, Orderly, GoodInv, SessionInv, Turns
<1>3. ASSUME ~missed, phase[t] # "idle" PROVE Going(t)
  BY <1>0, <1>2, <1>3 DEF Going
<1>4. ASSUME NEW u \in Threads, NEW p \in Recipes[scenario] \cup Commands[scenario], Start(u, p)
      PROVE  GoodTask(t)'
  <2>1. \A w \in Threads : phase[w] = "idle" BY <1>2, <1>4 DEF Start
  <2>2. phase' = [phase EXCEPT ![u] = "ready"] BY <1>4 DEF Start
  <2>3. u = t BY <1>1, <2>1, <2>2
  <2>4. p \in Seq(Steps) /\ Prepared(p) BY <1>1, ProgramsAssumption DEF Followed
  <2> QED BY <1>4, <2>3, <2>4, GoodStart
<1>5. ASSUME NEW u \in Threads, TaskStep(u) PROVE GoodTask(t)'
  <2>1. phase[t] # "idle" /\ phase[u] # "idle" BY <1>0, <1>1, <1>5, TaskKeepsBoard, TaskIsActive
  <2>2. u = t BY <1>2, <2>1
  <2>3. ~missed
    BY <1>1, <1>5 DEF TaskStep, End, PowerOn, PowerOff, dut_cmd, ReadLine, Timeout, dut_uart_close,
       CloseDelete, CloseClear, CloseNothing, run_dut_enter_test, EnterAlreadyOpen, EnterInstalls,
       EnterMarksOpen, EnterCannotOpen, EnterSends, EnterDone, GatedStep, Skipped, Sends,
       AdcReadWithoutPort, VersionDone, SimpleDone, Pc5Done, AdcReadEnabled, AdcReadDone, ExitDone,
       RawDone, CompositeStep, CompositeStarts, CompositeGoesOn, CompositeDone, OtherUser,
       ReadIdListens, ReadIdDone, ReadIdRefused, FixtureStarts, FixtureEnds, ghost
  <2>4. Going(t) BY <1>3, <2>1, <2>3
  <2>5. ~End(t) BY <1>1 DEF End, Goto
  <2> QED BY <1>1, <1>5, <2>2, <2>4, <2>5, GoodPower, GoodReadLine, GoodTimeout, GoodClose, GoodEnter,
             GoodSkipped, GoodSends, GoodAnswers, GoodComposite, GoodOtherUser
          DEF TaskStep, dut_cmd, GatedStep
<1>6. ASSUME Dut PROVE GoodTask(t)'
  <2>1. ~DutIsSilent /\ ~PowerIsCut BY <1>1 DEF DutIsSilent, PowerIsCut
  <2>2. DutAnswers \/ DutIgnores BY <1>6, <2>1 DEF Dut
  <2>3. ~missed /\ phase[t] # "idle" BY <1>1, <2>2 DEF DutAnswers, DutIgnores, ghost
  <2> QED BY <1>3, <2>2, <2>3, GoodDutAnswers, GoodDutIgnores
<1>7. ASSUME NEW b \in Boards, SeatBoard(b) PROVE FALSE BY <1>1, <1>7 DEF SeatBoard
<1>8. CASE UNCHANGED vars
  <2>1. GoodTask(t) BY <1>1, <1>2, <1>8 DEF vars, ghost
  <2> QED BY <1>8, <2>1
       DEF vars, port, dut, cached, call, composite, ghost, GoodTask, NoFail, StepGoesWell, Follows,
           Later, Done, WillTest, WillBeHigh, InStep, At, EnterGoesWell, ExitGoesWell, CommandGoesWell,
           Asked, AskedBranch, AskedButton, Session, PortUp, Served, Exchange, GoodLine
<1> QED BY <1>4, <1>5, <1>6, <1>7, <1>8 DEF Next, TaskStep, Threads

(***************************************************************************)
(* GoodBoardPasses: where programs run one after another, leave test mode  *)
(* and keep to an order that a DUT can follow, a program whose DUT answers *)
(* every command in time has no failed step.                               *)
(***************************************************************************)
THEOREM GoodBoardHasNoFailure == Spec => []GoodBoardPasses
<1>1. Init => SessionInv BY InitSession
<1>2. Init => GoodInv BY DEF Init, GoodInv
<1>3. TypeOK /\ AnswerInv /\ SessionInv /\ [Next]_vars => SessionInv' BY NextSession
<1>4. TypeOK /\ AnswerInv /\ SessionInv /\ GoodInv /\ [Next]_vars => GoodInv' BY NextGood
<1>5. GoodInv => GoodBoardPasses BY DEF GoodInv, GoodBoardPasses, GoodTask, NoFail
<1> QED BY <1>1, <1>2, <1>3, <1>4, <1>5, Answering, PTL DEF Spec
=============================================================================
