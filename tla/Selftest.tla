------------------------------ MODULE Selftest ------------------------------
(***************************************************************************)
(* The counters and the check buffer of src/src/cmd_selftest.c and the     *)
(* tasks that share them without a lock: the selftest command, the         *)
(* selftest of a DCMD, the precheck of the state machine, a diagnostic and *)
(* the recipe engine.  Each empties the buffer when it starts, fills it    *)
(* check by check and reads it when it ends.                               *)
(*                                                                         *)
(* A primitive (run_i2c, run_wifi, run_dut_gpio_read, ...) is the sequence *)
(* of its checks.  Those of cmd_selftest.c report their result to the      *)
(* counters and then record it in the buffer, or end the primitive with    *)
(* failed reports alone when the ADC does not initialise; those of         *)
(* g3_primitives.c, which only recipes run, record and do not report.      *)
(***************************************************************************)
EXTENDS Integers, Sequences

CONSTANTS
  Scenarios,    \* what may happen besides, each a set of
                \* "overlap" a task may start while another is under way
                \* "nomem"   malloc or xTaskCreate may fail
  Plans,        \* by scenario and task, the sequences of primitives it may run
  Silent,       \* checks that may fail without a record
  Unreported,   \* checks of g3_primitives.c
  MAX_CHECKS,
  MaxRuns       \* bound: selftests started

Tasks == {"console", "dcmd", "diagnostic", "sm", "recipe"}

ASSUME ScenariosAssumption == Scenarios \subseteq SUBSET {"overlap", "nomem"}
ASSUME PlansAssumption ==
  \A s \in Scenarios, t \in Tasks : Plans[s][t] \subseteq Seq(Seq(STRING))
ASSUME MaxChecksAssumption == MAX_CHECKS \in Nat

VARIABLES
  s_pass, s_total,  \* the counters
  s_checks,         \* the buffer up to s_ncheck
  phase,            \* where each task is
  plan,             \* the primitives it has still to run
  ahead,            \* the checks left in the current one
  result,           \* the result of its current check
  passed,           \* the verdict it has formed
  mark,             \* what the engine has noted before a step
  sm,
  own,              \* history: what each task's checks have come to
  runs,             \* history: selftests started
  scenario          \* the one this behaviour is of

buffer  == <<s_pass, s_total, s_checks>>
work    == <<plan, ahead>>
history == <<own, runs>>
vars == <<buffer, phase, work, result, passed, mark, sm, history, scenario>>

\* Of the run: has it reported, and did all reports pass?  Of the current
\* primitive: did a report fail, is a record in the buffer, and one that failed?
NothingYet == [reported |-> FALSE, flawless |-> TRUE,
               misreported |-> FALSE, kept |-> FALSE, failed |-> FALSE]

Init ==
  /\ s_pass = 0 /\ s_total = 0 /\ s_checks = <<>>
  /\ phase = [t \in Tasks |-> "idle"]
  /\ plan = [t \in Tasks |-> <<>>] /\ ahead = [t \in Tasks |-> <<>>]
  /\ result = [t \in Tasks |-> TRUE] /\ passed = [t \in Tasks |-> FALSE]
  /\ mark = [ncheck |-> 0, total |-> 0, pass |-> 0]
  /\ sm = "IDLE"
  /\ own = [t \in Tasks |-> NothingYet] /\ runs = 0
  /\ scenario \in Scenarios

Goto(t, where) == phase' = [phase EXCEPT ![t] = where]

-----------------------------------------------------------------------------
(***************************************************************************)
(* Starting: the console and MQTT ask for a selftest at any time, the      *)
(* state machine for its precheck and, when that has passed, the recipe.   *)
(***************************************************************************)
NobodyElse == \A t \in Tasks : phase[t] = "idle"
MayStart(t) == phase[t] = "idle" /\ ("overlap" \in scenario \/ NobodyElse)

Start(t) ==
  /\ MayStart(t)
  /\ \E p \in Plans[scenario][t] : plan' = [plan EXCEPT ![t] = p]
  /\ Goto(t, "reset")
  /\ UNCHANGED <<buffer, ahead, result, passed, mark, own>>

AskSelftest(t) ==
  /\ t \in {"console", "dcmd", "diagnostic"} /\ runs < MaxRuns
  /\ Start(t) /\ runs' = runs + 1
  /\ UNCHANGED <<sm, scenario>>

\* selftest_run_sm, called on the way from IDLE to PRECHECK.
selftest_run_sm ==
  /\ sm = "IDLE" /\ runs < MaxRuns
  /\ Start("sm") /\ runs' = runs + 1
  /\ sm' = "PRECHECK"
  /\ UNCHANGED scenario

\* Its early return: no memory, no task.
NoMemory ==
  /\ "nomem" \in scenario /\ sm = "IDLE" /\ runs < MaxRuns /\ MayStart("sm")
  /\ sm' = "PRECHECK" /\ runs' = runs + 1
  /\ UNCHANGED <<buffer, phase, work, result, passed, mark, own, scenario>>

RecipeStarts ==
  /\ sm = "TESTING" /\ Start("recipe")
  /\ UNCHANGED <<sm, runs, scenario>>

\* Mutation: the counters of the last run are kept.
ResetChecksOnly == s_checks' = <<>> /\ UNCHANGED <<s_pass, s_total>>
ResetAll == s_pass' = 0 /\ s_total' = 0 /\ s_checks' = <<>>

Reset(t) ==
  /\ phase[t] = "reset"
  /\ ResetAll
  /\ own' = [own EXCEPT ![t] = NothingYet]
  /\ Goto(t, "next")
  /\ UNCHANGED <<work, result, passed, mark, sm, runs, scenario>>

-----------------------------------------------------------------------------
(***************************************************************************)
(* The primitives.  Before a step the engine notes the three counts.       *)
(***************************************************************************)
\* Mutation: the counts of the start, which are 0, serve for all steps.
MarkOnce == mark
MarkAgain == [ncheck |-> Len(s_checks), total |-> s_total, pass |-> s_pass]

BeginPrimitive(t) ==
  /\ phase[t] = "next" /\ plan[t] # <<>>
  /\ ahead' = [ahead EXCEPT ![t] = Head(plan[t])]
  /\ plan' = [plan EXCEPT ![t] = Tail(@)]
  /\ mark' = IF t = "recipe" THEN MarkAgain ELSE mark
  /\ own' = [own EXCEPT ![t].misreported = FALSE, ![t].kept = FALSE, ![t].failed = FALSE]
  /\ Goto(t, "check")
  /\ UNCHANGED <<buffer, result, passed, sm, runs, scenario>>

report(ok) == s_total' = s_total + 1 /\ s_pass' = IF ok THEN s_pass + 1 ELSE s_pass

Reports(t, ok) ==
  [own[t] EXCEPT !.reported = TRUE, !.flawless = @ /\ ok, !.misreported = @ \/ ~ok]

\* A check of cmd_selftest.c: its report, then (Record) its entry.
Report(t) ==
  /\ phase[t] = "check" /\ ahead[t] # <<>> /\ Head(ahead[t]) \notin Unreported
  /\ \E ok \in BOOLEAN :
       /\ report(ok)
       /\ result' = [result EXCEPT ![t] = ok]
       /\ own' = [own EXCEPT ![t] = Reports(t, ok)]
  /\ Goto(t, "record")
  /\ UNCHANGED <<s_checks, work, passed, mark, sm, runs, scenario>>

\* "ADC128: init failed": the primitive ends with the report.
ReportOnly(t) ==
  /\ phase[t] = "check" /\ ahead[t] # <<>> /\ Head(ahead[t]) \in Silent
  /\ report(FALSE)
  /\ own' = [own EXCEPT ![t] = Reports(t, FALSE)]
  /\ ahead' = [ahead EXCEPT ![t] = <<>>]
  /\ UNCHANGED <<s_checks, phase, plan, result, passed, mark, sm, runs, scenario>>

\* st_record drops the entry when the buffer is full.
HasRoom == Len(s_checks) < MAX_CHECKS

st_record(t, ok) ==
  IF HasRoom
    THEN /\ s_checks' = Append(s_checks, [id |-> Head(ahead[t]), pass |-> ok])
         /\ own' = [own EXCEPT ![t].kept = TRUE, ![t].failed = @ \/ ~ok]
    ELSE UNCHANGED <<s_checks, own>>

\* run_i2c goes on to run_adc128 only when the ADC128 has answered.
ChecksLeft(t) ==
  {Tail(ahead[t])} \cup (IF Head(ahead[t]) = "i2c" /\ ~result[t] THEN {<<>>} ELSE {})

Record(t) ==
  /\ phase[t] = "record"
  /\ st_record(t, result[t])
  /\ \E c \in ChecksLeft(t) : ahead' = [ahead EXCEPT ![t] = c]
  /\ Goto(t, "check")
  /\ UNCHANGED <<s_pass, s_total, plan, result, passed, mark, sm, runs, scenario>>

\* selftest_check_record of g3_primitives.c: an entry, and no report.
RecordUnreported(t) ==
  /\ phase[t] = "check" /\ ahead[t] # <<>> /\ Head(ahead[t]) \in Unreported
  /\ \E ok \in BOOLEAN : st_record(t, ok)
  /\ ahead' = [ahead EXCEPT ![t] = Tail(@)]
  /\ UNCHANGED <<s_pass, s_total, phase, plan, result, passed, mark, sm, runs, scenario>>

\* The engine evaluates every step.
EndPrimitive(t) ==
  /\ phase[t] = "check" /\ ahead[t] = <<>>
  /\ Goto(t, IF t = "recipe" THEN "judge" ELSE "next")
  /\ UNCHANGED <<buffer, work, result, passed, mark, sm, history, scenario>>

-----------------------------------------------------------------------------
(***************************************************************************)
(* Reading what has been collected.                                        *)
(***************************************************************************)
AllPassed == s_pass = s_total /\ s_total > 0

Conclude(t) ==
  /\ phase[t] = "next" /\ plan[t] = <<>> /\ t # "recipe"
  /\ passed' = [passed EXCEPT ![t] = AllPassed]
  /\ Goto(t, "publish")
  /\ UNCHANGED <<buffer, work, result, mark, sm, history, scenario>>

\* tc_mqtt_publish_selftest takes the whole buffer.
Publish(t) ==
  /\ phase[t] = "publish"
  /\ Goto(t, IF t = "sm" THEN "notify" ELSE "idle")
  /\ UNCHANGED <<buffer, work, result, passed, mark, sm, history, scenario>>

\* Mutation: a failed precheck is not reported.
NotifyPasses == phase["sm"] = "notify" /\ passed["sm"]
NotifyAlways == phase["sm"] = "notify"

\* tc_sm_selftest_done.
Notify ==
  /\ NotifyAlways
  /\ sm' = IF passed["sm"] THEN "TESTING" ELSE "SELFTEST_FAIL"
  /\ Goto("sm", "idle")
  /\ UNCHANGED <<buffer, work, result, passed, mark, history, scenario>>

\* The engine's evaluation of a step, from the new entries of the buffer or,
\* when there are none, from the counters.
New == {i \in DOMAIN s_checks : i > mark.ncheck}
StepOk ==
  IF Len(s_checks) > mark.ncheck THEN \A i \in New : s_checks[i].pass
  ELSE s_total > mark.total => s_pass - mark.pass = s_total - mark.total

JudgeStep ==
  /\ phase["recipe"] = "judge"
  /\ passed' = [passed EXCEPT !["recipe"] = StepOk]
  /\ Goto("recipe", "judged")
  /\ UNCHANGED <<buffer, work, result, mark, sm, history, scenario>>

\* The engine goes on; after a failure it may also stop (see RecipeEngine).
NextStep ==
  /\ phase["recipe"] = "judged"
  /\ \E p \in {plan["recipe"]} \cup (IF passed["recipe"] THEN {} ELSE {<<>>}) :
       plan' = [plan EXCEPT !["recipe"] = p]
  /\ Goto("recipe", "next")
  /\ UNCHANGED <<buffer, ahead, result, passed, mark, sm, history, scenario>>

RecipeDone ==
  /\ phase["recipe"] = "next" /\ plan["recipe"] = <<>>
  /\ sm' = "IDLE" /\ Goto("recipe", "idle")
  /\ UNCHANGED <<buffer, work, result, passed, mark, history, scenario>>

\* The operator clears SELFTEST FAIL.
Cleared ==
  /\ sm = "SELFTEST_FAIL" /\ sm' = "IDLE"
  /\ UNCHANGED <<buffer, phase, work, result, passed, mark, history, scenario>>

Step(t) == \/ Reset(t) \/ BeginPrimitive(t) \/ Report(t) \/ ReportOnly(t) \/ Record(t)
           \/ RecordUnreported(t) \/ EndPrimitive(t) \/ Conclude(t) \/ Publish(t)

Next ==
  \/ \E t \in Tasks : AskSelftest(t) \/ Step(t)
  \/ selftest_run_sm \/ NoMemory \/ RecipeStarts
  \/ Notify \/ JudgeStep \/ NextStep \/ RecipeDone \/ Cleared

\* The tasks are scheduled; nobody has to ask for anything.
Spec ==
  /\ Init /\ [][Next]_vars
  /\ \A t \in Tasks : WF_vars(Step(t))
  /\ WF_vars(Notify)

-----------------------------------------------------------------------------
(***************************************************************************)
(* Properties.                                                             *)
(***************************************************************************)
\* One task after another, as the operator and the state machine intend.
Orderly == "overlap" \notin scenario

(***************************************************************************)
(* developer.md:239, "Quick selftest passes": the verdict of a selftest is *)
(* the one of the reports it has made itself, whatever ran before it and   *)
(* however full the buffer is (selftest_task).  A selftest that starts     *)
(* meanwhile resets the counters of both, and breaks this.                 *)
(***************************************************************************)
VerdictIsOwn ==
  Orderly => \A t \in Tasks :
    phase[t] \in {"publish", "notify"} => passed[t] = (own[t].reported /\ own[t].flawless)

(***************************************************************************)
(* recipe_engine.c:168-182, one task after another: the engine fails a     *)
(* step exactly for a failure of its own that it can see, which is a       *)
(* failed check of the step in the buffer or, when the step has no check   *)
(* there, a failed report.  No failure of an earlier step or selftest      *)
(* fails it, and the full buffer of earlier checks hides no failure that   *)
(* has been reported.  The failures it cannot see do pass: a check of      *)
(* g3_primitives.c that found the buffer full, a dropped check beside a    *)
(* kept one, a report beside passed records.                               *)
(***************************************************************************)
Visible(o) == o.failed \/ (o.misreported /\ ~o.kept)

StepJudgedByOwn ==
  Orderly /\ phase["recipe"] = "judged" => passed["recipe"] = ~Visible(own["recipe"])

(***************************************************************************)
(* cmd_selftest.h:24, "notifies tc_sm_selftest_done() on completion": the  *)
(* state machine does not stay in PRECHECK, whatever runs beside it, if    *)
(* there was memory for the task.                                          *)
(***************************************************************************)
PrecheckEnds == "nomem" \notin scenario /\ sm = "PRECHECK" ~> sm # "PRECHECK"
=============================================================================
