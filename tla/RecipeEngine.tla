---------------------------- MODULE RecipeEngine ----------------------------
(***************************************************************************)
(* One call of recipe_engine_run (src/src/recipe_engine.c): the loop over  *)
(* the steps of a JSON recipe, the retries of a step through its recovery  *)
(* branch, the criticality rules and the verdict.  The primitives are the  *)
(* environment: running one appends checks to the buffer of                *)
(* src/src/cmd_selftest.c (selftest_check_record) and bumps its report()   *)
(* counters, and the engine decides from those two whether the step passed.*)
(*                                                                         *)
(* The data is abstracted to what the verdict depends on.  The check       *)
(* buffer is its length nCheck and the set of positions that hold a failed *)
(* check; a step names its branch, or "abort"/"skip", in on_error; a step  *)
(* knows whether recipe_primitives_lookup finds its primitive; elapsed     *)
(* time is one bit, expired, that only ever becomes TRUE.                  *)
(***************************************************************************)
EXTENDS Integers, Sequences, FiniteSets

CONSTANTS
  Recipes,     \* the recipes a run may be given
  Effects,     \* what one execution of a primitive may add to the check buffer
  MaxChecks    \* capacity of the check buffer (MAX_CHECKS = 128 in the code)

Criticality == {"REQUIRED", "CRITICAL", "OPTIONAL"}

(***************************************************************************)
(* A branch name in on_error that recovery_branches does not have is the   *)
(* find_branch(...) == NULL case: the step is then "recovery", has no      *)
(* retries, and still does not abort the run.  A branch's retry_after is   *)
(* parsed, but the engine never reads it.                                  *)
(***************************************************************************)
StepType == [enabled : BOOLEAN, requires_pass : BOOLEAN, known : BOOLEAN,
             criticality : Criticality, on_error : STRING]

IsRecipe(r) ==
  /\ r.steps \in Seq(StepType)
  /\ \A b \in DOMAIN r.branches :
       /\ r.branches[b].max_attempts \in 0..255
       /\ r.branches[b].steps \in Seq(BOOLEAN)   \* is the primitive known?
  /\ r.timed \in BOOLEAN                         \* timeout_ms > 0

(***************************************************************************)
(* checks: selftest_check_record calls, of which those in bad failed;      *)
(* reports: report() calls, of which good passed.                          *)
(***************************************************************************)
IsEffect(e) ==
  /\ e.checks \in Nat
  /\ e.bad \in SUBSET (1..e.checks)
  /\ e.reports \in Nat
  /\ e.good \in 0..e.reports

ASSUME RecipesAssumption == \A r \in Recipes : IsRecipe(r)
ASSUME EffectsAssumption == \A e \in Effects : IsEffect(e)
ASSUME MaxChecksAssumption == MaxChecks \in Nat

VARIABLES
  recipe,             \* the recipe being run
  pc,                 \* where recipe_engine_run is
  cur,                \* index of the current step (i in the code, from 1)
  attempts,           \* attempts already made at the current step
  rstep,              \* index of the current step of the recovery branch
  step_ok,            \* did the last attempt pass?
  nCheck,             \* s_ncheck
  failedChecks,       \* the positions below s_ncheck whose check failed
  total,              \* s_total
  passed,             \* s_pass
  mark,               \* the three counters as read before the primitive ran
  verdict,            \* step_results: verdict of every step
  pass_count, total_count,
  failed_step,        \* result->failed_step, 0 when empty
  any_required_fail,
  aborted,
  outcome,            \* result->outcome; memset leaves it PASS while running
  expired,            \* timeout_ms > 0 and elapsed > timeout_ms
  dutPower,           \* is DUT power on?
  attempt             \* history: what the last attempt of each step has done

bufferVars == <<nCheck, failedChecks, total, passed>>
resultVars == <<verdict, pass_count, total_count, failed_step, any_required_fail,
                aborted, outcome>>
stepVars   == <<cur, attempts, rstep, step_ok>>
vars == <<recipe, pc, stepVars, bufferVars, mark, resultVars, expired, dutPower, attempt>>

-----------------------------------------------------------------------------
Steps      == recipe.steps
Step       == recipe.steps[cur]
IsBranch(s)   == s.on_error \in DOMAIN recipe.branches
IsRecovery(s) == s.on_error \notin {"abort", "skip"}
Branch     == recipe.branches[Step.on_error]

\* max_retries: one attempt, and one more for each use of the branch.
MaxRetries == IF IsBranch(Step) THEN 1 + Branch.max_attempts ELSE 1

\* Mutation: the Gap-1 gate is missing.
SkippedUngated(s) == ~s.enabled \/ ~s.known

\* The steps the loop passes over without running anything.
Skipped(s) == ~s.enabled \/ (s.requires_pass /\ any_required_fail) \/ ~s.known

(***************************************************************************)
(* What an execution has done, computed without the engine's marks: did a  *)
(* check fail that found room in the buffer; did a report fail; did any    *)
(* check find room?                                                        *)
(***************************************************************************)
AttemptOf(e) ==
  LET room == {k \in 1..e.checks : nCheck + k <= MaxChecks}
  IN [failed      |-> e.bad \cap room # {},
      misreported |-> e.good # e.reports,
      recorded    |-> room # {}]

NoAttempt == [failed |-> FALSE, misreported |-> FALSE, recorded |-> FALSE]

\* Does a REQUIRED failure of this step end the loop?  Mutation: it never does.
StopsLenient(s) == FALSE
StopsOnFailure(s) == ~IsRecovery(s) /\ s.on_error # "skip"

\* Mutation: st_record without its bound.
LandsUncapped(e) ==
  /\ nCheck' = nCheck + e.checks
  /\ failedChecks' = failedChecks \cup {nCheck + k : k \in e.bad}
  /\ total' = total + e.reports
  /\ passed' = passed + e.good

(***************************************************************************)
(* st_record drops a check when the buffer is full.                        *)
(***************************************************************************)
Lands(e) ==
  LET after == nCheck + e.checks
  IN /\ nCheck' = IF after <= MaxChecks THEN after ELSE MaxChecks
     /\ failedChecks' = failedChecks \cup
                        {nCheck + k : k \in {b \in e.bad : nCheck + b <= MaxChecks}}
     /\ total' = total + e.reports
     /\ passed' = passed + e.good

\* Mutation: the scan of the new checks starts one too late.
EvaluationLate ==
  IF nCheck > mark.nCheck
    THEN \A k \in failedChecks : k <= mark.nCheck + 1
    ELSE total > mark.total => passed - mark.passed = total - mark.total

(***************************************************************************)
(* The engine's evaluation of an execution: from the checks that arrived   *)
(* since the mark, else from the report() counters, else it passed.        *)
(***************************************************************************)
Evaluation ==
  IF nCheck > mark.nCheck
    THEN \A k \in failedChecks : k <= mark.nCheck
    ELSE total > mark.total => passed - mark.passed = total - mark.total

Mark == [nCheck |-> nCheck, total |-> total, passed |-> passed]

-----------------------------------------------------------------------------
\* memset(result), selftest_reset_checks, and the locals' initial values.
Init ==
  /\ recipe \in Recipes
  /\ pc = "step"
  /\ cur = 1 /\ attempts = 0 /\ rstep = 1 /\ step_ok = FALSE
  /\ nCheck = 0 /\ failedChecks = {} /\ total = 0 /\ passed = 0
  /\ mark = Mark
  /\ verdict = [i \in DOMAIN Steps |-> "none"]
  /\ pass_count = 0 /\ total_count = 0 /\ failed_step = 0
  /\ any_required_fail = FALSE /\ aborted = FALSE /\ outcome = "PASS"
  /\ expired = FALSE
  /\ dutPower \in BOOLEAN      \* the pre-test gate leaves it on, the console off
  /\ attempt = [i \in DOMAIN Steps |-> NoAttempt]

SkipStep ==
  /\ pc = "step" /\ cur <= Len(Steps) /\ Skipped(Step)
  /\ cur' = cur + 1
  /\ UNCHANGED <<recipe, pc, attempts, rstep, step_ok, bufferVars, mark, resultVars,
                 expired, dutPower, attempt>>

BeginStep ==
  /\ pc = "step" /\ cur <= Len(Steps) /\ ~Skipped(Step)
  /\ pc' = "run"
  /\ attempts' = 0 /\ step_ok' = FALSE
  /\ UNCHANGED <<recipe, cur, rstep, bufferVars, mark, resultVars, expired, dutPower,
                 attempt>>

LoopEnds ==
  /\ pc = "step" /\ cur > Len(Steps)
  /\ pc' = "finish"
  /\ UNCHANGED <<recipe, stepVars, bufferVars, mark, resultVars, expired, dutPower,
                 attempt>>

\* A primitive may switch DUT power and takes time.
PrimitiveRuns(e) ==
  /\ Lands(e)
  /\ mark' = Mark
  /\ dutPower' \in BOOLEAN
  /\ expired' \in {expired, recipe.timed}

RunPrimitive(e) ==
  /\ pc = "run"
  /\ PrimitiveRuns(e)
  /\ attempt' = [attempt EXCEPT ![cur] = AttemptOf(e)]
  /\ pc' = "judge"
  /\ UNCHANGED <<recipe, stepVars, resultVars>>

\* A failed attempt with attempts left goes through the recovery branch.
JudgeAttempt ==
  /\ pc = "judge"
  /\ step_ok' = Evaluation
  /\ \/ /\ ~step_ok' /\ attempts + 1 < MaxRetries
        /\ rstep' = 1
        /\ pc' = "recover"
     \/ /\ step_ok' \/ attempts + 1 >= MaxRetries
        /\ pc' = "record"
        /\ UNCHANGED rstep
  /\ UNCHANGED <<recipe, cur, attempts, bufferVars, mark, resultVars, expired, dutPower,
                 attempt>>

\* run_recovery_branch: one step of the branch; an unknown primitive fails it.
RunRecovery(e) ==
  /\ pc = "recover" /\ rstep <= Len(Branch.steps) /\ Branch.steps[rstep]
  /\ PrimitiveRuns(e)
  /\ pc' = "judge_recovery"
  /\ UNCHANGED <<recipe, stepVars, resultVars, attempt>>

RecoveryUnknown ==
  /\ pc = "recover" /\ rstep <= Len(Branch.steps) /\ ~Branch.steps[rstep]
  /\ pc' = "record"
  /\ UNCHANGED <<recipe, stepVars, bufferVars, mark, resultVars, expired, dutPower,
                 attempt>>

\* The counter of the branch's loop.  Mutation: it stands still.
SameRecoveryStep == rstep
NextRecoveryStep == rstep + 1

JudgeRecovery ==
  /\ pc = "judge_recovery"
  /\ \/ /\ Evaluation
        /\ rstep' = NextRecoveryStep
        /\ pc' = "recover"
     \/ /\ ~Evaluation
        /\ pc' = "record"
        /\ UNCHANGED rstep
  /\ UNCHANGED <<recipe, cur, attempts, step_ok, bufferVars, mark, resultVars, expired,
                 dutPower, attempt>>

\* Every step of the branch passed: retry the step.
RecoveryDone ==
  /\ pc = "recover" /\ rstep > Len(Branch.steps)
  /\ attempts' = attempts + 1
  /\ pc' = "run"
  /\ UNCHANGED <<recipe, cur, rstep, step_ok, bufferVars, mark, resultVars, expired,
                 dutPower, attempt>>
-----------------------------------------------------------------------------
Count(ok) ==
  /\ verdict' = [verdict EXCEPT ![cur] = IF ok THEN "pass" ELSE "fail"]
  /\ total_count' = total_count + 1
  /\ pass_count' = IF ok THEN pass_count + 1 ELSE pass_count

\* failed_step keeps the first name it got.  Mutation: the last.
LatestFailure == cur
Failure == IF failed_step = 0 THEN cur ELSE failed_step

TimedOut == recipe.timed /\ expired

\* The bottom of the loop body: the timeout check, then the next step.
NextStepOrTimeout ==
  IF TimedOut
    THEN outcome' = "TIMEOUT" /\ pc' = "finish" /\ UNCHANGED cur
    ELSE cur' = cur + 1 /\ pc' = "step" /\ UNCHANGED outcome

RecordPass ==
  /\ pc = "record" /\ step_ok
  /\ Count(TRUE)
  /\ NextStepOrTimeout
  /\ failed_step' = IF TimedOut THEN Failure ELSE failed_step
  /\ UNCHANGED <<recipe, attempts, rstep, step_ok, bufferVars, mark, any_required_fail,
                 aborted, expired, dutPower, attempt>>

\* g3_critical_abort switches the DUT off.  Mutation: the call is missing.
NoCriticalAbort == UNCHANGED dutPower
CriticalAbort == dutPower' = FALSE

\* STEP_CRITICALITY_CRITICAL: g3_critical_abort() and out of the loop.
RecordCritical ==
  /\ pc = "record" /\ ~step_ok /\ Step.criticality = "CRITICAL"
  /\ Count(FALSE)
  /\ failed_step' = cur
  /\ CriticalAbort
  /\ outcome' = "ABORT"
  /\ aborted' = TRUE
  /\ pc' = "finish"
  /\ UNCHANGED <<recipe, stepVars, bufferVars, mark, any_required_fail, expired, attempt>>

\* STEP_CRITICALITY_REQUIRED that stops on failure: out of the loop.
RecordRequiredAbort ==
  /\ pc = "record" /\ ~step_ok /\ Step.criticality = "REQUIRED"
  /\ StopsOnFailure(Step)
  /\ Count(FALSE)
  /\ failed_step' = Failure
  /\ any_required_fail' = TRUE
  /\ aborted' = TRUE
  /\ pc' = "finish"
  /\ UNCHANGED <<recipe, stepVars, bufferVars, mark, outcome, expired, dutPower, attempt>>

\* STEP_CRITICALITY_REQUIRED that goes on: on_error = "skip" or a recovery.
RecordRequiredContinue ==
  /\ pc = "record" /\ ~step_ok /\ Step.criticality = "REQUIRED"
  /\ ~StopsOnFailure(Step)
  /\ Count(FALSE)
  /\ any_required_fail' = TRUE
  /\ failed_step' = Failure
  /\ NextStepOrTimeout
  /\ UNCHANGED <<recipe, attempts, rstep, step_ok, bufferVars, mark, aborted, expired,
                 dutPower, attempt>>

\* STEP_CRITICALITY_OPTIONAL: advisory only.
RecordOptional ==
  /\ pc = "record" /\ ~step_ok /\ Step.criticality = "OPTIONAL"
  /\ Count(FALSE)
  /\ NextStepOrTimeout
  /\ failed_step' = IF TimedOut THEN Failure ELSE failed_step
  /\ UNCHANGED <<recipe, attempts, rstep, step_ok, bufferVars, mark, any_required_fail,
                 aborted, expired, dutPower, attempt>>

\* Mutation: a REQUIRED failure the loop survived is forgotten.
VerdictOfAbort == IF outcome \in {"TIMEOUT", "ABORT"} THEN outcome
                  ELSE IF aborted THEN "FAIL" ELSE "PASS"

Verdict == IF outcome \in {"TIMEOUT", "ABORT"} THEN outcome
           ELSE IF aborted \/ any_required_fail THEN "FAIL" ELSE "PASS"

\* done: the verdict, unless TIMEOUT or ABORT is already it.
Finish ==
  /\ pc = "finish"
  /\ outcome' = Verdict
  /\ pc' = "done"
  /\ UNCHANGED <<recipe, stepVars, bufferVars, mark, verdict, pass_count, total_count,
                 failed_step, any_required_fail, aborted, expired, dutPower, attempt>>

Record == RecordPass \/ RecordCritical \/ RecordRequiredAbort \/ RecordRequiredContinue
          \/ RecordOptional

Next ==
  \/ SkipStep \/ BeginStep \/ LoopEnds
  \/ \E e \in Effects : RunPrimitive(e) \/ RunRecovery(e)
  \/ JudgeAttempt \/ JudgeRecovery \/ RecoveryUnknown \/ RecoveryDone
  \/ Record
  \/ Finish

\* The engine is one task of the scheduler and every primitive has a timeout.
Spec == Init /\ [][Next]_vars /\ WF_vars(Next)
-----------------------------------------------------------------------------
(***************************************************************************)
(* Properties.                                                             *)
(***************************************************************************)
Counts(s) == s.criticality # "OPTIONAL"
FailedBefore(i) == {j \in DOMAIN Steps : j < i /\ Counts(Steps[j]) /\ verdict[j] = "fail"}
HasFailed(level) ==
  \E i \in DOMAIN Steps : verdict[i] = "fail" /\ Steps[i].criticality = level
Executing == pc \in {"run", "judge", "recover", "judge_recovery", "record"}

Attempts == [failed : BOOLEAN, misreported : BOOLEAN, recorded : BOOLEAN]

(***************************************************************************)
(* Every variable has its type; in particular s_ncheck never passes the    *)
(* end of s_checks, and the counters of the marks never exceed the live    *)
(* ones.                                                                   *)
(***************************************************************************)
TypeOK ==
  /\ recipe \in Recipes
  /\ pc \in {"step", "run", "judge", "recover", "judge_recovery", "record", "finish", "done"}
  /\ cur \in 1..(Len(Steps) + 1)
  /\ Executing => cur \in DOMAIN Steps
  /\ attempts \in Nat /\ rstep \in Nat \ {0} /\ step_ok \in BOOLEAN
  /\ nCheck \in 0..MaxChecks /\ failedChecks \subseteq 1..nCheck
  /\ total \in Nat /\ passed \in 0..total
  /\ mark \in [nCheck : 0..nCheck, total : 0..total, passed : 0..passed]
  /\ verdict \in [DOMAIN Steps -> {"none", "pass", "fail"}]
  /\ total_count \in Nat /\ pass_count \in 0..total_count
  /\ failed_step \in 0..Len(Steps)
  /\ any_required_fail \in BOOLEAN /\ aborted \in BOOLEAN
  /\ outcome \in {"PASS", "FAIL", "ABORT", "TIMEOUT"}
  /\ expired \in BOOLEAN /\ dutPower \in BOOLEAN
  /\ attempt \in [DOMAIN Steps -> Attempts]

(***************************************************************************)
(* The failures of an attempt that recipe_engine.c:168-182 can see: a      *)
(* failed check in the buffer, or, only when the attempt has left no check *)
(* there, a failed report.                                                 *)
(***************************************************************************)
Visible(a) == a.failed \/ (a.misreported /\ ~a.recorded)

(***************************************************************************)
(* A run that returns PASS ran no REQUIRED or CRITICAL step whose last     *)
(* attempt had a visible failure: however checks of earlier steps, of      *)
(* failed attempts and of recovery branches lie in the buffer, and also    *)
(* when it is full, the deltas the engine computes are those of the        *)
(* attempt.  A failure that is not visible does pass, even of a CRITICAL   *)
(* step: a failed check that found the buffer full and has no report, as   *)
(* those of g3_primitives.c, and a failed report beside recorded checks,   *)
(* as "ADC128: init failed" of run_i2c (cmd_selftest.c:191).               *)
(***************************************************************************)
PassSound ==
  pc = "done" /\ outcome = "PASS" =>
    \A i \in DOMAIN Steps : Counts(Steps[i]) => ~Visible(attempt[i])

(***************************************************************************)
(* From the moment a CRITICAL step is recorded as failed the DUT has no    *)
(* power, nothing else runs, and the verdict is ABORT.                     *)
(***************************************************************************)
CriticalCutsPower ==
  (\E i \in DOMAIN Steps : verdict[i] = "fail" /\ Steps[i].criticality = "CRITICAL")
    => pc \in {"finish", "done"} /\ outcome = "ABORT" /\ ~dutPower

(***************************************************************************)
(* Gap-1 gate: a requires_pass step (programming production firmware) is   *)
(* neither running nor has it run if a REQUIRED or CRITICAL step before it *)
(* failed.                                                                 *)
(***************************************************************************)
ProductionGate ==
  \A i \in DOMAIN Steps :
    Steps[i].requires_pass /\ (verdict[i] # "none" \/ (Executing /\ cur = i))
      => FailedBefore(i) = {}

(***************************************************************************)
(* A REQUIRED failure with on_error "abort" and a CRITICAL failure are the *)
(* last thing that happens: no later step runs or is recorded.             *)
(***************************************************************************)
AbortStops ==
  \A i \in DOMAIN Steps :
    /\ verdict[i] = "fail"
    /\ \/ Steps[i].criticality = "CRITICAL"
       \/ Steps[i].criticality = "REQUIRED" /\ Steps[i].on_error = "abort"
    => /\ pc \in {"finish", "done"}
       /\ \A j \in DOMAIN Steps : j > i => verdict[j] = "none"

(***************************************************************************)
(* The failed_step handed to tc_sm_recipe_done names the cause of the      *)
(* verdict: the CRITICAL step of an ABORT, the first failure that counts   *)
(* of a FAIL, some step of a TIMEOUT, nothing on a PASS.                   *)
(***************************************************************************)
FailedStepNamesCause ==
  pc = "done" =>
    CASE outcome = "PASS"    -> failed_step = 0
      [] outcome = "TIMEOUT" -> failed_step # 0
      [] outcome = "ABORT"   -> /\ failed_step # 0
                                /\ verdict[failed_step] = "fail"
                                /\ Steps[failed_step].criticality = "CRITICAL"
      [] outcome = "FAIL"    -> /\ failed_step # 0
                                /\ verdict[failed_step] = "fail"
                                /\ Steps[failed_step].criticality = "REQUIRED"
                                /\ FailedBefore(failed_step) = {}

(***************************************************************************)
(* The inductive invariant behind the safety properties above, by parts.   *)
(***************************************************************************)
InLoop == pc \notin {"finish", "done"}

\* Steps are recorded in order and at most once.
Chronology ==
  /\ \A j \in DOMAIN Steps : j > cur => verdict[j] = "none"
  /\ InLoop => \A j \in DOMAIN Steps : j >= cur => verdict[j] = "none"

\* The engine's flags against the recorded results.
Flags ==
  /\ any_required_fail <=> HasFailed("REQUIRED")
  /\ InLoop => outcome = "PASS" /\ ~aborted /\ ~HasFailed("CRITICAL")
  /\ ~InLoop =>
       \/ outcome = "PASS" /\ ~any_required_fail /\ ~aborted /\ ~HasFailed("CRITICAL")
       \/ /\ outcome = IF pc = "done" THEN "FAIL" ELSE "PASS"
          /\ any_required_fail /\ ~HasFailed("CRITICAL")
       \/ outcome = "TIMEOUT" /\ failed_step # 0 /\ ~HasFailed("CRITICAL")
       \/ /\ outcome = "ABORT" /\ failed_step # 0 /\ verdict[failed_step] = "fail"
          /\ Steps[failed_step].criticality = "CRITICAL"

\* failed_step is the first failure that counts, until a timeout or an abort.
FirstFailure ==
  outcome \in {"PASS", "FAIL"} =>
    /\ failed_step = 0 <=> ~any_required_fail
    /\ failed_step # 0 => /\ verdict[failed_step] = "fail"
                          /\ Steps[failed_step].criticality = "REQUIRED"
                          /\ FailedBefore(failed_step) = {}

\* What step_ok and the verdicts say of the attempts.
Attribution ==
  /\ \A i \in DOMAIN Steps :
       /\ Visible(attempt[i]) => verdict[i] # "none" \/ (Executing /\ i = cur)
       /\ verdict[i] = "pass" => ~Visible(attempt[i])
  /\ pc = "judge" /\ Evaluation => ~Visible(attempt[cur])
  /\ pc = "record" /\ step_ok => ~Visible(attempt[cur])

SafetyInv == TypeOK /\ Chronology /\ Flags /\ FirstFailure /\ CriticalCutsPower
             /\ AbortStops /\ ProductionGate

\* The engine always returns: no chain of retries and recoveries is endless.
Termination == <>(pc = "done")

(***************************************************************************)
(* The engine implements RecipeVerdict.  worst is read off the recorded    *)
(* step results, not off the flags the engine keeps for itself.            *)
(***************************************************************************)
Worst == IF HasFailed("CRITICAL") THEN "CRITICAL"
         ELSE IF HasFailed("REQUIRED") THEN "REQUIRED" ELSE "none"

Promise == INSTANCE RecipeVerdict
             WITH worst <- Worst, verdict <- IF pc = "done" THEN outcome ELSE "running"

ImplementsVerdict == Promise!Spec
=============================================================================
