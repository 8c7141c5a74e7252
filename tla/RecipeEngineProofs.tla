------------------------- MODULE RecipeEngineProofs -------------------------
(***************************************************************************)
(* Proofs about RecipeEngine, for every set of recipes and of primitive    *)
(* effects and every capacity of the check buffer.                         *)
(***************************************************************************)
EXTENDS RecipeEngine, TLAPS

(***************************************************************************)
(* A recipe of Recipes has a sequence of steps with the expected fields.   *)
(***************************************************************************)
LEMMA RecipeShape ==
  ASSUME NEW r \in Recipes
  PROVE  /\ Len(r.steps) \in Nat
         /\ DOMAIN r.steps = 1..Len(r.steps)
         /\ \A i \in DOMAIN r.steps : /\ r.steps[i].criticality \in Criticality
                                      /\ r.steps[i].enabled \in BOOLEAN
                                      /\ r.steps[i].requires_pass \in BOOLEAN
         /\ \A b \in DOMAIN r.branches : /\ r.branches[b].max_attempts \in Nat
                                         /\ Len(r.branches[b].steps) \in Nat
         /\ r.timed \in BOOLEAN
<1>1. /\ r.steps \in Seq(StepType)
      /\ \A b \in DOMAIN r.branches : /\ r.branches[b].max_attempts \in 0..255
                                      /\ r.branches[b].steps \in Seq(BOOLEAN)
      /\ r.timed \in BOOLEAN
  BY RecipesAssumption, Zenon DEF IsRecipe
<1>2. ASSUME NEW q \in Seq(BOOLEAN) PROVE Len(q) \in Nat
  OBVIOUS
<1>3. \A b \in DOMAIN r.branches : /\ r.branches[b].max_attempts \in Nat
                                   /\ Len(r.branches[b].steps) \in Nat
  <2>1. \A n : n \in 0..255 => n \in Nat
    OBVIOUS
  <2>2. QED
    BY <1>1, <1>2, <2>1, Zenon
<1>4. ASSUME NEW S, NEW q \in Seq(S)
      PROVE  /\ Len(q) \in Nat /\ DOMAIN q = 1..Len(q)
             /\ \A i \in DOMAIN q : q[i] \in S
  OBVIOUS
<1>5. \A s \in StepType : s.criticality \in Criticality /\ s.enabled \in BOOLEAN
                          /\ s.requires_pass \in BOOLEAN
  BY DEF StepType
<1>6. QED
  BY <1>1, <1>3, <1>4, <1>5, Zenon

(***************************************************************************)
(* Running a primitive keeps the check buffer and its marks well typed.    *)
(***************************************************************************)
LEMMA LandsType ==
  ASSUME TypeOK, NEW e \in Effects, PrimitiveRuns(e)
  PROVE  /\ nCheck' \in 0..MaxChecks /\ failedChecks' \subseteq 1..nCheck'
         /\ total' \in Nat /\ passed' \in 0..total'
         /\ mark' \in [nCheck : 0..nCheck', total : 0..total', passed : 0..passed']
         /\ expired' \in BOOLEAN /\ dutPower' \in BOOLEAN
<1>1. /\ e.checks \in Nat /\ e.bad \in SUBSET (1..e.checks)
      /\ e.reports \in Nat /\ e.good \in 0..e.reports
  BY EffectsAssumption DEF IsEffect
<1>2. /\ nCheck' \in 0..MaxChecks /\ nCheck <= nCheck'
      /\ \A b \in e.bad : nCheck + b <= MaxChecks => nCheck + b \in 1..nCheck'
  <2>1. nCheck \in 0..MaxChecks
    BY DEF TypeOK
  <2>2. nCheck' = IF nCheck + e.checks <= MaxChecks THEN nCheck + e.checks ELSE MaxChecks
    BY DEF PrimitiveRuns, Lands
  <2>3. QED
    BY <1>1, <2>1, <2>2, MaxChecksAssumption
<1>3. failedChecks' \subseteq 1..nCheck'
  <2>1. failedChecks \subseteq 1..nCheck'
    BY <1>2, MaxChecksAssumption DEF TypeOK
  <2>2. \A k \in {nCheck + k : k \in {b \in e.bad : nCheck + b <= MaxChecks}} : k \in 1..nCheck'
    BY <1>2
  <2>3. QED
    BY <2>1, <2>2 DEF PrimitiveRuns, Lands
<1>4. /\ total' \in Nat /\ total <= total' /\ passed' \in 0..total' /\ passed <= passed'
  <2>1. total \in Nat /\ passed \in 0..total
    BY DEF TypeOK
  <2>2. total' = total + e.reports /\ passed' = passed + e.good
    BY DEF PrimitiveRuns, Lands
  <2>3. QED
    BY <1>1, <2>1, <2>2
<1>5. mark' \in [nCheck : 0..nCheck', total : 0..total', passed : 0..passed']
  BY <1>2, <1>4, MaxChecksAssumption DEF TypeOK, PrimitiveRuns, Mark
<1>6. recipe.timed \in BOOLEAN
  BY RecipeShape DEF TypeOK
<1>7. expired' \in BOOLEAN /\ dutPower' \in BOOLEAN
  BY <1>1, <1>6, MaxChecksAssumption DEF TypeOK, PrimitiveRuns, Lands
<1>8. QED
  BY <1>2, <1>3, <1>4, <1>5, <1>7

(***************************************************************************)
(* Every variable has its type in every reachable state: the check buffer  *)
(* never overruns s_checks, failed_step names a step of the recipe, and    *)
(* the engine never runs a step past the end of the recipe.                *)
(***************************************************************************)
LEMMA InitType == Init => TypeOK
<1> SUFFICES ASSUME Init PROVE TypeOK
  OBVIOUS
<1>1. recipe \in Recipes /\ Len(Steps) \in Nat
  BY RecipeShape DEF Init, Steps
<1>2. nCheck \in 0..MaxChecks /\ failedChecks \subseteq 1..nCheck
  BY MaxChecksAssumption DEF Init
<1>3. mark \in [nCheck : 0..nCheck, total : 0..total, passed : 0..passed]
  BY DEF Init, Mark
<1>4. /\ cur \in 1..(Len(Steps) + 1) /\ ~Executing
      /\ attempts \in Nat /\ rstep \in Nat \ {0}
      /\ total \in Nat /\ passed \in 0..total
      /\ total_count \in Nat /\ pass_count \in 0..total_count
      /\ failed_step \in 0..Len(Steps)
  BY <1>1 DEF Init, Executing
<1>5. /\ verdict \in [DOMAIN Steps -> {"none", "pass", "fail"}]
      /\ attempt \in [DOMAIN Steps -> Attempts]
  BY DEF Init, NoAttempt, Attempts
<1>6. QED
  BY <1>1, <1>2, <1>3, <1>4, <1>5 DEF Init, TypeOK

LEMMA NextType == TypeOK /\ [Next]_vars => TypeOK'
<1> SUFFICES ASSUME TypeOK, [Next]_vars PROVE TypeOK'
  OBVIOUS
<1>0. /\ Len(Steps) \in Nat /\ DOMAIN Steps = 1..Len(Steps)
      /\ recipe.timed \in BOOLEAN
  BY RecipeShape DEF TypeOK, Steps
<1>a. recipe' = recipe => Steps' = Steps
  BY DEF Steps
<1>1. CASE SkipStep
  BY <1>a, <1>0, <1>1 DEF SkipStep, TypeOK, Executing, bufferVars, resultVars
<1>2. CASE BeginStep
  <2>1. cur \in DOMAIN Steps /\ Steps' = Steps /\ cur' = cur
    BY <1>a, <1>0, <1>2 DEF BeginStep, TypeOK
  <2>2. attempts' \in Nat /\ step_ok' \in BOOLEAN
    BY <1>2 DEF BeginStep
  <2>3. QED
    BY <1>2, <2>1, <2>2 DEF BeginStep, TypeOK, Executing, bufferVars, resultVars
<1>3. CASE LoopEnds
  BY <1>a, <1>3 DEF LoopEnds, TypeOK, Executing, stepVars, bufferVars, resultVars
<1>4. ASSUME NEW e \in Effects, RunPrimitive(e)
      PROVE  TypeOK'
  <2>1. PrimitiveRuns(e)
    BY <1>a, <1>4 DEF RunPrimitive
  <2>2. attempt' \in [DOMAIN Steps' -> Attempts]
    <3>1. AttemptOf(e) \in Attempts
      BY DEF AttemptOf, Attempts
    <3>2. QED
      BY <1>a, <1>4, <3>1 DEF RunPrimitive, TypeOK
  <2>3. QED
    BY <1>a, <1>4, <2>1, <2>2, LandsType
    DEF RunPrimitive, TypeOK, Executing, stepVars, resultVars
<1>5. ASSUME NEW e \in Effects, RunRecovery(e)
      PROVE  TypeOK'
  <2>1. PrimitiveRuns(e)
    BY <1>a, <1>5 DEF RunRecovery
  <2>2. QED
    BY <1>a, <1>5, <2>1, LandsType
    DEF RunRecovery, TypeOK, Executing, stepVars, resultVars
<1>6. CASE JudgeAttempt
  <2>1. step_ok' \in BOOLEAN
    BY <1>a, <1>6 DEF JudgeAttempt, Evaluation
  <2>2. QED
    BY <1>a, <1>6, <2>1 DEF JudgeAttempt, TypeOK, Executing, bufferVars, resultVars
<1>7. CASE JudgeRecovery
  BY <1>a, <1>7 DEF JudgeRecovery, NextRecoveryStep, TypeOK, Executing, bufferVars, resultVars
<1>8. CASE RecoveryUnknown
  BY <1>a, <1>8 DEF RecoveryUnknown, TypeOK, Executing, stepVars, bufferVars, resultVars
<1>9. CASE RecoveryDone
  BY <1>a, <1>9 DEF RecoveryDone, TypeOK, Executing, bufferVars, resultVars
<1>10. ASSUME pc = "record", NEW ok \in BOOLEAN, Count(ok)
       PROVE  /\ verdict' \in [DOMAIN Steps -> {"none", "pass", "fail"}]
              /\ total_count' \in Nat /\ pass_count' \in 0..total_count'
              /\ Failure \in 0..Len(Steps)
              /\ cur \in 1..Len(Steps)
  <2>1. cur \in 1..Len(Steps) /\ failed_step \in 0..Len(Steps)
    BY <1>0, <1>10 DEF TypeOK, Executing
  <2>2. Failure \in 0..Len(Steps)
    BY <1>0, <2>1 DEF Failure
  <2>3. verdict' \in [DOMAIN Steps -> {"none", "pass", "fail"}]
    BY <1>10 DEF Count, TypeOK
  <2>4. total_count' \in Nat /\ pass_count' \in 0..total_count'
    BY <1>10 DEF Count, TypeOK
  <2>5. QED
    BY <2>1, <2>2, <2>3, <2>4
<1>11. ASSUME cur \in 1..Len(Steps), NextStepOrTimeout
       PROVE  /\ cur' \in 1..(Len(Steps) + 1)
              /\ outcome' \in {"PASS", "FAIL", "ABORT", "TIMEOUT"} /\ pc' \in {"step", "finish"}
  BY <1>0, <1>11 DEF NextStepOrTimeout, TypeOK
<1>12. CASE RecordPass
  <2>1. pc = "record" /\ Count(TRUE) /\ recipe' = recipe
    BY <1>12 DEF RecordPass
  <2>2. cur \in 1..Len(Steps) /\ Failure \in 0..Len(Steps)
    BY <1>10, <2>1
  <2>3. failed_step' \in 0..Len(Steps)
    BY <1>0, <1>12, <2>2 DEF RecordPass, TypeOK
  <2>4. /\ cur' \in 1..(Len(Steps) + 1)
        /\ outcome' \in {"PASS", "FAIL", "ABORT", "TIMEOUT"} /\ pc' \in {"step", "finish"}
    BY <1>12, <1>11, <2>2 DEF RecordPass
  <2>5. QED
    BY <1>a, <1>10, <1>12, <2>1, <2>3, <2>4
    DEF RecordPass, TypeOK, Executing, bufferVars
<1>13. CASE RecordCritical
  <2>1. pc = "record" /\ Count(FALSE) /\ recipe' = recipe
    BY <1>13 DEF RecordCritical
  <2>2. cur \in 1..Len(Steps) /\ Failure \in 0..Len(Steps)
    BY <1>10, <2>1
  <2>3. failed_step' \in 0..Len(Steps)
    BY <1>0, <1>13, <2>2 DEF RecordCritical, TypeOK
  <2>4. cur' = cur /\ pc' = "finish"
    BY <1>13 DEF RecordCritical, stepVars
  <2>5. QED
    BY <1>a, <1>10, <1>13, <2>1, <2>3, <2>4
    DEF RecordCritical, CriticalAbort, stepVars, TypeOK, Executing, bufferVars
<1>14. CASE RecordRequiredAbort
  <2>1. pc = "record" /\ Count(FALSE) /\ recipe' = recipe
    BY <1>14 DEF RecordRequiredAbort
  <2>2. cur \in 1..Len(Steps) /\ Failure \in 0..Len(Steps)
    BY <1>10, <2>1
  <2>3. failed_step' \in 0..Len(Steps)
    BY <1>0, <1>14, <2>2 DEF RecordRequiredAbort, TypeOK
  <2>4. cur' = cur /\ pc' = "finish"
    BY <1>14 DEF RecordRequiredAbort, stepVars
  <2>5. QED
    BY <1>a, <1>10, <1>14, <2>1, <2>3, <2>4
    DEF RecordRequiredAbort, stepVars, TypeOK, Executing, bufferVars
<1>15. CASE RecordRequiredContinue
  <2>1. pc = "record" /\ Count(FALSE) /\ recipe' = recipe
    BY <1>15 DEF RecordRequiredContinue
  <2>2. cur \in 1..Len(Steps) /\ Failure \in 0..Len(Steps)
    BY <1>10, <2>1
  <2>3. failed_step' \in 0..Len(Steps)
    BY <1>0, <1>15, <2>2 DEF RecordRequiredContinue, TypeOK
  <2>4. /\ cur' \in 1..(Len(Steps) + 1)
        /\ outcome' \in {"PASS", "FAIL", "ABORT", "TIMEOUT"} /\ pc' \in {"step", "finish"}
    BY <1>15, <1>11, <2>2 DEF RecordRequiredContinue
  <2>5. QED
    BY <1>a, <1>10, <1>15, <2>1, <2>3, <2>4
    DEF RecordRequiredContinue, TypeOK, Executing, bufferVars
<1>16. CASE RecordOptional
  <2>1. pc = "record" /\ Count(FALSE) /\ recipe' = recipe
    BY <1>16 DEF RecordOptional
  <2>2. cur \in 1..Len(Steps) /\ Failure \in 0..Len(Steps)
    BY <1>10, <2>1
  <2>3. failed_step' \in 0..Len(Steps)
    BY <1>0, <1>16, <2>2 DEF RecordOptional, TypeOK
  <2>4. /\ cur' \in 1..(Len(Steps) + 1)
        /\ outcome' \in {"PASS", "FAIL", "ABORT", "TIMEOUT"} /\ pc' \in {"step", "finish"}
    BY <1>16, <1>11, <2>2 DEF RecordOptional
  <2>5. QED
    BY <1>a, <1>10, <1>16, <2>1, <2>3, <2>4
    DEF RecordOptional, TypeOK, Executing, bufferVars
<1>17. CASE Finish
  BY <1>a, <1>17 DEF Finish, Verdict, TypeOK, Executing, stepVars, bufferVars
<1>18. CASE UNCHANGED vars
  BY <1>a, <1>18 DEF vars, TypeOK, Executing, stepVars, bufferVars, resultVars
<1>19. QED
  BY <1>a, <1>1, <1>2, <1>3, <1>4, <1>5, <1>6, <1>7, <1>8, <1>9, <1>12, <1>13, <1>14, <1>15,
     <1>16, <1>17, <1>18 DEF Next, Record

THEOREM TypeCorrect == Spec => []TypeOK
<1>1. QED
  BY InitType, NextType, PTL DEF Spec

-----------------------------------------------------------------------------
(***************************************************************************)
(* Step f is the first step with a recorded failure that counts, a         *)
(* REQUIRED one, in the results v.                                         *)
(***************************************************************************)
IsFirstFailure(v, f) ==
  /\ v[f] = "fail" /\ Steps[f].criticality = "REQUIRED"
  /\ \A j \in DOMAIN Steps : j < f => ~(v[j] = "fail" /\ Counts(Steps[j]))

(***************************************************************************)
(* What recording the current step does to the predicates on the results.  *)
(***************************************************************************)
LEMMA RecordEffect ==
  ASSUME SafetyInv, pc = "record", NEW ok \in BOOLEAN, Count(ok), UNCHANGED recipe
  PROVE  /\ Steps' = Steps /\ cur \in DOMAIN Steps /\ verdict[cur] = "none"
         /\ verdict'[cur] = IF ok THEN "pass" ELSE "fail"
         /\ \A j \in DOMAIN Steps : j # cur => verdict'[j] = verdict[j]
         /\ \A j \in DOMAIN Steps : j > cur => verdict'[j] = "none"
         /\ \A i \in DOMAIN Steps : i <= cur => FailedBefore(i)' = FailedBefore(i)
<1>1. Steps' = Steps /\ cur \in DOMAIN Steps
  BY DEF Steps, SafetyInv, TypeOK, Executing
<1>2. DOMAIN Steps = 1..Len(Steps) /\ Len(Steps) \in Nat
  BY RecipeShape DEF SafetyInv, TypeOK, Steps
<1>3. /\ verdict[cur] = "none"
      /\ \A j \in DOMAIN Steps : j > cur => verdict[j] = "none"
  BY <1>1, <1>2 DEF SafetyInv, Chronology, InLoop
<1>4. /\ verdict'[cur] = IF ok THEN "pass" ELSE "fail"
      /\ \A j \in DOMAIN Steps : j # cur => verdict'[j] = verdict[j]
  BY <1>1 DEF Count, SafetyInv, TypeOK
<1>5. \A j \in DOMAIN Steps : j > cur => verdict'[j] = "none"
  BY <1>1, <1>2, <1>3, <1>4
<1>6. \A i \in DOMAIN Steps : i <= cur => FailedBefore(i)' = FailedBefore(i)
  <2> SUFFICES ASSUME NEW i \in DOMAIN Steps, i <= cur
               PROVE  FailedBefore(i)' = FailedBefore(i)
    OBVIOUS
  <2>1. \A j \in DOMAIN Steps : j < i => verdict'[j] = verdict[j]
    BY <1>1, <1>2, <1>4
  <2>2. QED
    BY <1>1, <2>1 DEF FailedBefore
<1>7. QED
  BY <1>1, <1>3, <1>4, <1>5, <1>6

(***************************************************************************)
(* While the loop goes on, no failure that ends it has been recorded.      *)
(***************************************************************************)
LEMMA LoopHasNoFatalFailure ==
  ASSUME SafetyInv, InLoop
  PROVE  /\ outcome = "PASS" /\ ~aborted /\ ~HasFailed("CRITICAL")
         /\ \A i \in DOMAIN Steps :
              ~ /\ verdict[i] = "fail"
                /\ \/ Steps[i].criticality = "CRITICAL"
                   \/ Steps[i].criticality = "REQUIRED" /\ Steps[i].on_error = "abort"
  BY DEF SafetyInv, Flags, AbortStops, InLoop

(***************************************************************************)
(* While the loop goes on and no REQUIRED step has failed, every recorded  *)
(* failure is an advisory one.                                             *)
(***************************************************************************)
LEMMA NothingCountsYet ==
  ASSUME SafetyInv, InLoop, ~any_required_fail
  PROVE  \A j \in DOMAIN Steps : verdict[j] = "fail" => ~Counts(Steps[j])
BY LoopHasNoFatalFailure, RecipeShape
DEF SafetyInv, Flags, HasFailed, Counts, Criticality, TypeOK, Steps

(***************************************************************************)
(* A step of the loop that records nothing keeps the safety invariant, if  *)
(* it begins a gated step only while no REQUIRED step has failed.          *)
(***************************************************************************)
LEMMA QuietStep ==
  ASSUME SafetyInv, TypeOK', UNCHANGED <<recipe, resultVars>>, InLoop, InLoop',
         cur' = cur \/ (cur' = cur + 1),
         Executing' => cur' = cur /\ (Executing \/ (Steps[cur].requires_pass => ~any_required_fail))
  PROVE  SafetyInv'
<1>1. /\ Steps' = Steps /\ verdict' = verdict /\ failed_step' = failed_step
      /\ any_required_fail' = any_required_fail /\ aborted' = aborted /\ outcome' = outcome
  BY DEF Steps, resultVars
<1>2. /\ \A l : HasFailed(l)' <=> HasFailed(l)
      /\ \A i : FailedBefore(i)' = FailedBefore(i)
  BY <1>1 DEF HasFailed, FailedBefore
<1>3. Chronology'
  <2>1. Len(Steps) \in Nat /\ DOMAIN Steps = 1..Len(Steps)
    BY RecipeShape DEF SafetyInv, TypeOK, Steps
  <2>2. cur \in 1..(Len(Steps) + 1)
    BY DEF SafetyInv, TypeOK
  <2>3. \A j \in DOMAIN Steps : j >= cur => verdict[j] = "none"
    BY DEF SafetyInv, Chronology
  <2>4. QED
    BY <1>1, <2>1, <2>2, <2>3 DEF Chronology
<1>4. Flags'
  BY <1>1, <1>2 DEF SafetyInv, Flags
<1>5. FirstFailure'
  BY <1>1, <1>2 DEF SafetyInv, FirstFailure
<1>6. CriticalCutsPower' /\ AbortStops'
  BY <1>1, LoopHasNoFatalFailure DEF CriticalCutsPower, AbortStops, HasFailed
<1>7. ProductionGate'
  <2> SUFFICES ASSUME NEW i \in DOMAIN Steps, Steps[i].requires_pass,
                      verdict[i] # "none" \/ (Executing' /\ cur' = i)
               PROVE  FailedBefore(i) = {}
    BY <1>1, <1>2 DEF ProductionGate
  <2>1. CASE verdict[i] # "none" \/ (Executing /\ cur = i)
    BY <2>1 DEF SafetyInv, ProductionGate
  <2>2. CASE cur = i /\ ~any_required_fail
    BY <2>2, NothingCountsYet DEF FailedBefore
  <2>3. QED
    BY <2>1, <2>2
<1>8. QED
  BY <1>3, <1>4, <1>5, <1>6, <1>7 DEF SafetyInv

(***************************************************************************)
(* Recording a result and going on to the next step keeps the safety       *)
(* invariant when the result is a pass, an advisory failure, or a REQUIRED *)
(* failure that does not stop the loop.                                    *)
(***************************************************************************)
LEMMA RecordAndGoOn ==
  ASSUME SafetyInv, TypeOK', pc = "record", NEW ok \in BOOLEAN, Count(ok),
         UNCHANGED <<recipe, aborted>>, NextStepOrTimeout,
         \/ /\ ok \/ Step.criticality = "OPTIONAL"
            /\ UNCHANGED any_required_fail
            /\ failed_step' = IF TimedOut THEN Failure ELSE failed_step
         \/ /\ ~ok /\ Step.criticality = "REQUIRED" /\ Step.on_error # "abort"
            /\ any_required_fail' = TRUE
            /\ failed_step' = Failure
  PROVE  SafetyInv'
<1>1. /\ Steps' = Steps /\ cur \in DOMAIN Steps /\ verdict[cur] = "none"
      /\ verdict'[cur] = IF ok THEN "pass" ELSE "fail"
      /\ \A j \in DOMAIN Steps : j # cur => verdict'[j] = verdict[j]
      /\ \A j \in DOMAIN Steps : j > cur => verdict'[j] = "none"
      /\ \A i \in DOMAIN Steps : i <= cur => FailedBefore(i)' = FailedBefore(i)
  BY RecordEffect
<1>2. DOMAIN Steps = 1..Len(Steps) /\ Len(Steps) \in Nat
  BY RecipeShape DEF SafetyInv, TypeOK, Steps
<1>3. InLoop /\ Executing
  BY DEF InLoop, Executing
<1>4. /\ HasFailed("REQUIRED")' <=> HasFailed("REQUIRED") \/ (~ok /\ Step.criticality = "REQUIRED")
      /\ ~HasFailed("CRITICAL")'
  BY <1>1, <1>3, LoopHasNoFatalFailure DEF HasFailed, Step, Steps
<1>5. any_required_fail' <=> HasFailed("REQUIRED")'
  BY <1>4 DEF SafetyInv, Flags
<1>6. /\ outcome = "PASS" /\ ~aborted'
      /\ \/ outcome' = "TIMEOUT" /\ pc' = "finish" /\ TimedOut /\ cur' = cur
         \/ outcome' = "PASS" /\ pc' = "step" /\ ~TimedOut /\ cur' = cur + 1
  BY <1>3, LoopHasNoFatalFailure DEF NextStepOrTimeout
<1>7. outcome' = "TIMEOUT" => failed_step' # 0
  BY <1>1, <1>2, <1>6 DEF Failure
<1>8. Flags'
  BY <1>4, <1>5, <1>6, <1>7 DEF Flags, InLoop
<1>9. Chronology'
  BY <1>1, <1>2, <1>3, <1>6 DEF Chronology, InLoop, SafetyInv
<1>10. FirstFailure'
  <2> SUFFICES ASSUME outcome' \in {"PASS", "FAIL"}
               PROVE  /\ failed_step' = 0 <=> ~any_required_fail'
                      /\ failed_step' # 0 => IsFirstFailure(verdict', failed_step')
    BY <1>1 DEF FirstFailure, IsFirstFailure, FailedBefore
  <2>1. /\ failed_step = 0 <=> ~any_required_fail
        /\ failed_step # 0 => IsFirstFailure(verdict, failed_step)
    BY <1>6 DEF SafetyInv, FirstFailure, IsFirstFailure, FailedBefore
  <2>2. failed_step \in 0..Len(Steps)
    BY DEF SafetyInv, TypeOK
  <2>3. ~TimedOut
    BY <1>6
  <2>4. failed_step # 0 => failed_step < cur
    BY <1>1, <1>2, <1>3, <2>1, <2>2 DEF SafetyInv, Chronology, IsFirstFailure
  <2>5. CASE failed_step # 0
    <3>1. failed_step' = failed_step /\ any_required_fail'
      BY <2>1, <2>3, <2>5 DEF Failure
    <3>2. IsFirstFailure(verdict', failed_step)
      BY <1>1, <1>2, <2>1, <2>2, <2>4, <2>5 DEF IsFirstFailure
    <3>3. QED
      BY <2>5, <3>1, <3>2
  <2>6. CASE failed_step = 0 /\ (ok \/ Step.criticality = "OPTIONAL")
    BY <2>1, <2>3, <2>6
  <2>7. CASE failed_step = 0 /\ ~ok /\ Step.criticality = "REQUIRED"
    <3>1. failed_step' = cur /\ any_required_fail'
      BY <2>7 DEF Failure
    <3>2. \A j \in DOMAIN Steps : verdict[j] = "fail" => ~Counts(Steps[j])
      BY <1>3, <2>1, <2>7, NothingCountsYet
    <3>3. IsFirstFailure(verdict', cur)
      BY <1>1, <1>2, <2>7, <3>2 DEF IsFirstFailure, Step, Steps
    <3>4. QED
      BY <1>1, <1>2, <3>1, <3>3
  <2>8. QED
    BY <2>5, <2>6, <2>7
<1>11. CriticalCutsPower'
  BY <1>4 DEF CriticalCutsPower, HasFailed
<1>12. AbortStops'
  BY <1>1, <1>3, <1>4, LoopHasNoFatalFailure DEF AbortStops, HasFailed, Step, Steps
<1>13. ProductionGate'
  <2> SUFFICES ASSUME NEW i \in DOMAIN Steps, Steps[i].requires_pass, verdict'[i] # "none"
               PROVE  FailedBefore(i)' = {}
    BY <1>1, <1>6 DEF ProductionGate, Executing
  <2>1. i <= cur
    BY <1>1, <1>2
  <2>2. FailedBefore(i) = {}
    BY <1>1, <1>3, <2>1 DEF SafetyInv, ProductionGate
  <2>3. QED
    BY <1>1, <2>1, <2>2
<1>14. QED
  BY <1>8, <1>9, <1>10, <1>11, <1>12, <1>13 DEF SafetyInv

(***************************************************************************)
(* Leaving the loop on a CRITICAL or a stopping REQUIRED failure.          *)
(***************************************************************************)
LEMMA RecordAndStop ==
  ASSUME SafetyInv, TypeOK', RecordCritical \/ RecordRequiredAbort
  PROVE  SafetyInv'
<1>1. /\ pc = "record" /\ Count(FALSE) /\ UNCHANGED <<recipe, cur>>
      /\ pc' = "finish" /\ aborted' = TRUE
  BY DEF RecordCritical, RecordRequiredAbort, stepVars
<1>2. /\ Steps' = Steps /\ cur \in DOMAIN Steps /\ verdict[cur] = "none"
      /\ verdict'[cur] = "fail"
      /\ \A j \in DOMAIN Steps : j # cur => verdict'[j] = verdict[j]
      /\ \A j \in DOMAIN Steps : j > cur => verdict'[j] = "none"
      /\ \A i \in DOMAIN Steps : i <= cur => FailedBefore(i)' = FailedBefore(i)
  BY <1>1, RecordEffect
<1>3. DOMAIN Steps = 1..Len(Steps) /\ Len(Steps) \in Nat
  BY RecipeShape DEF SafetyInv, TypeOK, Steps
<1>4. InLoop /\ Executing /\ ~InLoop'
  BY <1>1 DEF InLoop, Executing
<1>5. Chronology'
  BY <1>1, <1>2, <1>4 DEF Chronology
<1>6. ProductionGate'
  <2> SUFFICES ASSUME NEW i \in DOMAIN Steps, Steps[i].requires_pass, verdict'[i] # "none"
               PROVE  FailedBefore(i)' = {}
    BY <1>1, <1>2 DEF ProductionGate, Executing
  <2>1. i <= cur
    BY <1>2, <1>3
  <2>2. FailedBefore(i) = {}
    BY <1>2, <1>4, <2>1 DEF SafetyInv, ProductionGate
  <2>3. QED
    BY <1>2, <2>1, <2>2
<1>7. AbortStops'
  BY <1>1, <1>2, <1>3, <1>4, LoopHasNoFatalFailure DEF AbortStops
<1>8. CASE RecordCritical
  <2>1. /\ Step.criticality = "CRITICAL" /\ failed_step' = cur /\ outcome' = "ABORT"
        /\ dutPower' = FALSE /\ any_required_fail' = any_required_fail
    BY <1>8 DEF RecordCritical, CriticalAbort
  <2>2. HasFailed("REQUIRED")' <=> HasFailed("REQUIRED")
    BY <1>2, <2>1 DEF HasFailed, Step, Steps
  <2>3. Flags'
    BY <1>2, <1>3, <1>4, <2>1, <2>2 DEF Flags, SafetyInv, Step, Steps
  <2>4. FirstFailure' /\ CriticalCutsPower'
    BY <1>1, <2>1 DEF FirstFailure, CriticalCutsPower
  <2>5. QED
    BY <1>5, <1>6, <1>7, <2>3, <2>4 DEF SafetyInv
<1>9. CASE RecordRequiredAbort
  <2>1. /\ Step.criticality = "REQUIRED" /\ failed_step' = Failure /\ any_required_fail'
        /\ outcome' = outcome /\ outcome = "PASS"
    BY <1>4, <1>9, LoopHasNoFatalFailure DEF RecordRequiredAbort
  <2>2. HasFailed("REQUIRED")' /\ ~HasFailed("CRITICAL")'
    BY <1>2, <1>4, <2>1, LoopHasNoFatalFailure DEF HasFailed, Step, Steps
  <2>3. Flags'
    BY <1>1, <1>4, <2>1, <2>2 DEF Flags
  <2>4. CriticalCutsPower'
    BY <2>2 DEF CriticalCutsPower, HasFailed
  <2>5. FirstFailure'
    <3>1. /\ failed_step = 0 <=> ~any_required_fail
          /\ failed_step # 0 => IsFirstFailure(verdict, failed_step)
          /\ failed_step \in 0..Len(Steps)
      BY <2>1 DEF SafetyInv, FirstFailure, TypeOK, IsFirstFailure, FailedBefore
    <3>2. CASE failed_step # 0
      <4>1. failed_step < cur /\ failed_step \in DOMAIN Steps
        BY <1>2, <1>3, <1>4, <3>1, <3>2 DEF SafetyInv, Chronology, IsFirstFailure
      <4>2. IsFirstFailure(verdict', failed_step)
        BY <1>2, <1>3, <3>1, <3>2, <4>1 DEF IsFirstFailure
      <4>3. failed_step' = failed_step
        BY <2>1, <3>2 DEF Failure
      <4>4. QED
        BY <1>2, <2>1, <3>2, <4>2, <4>3 DEF FirstFailure, IsFirstFailure, FailedBefore
    <3>3. CASE failed_step = 0
      <4>1. \A j \in DOMAIN Steps : verdict[j] = "fail" => ~Counts(Steps[j])
        BY <1>4, <3>1, <3>3, NothingCountsYet
      <4>2. IsFirstFailure(verdict', cur)
        BY <1>2, <1>3, <2>1, <4>1 DEF IsFirstFailure, Step, Steps
      <4>3. failed_step' = cur
        BY <2>1, <3>3 DEF Failure
      <4>4. QED
        BY <1>2, <1>3, <2>1, <4>2, <4>3 DEF FirstFailure, IsFirstFailure, FailedBefore
    <3>4. QED
      BY <3>2, <3>3
  <2>6. QED
    BY <1>5, <1>6, <1>7, <2>3, <2>4, <2>5 DEF SafetyInv
<1>10. QED
  BY <1>8, <1>9

(***************************************************************************)
(* The safety invariant holds initially and every step keeps it.           *)
(***************************************************************************)
LEMMA InitSafety == Init => SafetyInv
<1> SUFFICES ASSUME Init PROVE SafetyInv
  OBVIOUS
<1>1. \A i \in DOMAIN Steps : verdict[i] = "none"
  BY DEF Init
<1>2. /\ pc = "step" /\ outcome = "PASS" /\ ~aborted /\ ~any_required_fail /\ failed_step = 0
  BY DEF Init
<1>3. Chronology /\ Flags /\ FirstFailure /\ CriticalCutsPower /\ AbortStops
  BY <1>1, <1>2
  DEF Chronology, Flags, FirstFailure, CriticalCutsPower, AbortStops, HasFailed, InLoop
<1>4. ProductionGate
  BY <1>1, <1>2 DEF ProductionGate, Executing
<1>5. QED
  BY <1>3, <1>4, InitType DEF SafetyInv

LEMMA NextSafety == SafetyInv /\ [Next]_vars => SafetyInv'
<1> SUFFICES ASSUME SafetyInv, [Next]_vars PROVE SafetyInv'
  OBVIOUS
<1>1. TypeOK'
  BY NextType DEF SafetyInv
<1>2. CASE SkipStep
  <2>1. InLoop /\ InLoop' /\ ~Executing' /\ cur' = cur + 1
    BY <1>2 DEF SkipStep, InLoop, Executing
  <2>2. QED
    BY <1>1, <1>2, <2>1, QuietStep DEF SkipStep, resultVars
<1>3. CASE BeginStep
  <2>1. InLoop /\ InLoop' /\ cur' = cur /\ (Step.requires_pass => ~any_required_fail)
    BY <1>3 DEF BeginStep, InLoop, Skipped
  <2>2. QED
    BY <1>1, <1>3, <2>1, QuietStep DEF BeginStep, resultVars, Step, Steps
<1>4. CASE LoopEnds
  <2>1. /\ pc = "step" /\ pc' = "finish" /\ cur' = cur /\ cur > Len(Steps)
        /\ InLoop /\ ~InLoop' /\ ~Executing'
    BY <1>4 DEF LoopEnds, stepVars, InLoop, Executing, Steps
  <2>2. /\ Steps' = Steps /\ verdict' = verdict /\ failed_step' = failed_step
        /\ any_required_fail' = any_required_fail /\ aborted' = aborted /\ outcome' = outcome
    BY <1>4 DEF LoopEnds, Steps, resultVars
  <2>3. /\ \A l : HasFailed(l)' <=> HasFailed(l)
        /\ \A i : FailedBefore(i)' = FailedBefore(i)
    BY <2>2 DEF HasFailed, FailedBefore
  <2>4. Chronology'
    BY <2>1, <2>2 DEF SafetyInv, Chronology
  <2>5. Flags' /\ FirstFailure'
    BY <2>1, <2>2, <2>3 DEF SafetyInv, Flags, FirstFailure
  <2>6. CriticalCutsPower' /\ AbortStops'
    BY <2>1, <2>2, LoopHasNoFatalFailure DEF CriticalCutsPower, AbortStops, HasFailed
  <2>7. ProductionGate'
    BY <2>1, <2>2, <2>3 DEF SafetyInv, ProductionGate
  <2>8. QED
    BY <1>1, <2>4, <2>5, <2>6, <2>7 DEF SafetyInv
<1>5. ASSUME NEW e \in Effects, RunPrimitive(e) \/ RunRecovery(e)
      PROVE  SafetyInv'
  <2>1. InLoop /\ InLoop' /\ Executing /\ cur' = cur
    BY <1>5 DEF RunPrimitive, RunRecovery, InLoop, Executing, stepVars
  <2>2. QED
    BY <1>1, <1>5, <2>1, QuietStep DEF RunPrimitive, RunRecovery
<1>6. CASE JudgeAttempt \/ JudgeRecovery \/ RecoveryUnknown \/ RecoveryDone
  <2>1. InLoop /\ InLoop' /\ Executing /\ cur' = cur
    BY <1>6 DEF JudgeAttempt, JudgeRecovery, RecoveryUnknown, RecoveryDone, InLoop, Executing,
                stepVars
  <2>2. UNCHANGED <<recipe, resultVars>>
    BY <1>6 DEF JudgeAttempt, JudgeRecovery, RecoveryUnknown, RecoveryDone
  <2>3. QED
    BY <1>1, <2>1, <2>2, QuietStep
<1>7. CASE RecordPass
  BY <1>1, <1>7, RecordAndGoOn DEF RecordPass
<1>8. CASE RecordRequiredContinue
  <2>1. Step.on_error # "abort"
    BY <1>8 DEF RecordRequiredContinue, StopsOnFailure, IsRecovery
  <2>2. QED
    BY <1>1, <1>8, <2>1, RecordAndGoOn DEF RecordRequiredContinue
<1>9. CASE RecordOptional
  BY <1>1, <1>9, RecordAndGoOn DEF RecordOptional
<1>10. CASE RecordCritical \/ RecordRequiredAbort
  BY <1>1, <1>10, RecordAndStop
<1>11. CASE Finish
  <2>1. /\ Steps' = Steps /\ verdict' = verdict /\ failed_step' = failed_step
        /\ any_required_fail' = any_required_fail /\ aborted' = aborted
        /\ cur' = cur /\ dutPower' = dutPower
        /\ pc = "finish" /\ pc' = "done" /\ outcome' = Verdict
    BY <1>11 DEF Finish, Steps, stepVars
  <2>2. ~InLoop /\ ~InLoop' /\ ~Executing'
    BY <2>1 DEF InLoop, Executing
  <2>3. /\ \A l : HasFailed(l)' <=> HasFailed(l)
        /\ \A i : FailedBefore(i)' = FailedBefore(i)
    BY <2>1 DEF HasFailed, FailedBefore
  <2>4. Chronology' /\ AbortStops' /\ ProductionGate'
    BY <2>1, <2>2, <2>3 DEF SafetyInv, Chronology, AbortStops, ProductionGate
  <2>5. Flags' /\ FirstFailure'
    BY <2>1, <2>2, <2>3 DEF SafetyInv, Flags, FirstFailure, Verdict
  <2>6. CriticalCutsPower'
    BY <2>1 DEF SafetyInv, CriticalCutsPower, Verdict
  <2>7. QED
    BY <1>1, <2>4, <2>5, <2>6 DEF SafetyInv
<1>12. CASE UNCHANGED vars
  <2>1. /\ Steps' = Steps /\ verdict' = verdict /\ failed_step' = failed_step
        /\ any_required_fail' = any_required_fail /\ aborted' = aborted
        /\ cur' = cur /\ dutPower' = dutPower /\ pc' = pc /\ outcome' = outcome
    BY <1>12 DEF vars, Steps, stepVars, resultVars
  <2>2. /\ \A l : HasFailed(l)' <=> HasFailed(l)
        /\ \A i : FailedBefore(i)' = FailedBefore(i)
        /\ InLoop' <=> InLoop
        /\ Executing' <=> Executing
    BY <2>1 DEF HasFailed, FailedBefore, InLoop, Executing
  <2>3. Chronology' /\ Flags' /\ FirstFailure'
    BY <2>1, <2>2 DEF SafetyInv, Chronology, Flags, FirstFailure
  <2>4. CriticalCutsPower' /\ AbortStops' /\ ProductionGate'
    BY <2>1, <2>2 DEF SafetyInv, CriticalCutsPower, AbortStops, ProductionGate
  <2>5. QED
    BY <1>1, <2>3, <2>4 DEF SafetyInv
<1>13. QED
  BY <1>2, <1>3, <1>4, <1>5, <1>6, <1>7, <1>8, <1>9, <1>10, <1>11, <1>12 DEF Next, Record

THEOREM SafetyInvariant == Spec => []SafetyInv
<1>1. QED
  BY InitSafety, NextSafety, PTL DEF Spec

(***************************************************************************)
(* From the moment a CRITICAL step is recorded as failed the DUT has no    *)
(* power, nothing else runs, and the verdict is ABORT.                     *)
(***************************************************************************)
THEOREM CriticalFailuresCutPower == Spec => []CriticalCutsPower
<1>1. SafetyInv => CriticalCutsPower
  BY DEF SafetyInv
<1>2. QED
  BY <1>1, SafetyInvariant, PTL

(***************************************************************************)
(* No requires_pass step runs after a REQUIRED or CRITICAL failure.        *)
(***************************************************************************)
THEOREM ProductionIsGated == Spec => []ProductionGate
<1>1. SafetyInv => ProductionGate
  BY DEF SafetyInv
<1>2. QED
  BY <1>1, SafetyInvariant, PTL

(***************************************************************************)
(* A failure that must abort the run is the last thing that happens in it. *)
(***************************************************************************)
THEOREM AbortIsFinal == Spec => []AbortStops
<1>1. SafetyInv => AbortStops
  BY DEF SafetyInv
<1>2. QED
  BY <1>1, SafetyInvariant, PTL

(***************************************************************************)
(* The failed_step reported with a verdict is the step that caused it.     *)
(***************************************************************************)
THEOREM FailedStepIsTheCause == Spec => []FailedStepNamesCause
<1>1. SafetyInv => FailedStepNamesCause
  <2> SUFFICES ASSUME SafetyInv, pc = "done" PROVE FailedStepNamesCause
    BY DEF FailedStepNamesCause
  <2>1. /\ outcome = "PASS" => ~any_required_fail
        /\ outcome = "FAIL" => any_required_fail
        /\ outcome = "TIMEOUT" => failed_step # 0
        /\ outcome = "ABORT" => /\ failed_step # 0 /\ verdict[failed_step] = "fail"
                                /\ Steps[failed_step].criticality = "CRITICAL"
    BY DEF SafetyInv, Flags, InLoop
  <2>2. outcome \in {"PASS", "FAIL"} =>
           /\ failed_step = 0 <=> ~any_required_fail
           /\ failed_step # 0 => /\ verdict[failed_step] = "fail"
                                 /\ Steps[failed_step].criticality = "REQUIRED"
                                 /\ FailedBefore(failed_step) = {}
    BY DEF SafetyInv, FirstFailure
  <2>3. outcome \in {"PASS", "FAIL", "ABORT", "TIMEOUT"}
    BY DEF SafetyInv, TypeOK
  <2>4. QED
    BY <2>1, <2>2, <2>3 DEF FailedStepNamesCause
<1>2. QED
  BY <1>1, SafetyInvariant, PTL

-----------------------------------------------------------------------------
(***************************************************************************)
(* PassSound, from what the verdicts say of the attempts.                  *)
(***************************************************************************)
AttributionInv ==
  /\ SafetyInv /\ Attribution
  /\ pc \in {"recover", "judge_recovery"} => ~step_ok

(***************************************************************************)
(* The engine's two deltas show every visible failure of the execution     *)
(* they bracket, and nothing of the executions before it, with or without  *)
(* room for its checks.  (AttemptOf(e) is what e does from this state.)    *)
(***************************************************************************)
LEMMA DeltaSeesFailures ==
  ASSUME TypeOK, NEW e \in Effects, PrimitiveRuns(e), Evaluation'
  PROVE  ~Visible(AttemptOf(e))
<1> DEFINE Room == {k \in 1..e.checks : nCheck + k <= MaxChecks}
<1>1. /\ e.checks \in Nat /\ e.bad \in SUBSET (1..e.checks)
      /\ e.reports \in Nat /\ e.good \in 0..e.reports
  BY EffectsAssumption DEF IsEffect
<1>2. nCheck \in Nat /\ nCheck <= MaxChecks /\ total \in Nat /\ passed \in Nat
  BY MaxChecksAssumption DEF TypeOK
<1>3. /\ nCheck' = IF nCheck + e.checks <= MaxChecks THEN nCheck + e.checks ELSE MaxChecks
      /\ failedChecks' = failedChecks \cup
                         {nCheck + k : k \in {b \in e.bad : nCheck + b <= MaxChecks}}
      /\ total' = total + e.reports /\ passed' = passed + e.good
  BY DEF PrimitiveRuns, Lands
<1>4. mark'.nCheck = nCheck /\ mark'.total = total /\ mark'.passed = passed
  BY DEF PrimitiveRuns, Mark
<1>5. IF nCheck' > nCheck
        THEN \A k \in failedChecks' : k <= nCheck
        ELSE total' > total => passed' - passed = total' - total
  BY <1>4 DEF Evaluation
<1>6. Visible(AttemptOf(e)) <=> \/ \E b \in e.bad : b \in Room
                                \/ e.good # e.reports /\ Room = {}
  BY DEF AttemptOf, Visible
<1> HIDE DEF Room
<1>7. CASE Room # {}
  <2>1. PICK k \in 1..e.checks : nCheck + k <= MaxChecks
    BY <1>7 DEF Room
  <2>2. nCheck' > nCheck
    BY <1>1, <1>2, <1>3, <2>1, MaxChecksAssumption
  <2>3. ASSUME NEW b \in e.bad, b \in Room PROVE FALSE
    <3>1. b \in e.bad /\ b \in 1..e.checks /\ nCheck + b <= MaxChecks
      BY <2>3 DEF Room
    <3>2. nCheck + b \in failedChecks'
      BY <1>3, <3>1
    <3>3. nCheck + b <= nCheck
      BY <1>5, <2>2, <3>2
    <3>4. QED
      BY <1>1, <1>2, <3>1, <3>3
  <2>4. QED
    BY <1>6, <1>7, <2>3
<1>8. CASE Room = {}
  <2>1. ~(nCheck' > nCheck)
    <3>1. e.checks >= 1 => ~(nCheck + 1 <= MaxChecks)
      BY <1>1, <1>8 DEF Room
    <3>2. QED
      BY <1>1, <1>2, <1>3, <3>1, MaxChecksAssumption
  <2>2. e.good = e.reports
    BY <1>1, <1>2, <1>3, <1>5, <2>1
  <2>3. QED
    BY <1>6, <1>8, <2>2
<1>9. QED
  BY <1>7, <1>8

LEMMA InitAttribution == Init => AttributionInv
<1> SUFFICES ASSUME Init PROVE Attribution /\ pc = "step"
  BY InitSafety DEF AttributionInv
<1>1. QED
  BY DEF Init, Attribution, Visible, NoAttempt

LEMMA NextAttribution == AttributionInv /\ [Next]_vars => AttributionInv'
<1> SUFFICES ASSUME AttributionInv, [Next]_vars PROVE AttributionInv'
  OBVIOUS
<1>0. SafetyInv /\ SafetyInv' /\ TypeOK /\ Attribution
  BY NextSafety DEF AttributionInv, SafetyInv
<1>a. recipe' = recipe => Steps' = Steps
  BY DEF Steps
<1>b. Executing => cur \in DOMAIN Steps
  BY <1>0 DEF TypeOK
<1>1. ASSUME NEW e \in Effects, RunPrimitive(e)
      PROVE  AttributionInv'
  <2>1. /\ PrimitiveRuns(e) /\ Steps' = Steps /\ cur' = cur /\ verdict' = verdict
        /\ pc' = "judge" /\ Executing /\ Executing' /\ InLoop
    BY <1>a, <1>1 DEF RunPrimitive, stepVars, resultVars, Executing, InLoop
  <2>2. /\ cur \in DOMAIN Steps /\ attempt'[cur] = AttemptOf(e)
        /\ \A i \in DOMAIN Steps : i # cur => attempt'[i] = attempt[i]
    BY <1>0, <1>1, <1>b, <2>1 DEF RunPrimitive, TypeOK
  <2>3. verdict[cur] = "none"
    <3>1. Len(Steps) \in Nat /\ DOMAIN Steps = 1..Len(Steps)
      BY <1>0, RecipeShape DEF TypeOK, Steps
    <3>2. QED
      BY <1>0, <2>1, <2>2, <3>1 DEF SafetyInv, Chronology
  <2>4. \A i \in DOMAIN Steps :
          Visible(attempt'[i]) => verdict'[i] # "none" \/ (Executing' /\ i = cur')
    BY <1>0, <2>1, <2>2 DEF Attribution
  <2>5. \A i \in DOMAIN Steps : verdict'[i] = "pass" => ~Visible(attempt'[i])
    BY <1>0, <2>1, <2>2, <2>3 DEF Attribution
  <2>6. Evaluation' => ~Visible(attempt'[cur'])
    BY <1>0, <2>1, <2>2, DeltaSeesFailures
  <2>7. Attribution'
    BY <2>1, <2>4, <2>5, <2>6 DEF Attribution
  <2>8. QED
    BY <1>0, <2>1, <2>7 DEF AttributionInv
<1>2. ASSUME NEW e \in Effects, RunRecovery(e)
      PROVE  AttributionInv'
  <2>1. /\ PrimitiveRuns(e) /\ Steps' = Steps /\ cur' = cur /\ verdict' = verdict
        /\ pc = "recover" /\ pc' = "judge_recovery" /\ Executing /\ Executing'
        /\ attempt' = attempt /\ step_ok' = step_ok
    BY <1>a, <1>2 DEF RunRecovery, stepVars, resultVars, Executing
  <2>2. QED
    BY <1>0, <2>1 DEF Attribution, AttributionInv
<1>3. CASE JudgeAttempt
  <2>1. /\ Steps' = Steps /\ cur' = cur /\ verdict' = verdict /\ attempt' = attempt
        /\ pc = "judge" /\ Executing /\ Executing' /\ step_ok' = Evaluation
        /\ pc' = "record" \/ (pc' = "recover" /\ ~step_ok')
    BY <1>a, <1>3 DEF JudgeAttempt, resultVars, Executing
  <2>2. QED
    BY <1>0, <2>1 DEF Attribution, AttributionInv
<1>4. CASE JudgeRecovery \/ RecoveryUnknown \/ RecoveryDone
  <2>1. /\ Steps' = Steps /\ cur' = cur /\ verdict' = verdict /\ attempt' = attempt
        /\ pc \in {"recover", "judge_recovery"}
        /\ Executing /\ Executing' /\ step_ok' = step_ok
        /\ pc' \in {"record", "recover", "run"}
    BY <1>a, <1>4 DEF JudgeRecovery, RecoveryUnknown, RecoveryDone, resultVars, Executing,
                     stepVars
  <2>2. QED
    BY <1>0, <2>1 DEF Attribution, AttributionInv
<1>5. CASE SkipStep \/ BeginStep \/ LoopEnds
  <2>1. /\ Steps' = Steps /\ verdict' = verdict /\ attempt' = attempt /\ ~Executing
        /\ pc' \in {"step", "run", "finish"}
    BY <1>a, <1>5 DEF SkipStep, BeginStep, LoopEnds, resultVars, Executing
  <2>2. QED
    BY <1>0, <2>1 DEF Attribution, AttributionInv
<1>6. CASE Record
  <2>1. /\ Steps' = Steps /\ attempt' = attempt /\ recipe' = recipe
        /\ pc = "record" /\ pc' \in {"step", "finish"} /\ Executing /\ ~Executing'
    BY <1>a, <1>6
    DEF Record, RecordPass, RecordCritical, RecordRequiredAbort, RecordRequiredContinue,
        RecordOptional, NextStepOrTimeout, Executing
  <2>2. PICK ok \in BOOLEAN : Count(ok) /\ (ok => step_ok)
    BY <1>6
    DEF Record, RecordPass, RecordCritical, RecordRequiredAbort, RecordRequiredContinue,
        RecordOptional
  <2>3. /\ cur \in DOMAIN Steps
        /\ verdict'[cur] = IF ok THEN "pass" ELSE "fail"
        /\ \A j \in DOMAIN Steps : j # cur => verdict'[j] = verdict[j]
    BY <1>0, <2>1, <2>2, RecordEffect
  <2>4. ok => ~Visible(attempt[cur])
    BY <1>0, <2>1, <2>2 DEF Attribution
  <2>5. QED
    BY <1>0, <2>1, <2>3, <2>4 DEF Attribution, AttributionInv
<1>7. CASE Finish \/ UNCHANGED vars
  <2>1. /\ Steps' = Steps /\ verdict' = verdict /\ attempt' = attempt
        /\ cur' = cur /\ step_ok' = step_ok
        /\ \/ pc' = pc /\ (Evaluation' <=> Evaluation)
           \/ ~Executing /\ pc' = "done"
    BY <1>a, <1>7 DEF Finish, vars, stepVars, bufferVars, resultVars, Executing, Evaluation
  <2>2. QED
    BY <1>0, <2>1 DEF Attribution, AttributionInv, Executing
<1>8. QED
  BY <1>1, <1>2, <1>3, <1>4, <1>5, <1>6, <1>7 DEF Next, AttributionInv

(***************************************************************************)
(* A PASS means that the last attempt of every REQUIRED and CRITICAL step  *)
(* that ran had no visible failure: no failed check that found room in the *)
(* buffer and, where none of its checks did, no failed report.  It holds   *)
(* for every mix of checks and reports, also when the buffer overflows.    *)
(* What the engine cannot see (a failed check dropped by a full buffer, a  *)
(* failed report beside recorded checks) is no part of it.                 *)
(***************************************************************************)
THEOREM PassIsSound == Spec => []PassSound
<1>1. AttributionInv => PassSound
  <2> SUFFICES ASSUME AttributionInv, pc = "done", outcome = "PASS",
                      NEW i \in DOMAIN Steps, Counts(Steps[i]), Visible(attempt[i])
               PROVE  FALSE
    BY DEF PassSound
  <2>1. verdict[i] = "fail"
    BY DEF AttributionInv, SafetyInv, TypeOK, Attribution, Executing
  <2>2. HasFailed("REQUIRED") \/ HasFailed("CRITICAL")
    BY <2>1, RecipeShape
    DEF AttributionInv, SafetyInv, TypeOK, HasFailed, Counts, Criticality, Steps
  <2>3. QED
    BY <2>2 DEF AttributionInv, SafetyInv, Flags, InLoop
<1>2. QED
  BY <1>1, NextAttribution, InitAttribution, PTL DEF Spec

-----------------------------------------------------------------------------
(***************************************************************************)
(* The engine implements the safety part of RecipeVerdict.  That a verdict *)
(* is reached is liveness, which only TLC checks.                          *)
(***************************************************************************)
Reported == IF pc = "done" THEN outcome ELSE "running"

\* The step maps to a stuttering step of RecipeVerdict.
Stutters == Worst' = Worst /\ Reported' = Reported

LEMMA InitRefines == Init => Promise!Init
<1> SUFFICES ASSUME Init PROVE Worst = "none" /\ pc # "done"
  BY DEF Promise!Init
<1>1. QED
  BY DEF Init, Worst, HasFailed

LEMMA RecordRefines ==
  ASSUME SafetyInv, Record
  PROVE  Promise!Next \/ Stutters
<1>1. PICK ok \in BOOLEAN : Count(ok)
  BY DEF Record, RecordPass, RecordCritical, RecordRequiredAbort, RecordRequiredContinue,
         RecordOptional
<1>2. /\ recipe' = recipe /\ pc = "record" /\ pc' \in {"step", "finish"}
  BY DEF Record, RecordPass, RecordCritical, RecordRequiredAbort, RecordRequiredContinue,
         RecordOptional, NextStepOrTimeout
<1>3. /\ Steps' = Steps /\ cur \in DOMAIN Steps /\ verdict[cur] = "none"
      /\ verdict'[cur] = IF ok THEN "pass" ELSE "fail"
      /\ \A j \in DOMAIN Steps : j # cur => verdict'[j] = verdict[j]
  BY <1>1, <1>2, RecordEffect
<1>4. ~HasFailed("CRITICAL")
  BY <1>2, LoopHasNoFatalFailure DEF InLoop
<1>5. Reported = "running" /\ Reported' = "running"
  BY <1>2 DEF Reported
<1>6. Worst \in {"none", "REQUIRED"}
  BY <1>4 DEF Worst
<1>7. CASE ok \/ Steps[cur].criticality = "OPTIONAL"
  <2>1. HasFailed("REQUIRED")' <=> HasFailed("REQUIRED")
    BY <1>3, <1>7 DEF HasFailed
  <2>2. HasFailed("CRITICAL")' <=> HasFailed("CRITICAL")
    BY <1>3, <1>7 DEF HasFailed
  <2>3. QED
    BY <1>5, <2>1, <2>2 DEF Worst, Stutters
<1>8. CASE ~ok /\ Steps[cur].criticality = "REQUIRED"
  <2>1. HasFailed("REQUIRED")'
    BY <1>3, <1>8 DEF HasFailed
  <2>2. ~HasFailed("CRITICAL")'
    BY <1>3, <1>4, <1>8 DEF HasFailed
  <2>3. Worst' = "REQUIRED"
    BY <2>1, <2>2 DEF Worst
  <2>4. QED
    BY <1>5, <1>6, <2>3 DEF Promise!Next, Promise!RequiredFails, Reported
<1>9. CASE ~ok /\ Steps[cur].criticality = "CRITICAL"
  <2>1. HasFailed("CRITICAL")'
    BY <1>3, <1>9 DEF HasFailed
  <2>2. Worst' = "CRITICAL"
    BY <2>1 DEF Worst
  <2>3. QED
    BY <1>5, <1>6, <2>2 DEF Promise!Next, Promise!CriticalFails, Reported
<1>10. Steps[cur].criticality \in Criticality
  BY <1>3, RecipeShape DEF SafetyInv, TypeOK, Steps
<1>11. QED
  BY <1>7, <1>8, <1>9, <1>10 DEF Criticality

LEMMA NextRefines == SafetyInv /\ [Next]_vars => Promise!Next \/ Stutters
<1> SUFFICES ASSUME SafetyInv, [Next]_vars PROVE Promise!Next \/ Stutters
  OBVIOUS
<1>1. ASSUME recipe' = recipe, verdict' = verdict
      PROVE  Worst' = Worst
  <2>1. \A l : HasFailed(l)' <=> HasFailed(l)
    BY <1>1 DEF HasFailed, Steps
  <2>2. QED
    BY <2>1 DEF Worst
<1>2. ASSUME recipe' = recipe, verdict' = verdict, pc # "done", pc' # "done"
      PROVE  Stutters
  BY <1>1, <1>2 DEF Stutters, Reported
<1>3. CASE SkipStep \/ BeginStep \/ LoopEnds
  BY <1>2, <1>3 DEF SkipStep, BeginStep, LoopEnds, resultVars
<1>4. ASSUME NEW e \in Effects, RunPrimitive(e) \/ RunRecovery(e)
      PROVE  Stutters
  BY <1>2, <1>4 DEF RunPrimitive, RunRecovery, resultVars
<1>5. CASE JudgeAttempt \/ JudgeRecovery \/ RecoveryUnknown \/ RecoveryDone
  BY <1>2, <1>5 DEF JudgeAttempt, JudgeRecovery, RecoveryUnknown, RecoveryDone, resultVars
<1>6. CASE Finish
  <2>1. Worst' = Worst /\ Reported = "running" /\ Reported' = Verdict
    BY <1>1, <1>6 DEF Finish, Reported
  <2>2. Verdict \in Promise!Allowed(Worst)
    <3>1. /\ any_required_fail <=> HasFailed("REQUIRED")
          /\ \/ outcome = "PASS" /\ ~any_required_fail /\ ~aborted /\ ~HasFailed("CRITICAL")
             \/ outcome = "PASS" /\ any_required_fail /\ ~HasFailed("CRITICAL")
             \/ outcome = "TIMEOUT" /\ ~HasFailed("CRITICAL")
             \/ outcome = "ABORT" /\ HasFailed("CRITICAL")
      <4>1. pc = "finish" /\ ~InLoop
        BY <1>6 DEF Finish, InLoop
      <4>2. failed_step \in 0..Len(Steps) /\ DOMAIN Steps = 1..Len(Steps) /\ Len(Steps) \in Nat
        BY RecipeShape DEF SafetyInv, TypeOK, Steps
      <4>3. failed_step # 0 => failed_step \in DOMAIN Steps
        BY <4>2
      <4>4. QED
        BY <4>1, <4>3 DEF SafetyInv, Flags, HasFailed
    <3>2. Worst = "none" => ~HasFailed("CRITICAL") /\ ~HasFailed("REQUIRED")
      BY DEF Worst
    <3>3. Worst = "REQUIRED" => ~HasFailed("CRITICAL") /\ HasFailed("REQUIRED")
      BY DEF Worst
    <3>4. Worst = "CRITICAL" => HasFailed("CRITICAL")
      BY DEF Worst
    <3>5. Worst \in {"none", "REQUIRED", "CRITICAL"}
      BY DEF Worst
    <3>6. QED
      BY <3>1, <3>2, <3>3, <3>4, <3>5 DEF Verdict, Promise!Allowed
  <2>3. QED
    BY <2>1, <2>2 DEF Promise!Next, Promise!Conclude, Reported
<1>7. CASE UNCHANGED vars
  BY <1>1, <1>7 DEF vars, resultVars, Stutters, Reported
<1>8. CASE Record
  BY <1>8, RecordRefines
<1>9. QED
  BY <1>3, <1>4, <1>5, <1>6, <1>7, <1>8 DEF Next

(***************************************************************************)
(* Every behaviour of the engine is one that RecipeVerdict allows: the     *)
(* failures that count decide the verdict.                                 *)
(***************************************************************************)
THEOREM EngineKeepsPromise == Spec => Promise!Safety
<1>1. SafetyInv /\ [Next]_vars => [Promise!Next]_<<Worst, Reported>>
  BY NextRefines DEF Stutters
<1>2. QED
  BY <1>1, InitRefines, SafetyInvariant, PTL DEF Spec, Promise!Safety, Reported
=============================================================================
