--------------------------- MODULE MCRecipeEngine ---------------------------
(***************************************************************************)
(* Small instances of RecipeEngine for TLC.                                *)
(***************************************************************************)
EXTENDS RecipeEngine

\* How a step reacts to failure, as <<criticality, on_error>>.
MCReactions == {<<"CRITICAL", "abort">>, <<"CRITICAL", "rec">>,
                <<"REQUIRED", "abort">>, <<"REQUIRED", "skip">>, <<"REQUIRED", "rec">>,
                <<"OPTIONAL", "skip">>}

MCStep(reaction, gated, enabled, known) ==
  [enabled |-> enabled, requires_pass |-> gated, known |-> known,
   criticality |-> reaction[1], on_error |-> reaction[2]]

\* Every reaction, a gated step (dut_program), a disabled and an unknown one.
MCSteps ==
  {MCStep(r, FALSE, TRUE, TRUE) : r \in MCReactions}
    \cup {MCStep(<<"REQUIRED", "abort">>, TRUE, TRUE, TRUE),
          MCStep(<<"REQUIRED", "abort">>, FALSE, FALSE, TRUE),
          MCStep(<<"REQUIRED", "missing">>, FALSE, TRUE, TRUE),
          MCStep(<<"CRITICAL", "abort">>, FALSE, TRUE, FALSE)}

MCBranch(n, known) == [max_attempts |-> n, steps |-> known]

MCPlain(criticality, on_error) == MCStep(<<criticality, on_error>>, FALSE, TRUE, TRUE)
MCProgram == MCStep(<<"REQUIRED", "abort">>, TRUE, TRUE, TRUE)

\* Every pair of steps, and triples that end in programming the product.
MCStepLists ==
  [1..2 -> MCSteps]
    \cup {<<MCPlain("REQUIRED", "skip"), MCPlain("OPTIONAL", "skip"), MCProgram>>,
          <<MCPlain("REQUIRED", "rec"), MCPlain("CRITICAL", "abort"), MCProgram>>}

MCPlainRecipes ==
  [steps : MCStepLists, branches : {[rec |-> MCBranch(1, <<TRUE>>)]}, timed : BOOLEAN]

\* A step with a branch of 0 to 2 attempts and different recovery steps.
MCRecoveryRecipes ==
  [steps : {<<MCPlain(c, "rec"), MCProgram>> : c \in Criticality},
   branches : {[rec |-> MCBranch(n, k)] : n \in 0..2, k \in {<<TRUE, TRUE>>, <<TRUE, FALSE>>, <<>>}},
   timed : {FALSE}]

MCRecipes == MCPlainRecipes \cup MCRecoveryRecipes

MCEffect(checks, bad, reports, good) ==
  [checks |-> checks, bad |-> bad, reports |-> reports, good |-> good]

(***************************************************************************)
(* g3_primitives.c: checks only.  cmd_selftest.c: a report for every       *)
(* check; reports alone (an ADC did not initialise); or, run_i2c, passed   *)
(* checks and then a failed report alone.  dut_exit_test: nothing.         *)
(***************************************************************************)
MCEffects == {MCEffect(1, {}, 0, 0), MCEffect(2, {1}, 0, 0), MCEffect(1, {1}, 1, 0),
              MCEffect(0, {}, 1, 0), MCEffect(1, {}, 2, 1), MCEffect(0, {}, 0, 0)}
=============================================================================
