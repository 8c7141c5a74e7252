---------------------------- MODULE Persistence ----------------------------
(***************************************************************************)
(* What survives a power failure: RecipeStore and Settings over one        *)
(* Storage, started by app_main of src/src/main.cpp.  The console does one *)
(* command at a time, while a test loads its recipe and reads its limits.  *)
(***************************************************************************)
EXTENDS RecipeStore, Settings

CONSTANTS
  MaxCommands,  \* bound: the commands that write or change something
  MaxCuts       \* bound: the power failures

ASSUME BoundsAssumption == MaxCommands \in Nat /\ MaxCuts \in Nat

VARIABLES
  main,      \* what app_main does next
  commands,  \* how many commands there have been
  cuts       \* how many power failures

vars == <<s_mounted, files, con, scenario, recipeVars, settingsVars, main, commands, cuts>>

Init ==
  /\ scenario \in Scenarios
  /\ s_mounted = FALSE /\ con = Idle
  /\ files = [k \in Keys |-> Absent]
  /\ RecipeInit /\ SettingsInit
  /\ main = "mount" /\ commands = 0 /\ cuts = 0

-----------------------------------------------------------------------------
(***************************************************************************)
(* app_main: mount, load the configuration and the calibration, and only   *)
(* then start the tasks.                                                   *)
(***************************************************************************)
BootMount ==
  /\ main = "mount" /\ main' = "config"
  /\ Storage_Init
  /\ UNCHANGED <<con, recipeVars, settingsVars>>

BootConfig ==
  /\ main = "config" /\ main' = "cal"
  /\ ConfigLoad
  /\ UNCHANGED <<s_mounted, recipeVars>>

BootCal ==
  /\ main = "cal" /\ con = Idle /\ main' = "tasks"
  /\ CalLoad
  /\ UNCHANGED <<s_mounted, recipeVars>>

BootTasks ==
  /\ main = "tasks" /\ con = Idle /\ main' = "ready"
  /\ UNCHANGED <<s_mounted, files, con, recipeVars, settingsVars>>

Boot == (BootMount \/ BootConfig \/ BootCal \/ BootTasks) /\ UNCHANGED <<scenario, commands, cuts>>

-----------------------------------------------------------------------------
\* A command, if the console is free and the bound allows it.
RecipeCommand ==
  /\ UNCHANGED settingsVars
  /\ \/ \E k \in RecipeIds, t \in Texts : SetB64(k, t)
     \/ \E k \in Ids : Delete(k) \/ Select(k) \/ RecipeRun(k)

ConfigCommand ==
  /\ con = Idle /\ Quiet
  /\ ConfigLoad \/ ConfigSave \/ \E t \in Texts : ConfigSet(t)
  /\ UNCHANGED recipeVars

CalCommand ==
  /\ con = Idle /\ Quiet
  /\ CalLoad \/ CalSet \/ CalSave
  /\ UNCHANGED recipeVars

Command ==
  /\ main = "ready" /\ commands < MaxCommands
  /\ RecipeCommand \/ ConfigCommand \/ CalCommand
  /\ commands' = commands + 1
  /\ UNCHANGED <<s_mounted, scenario, main, cuts>>

\* The rest of a command, or of what app_main has begun.
Proceeds ==
  /\ \/ (Stored \/ SelectVersion) /\ UNCHANGED settingsVars
     \/ (ConfigLoaded \/ ConfigSaved \/ Assigns \/ WriteProfile \/ ProfileWritten)
        /\ UNCHANGED recipeVars
  /\ UNCHANGED <<s_mounted, scenario, main, commands, cuts>>

RecipeSteps ==
  /\ main = "ready"
  /\ \/ \E k \in Ids \cup {NoId} : StartTest(k)
     \/ \E p \in Runners : LoadSize(p) \/ LoadText(p) \/ Run(p) \/ Ends(p)
     \/ RunHardcoded
  /\ UNCHANGED <<s_mounted, scenario, settingsVars, main, commands, cuts>>

TestSteps ==
  /\ main = "ready" /\ ("reload" \in scenario \/ con = Idle \/ test # NoTest)
  /\ TestNext
  /\ UNCHANGED <<s_mounted, scenario, recipeVars, main, commands, cuts>>

\* RAM is lost; the files are what they are.
PowerFails ==
  /\ cuts < MaxCuts /\ cuts' = cuts + 1
  /\ main' = "mount" /\ s_mounted' = FALSE /\ con' = Idle
  /\ job' = [p \in Runners |-> NoJob]
  /\ s_cfg' = NoText /\ s_cal' = Zero /\ s_loaded' = FALSE /\ todo' = << >> /\ test' = NoTest
  /\ unsaved' = {}
  /\ UNCHANGED <<files, scenario, active, active_ver, uploaded, nvs_cal, profile, kept, commands>>

Next == Boot \/ Command \/ Proceeds \/ RecipeSteps \/ TestSteps \/ PowerFails

Spec == Init /\ [][Next]_vars

-----------------------------------------------------------------------------
Without(S) == scenario \cap S = {}

(***************************************************************************)
(* A configuration that has been saved is not lost: after a power failure  *)
(* at any time, in "config save" too, its file is all of the last one that *)
(* was saved or of the one that was being saved (tc_config_save,           *)
(* Storage_Write).  Not so when a write may be torn by the power failure   *)
(* or cut short by a full disk, when the disk is formatted, or when a      *)
(* recipe is uploaded as "device", which is the same file; and not without *)
(* what Storage assumes of the file system, that a file which was opened   *)
(* for writing is replaced when it is closed and is the old one until then *)
(* (the repository has nothing on this; fopen("w") itself truncates).      *)
(***************************************************************************)
ConfigSurvives ==
  Without({"torn", "full", "format", "collide"}) =>
    /\ IsWhole(files[Device]) \/ files[Device] = Absent
    /\ files[Device].text \in kept

(***************************************************************************)
(* cal-profile.json, which goes with the results of a fixture, describes   *)
(* the stored calibration and its date whenever the console is done with   *)
(* a command: tc_cal_save and tc_cal_load write it, so that a power        *)
(* failure between the two writes of a save is made good at the next boot. *)
(***************************************************************************)
ProfileIsStored ==
  Without({"full", "format", "nvs"}) /\ main = "ready" /\ con = Idle /\ nvs_cal # None =>
    profile = Described(nvs_cal)

(***************************************************************************)
(* A test uses what is stored, unless something else has been set: after   *)
(* app_main and through every load, save, failed save and power failure,   *)
(* the limits are those of the stored configuration and the duty cycle is  *)
(* computed from the stored slope and intercept, of the old format too.    *)
(***************************************************************************)
TestUsesStored ==
  Without({"full", "nvs", "collide", "reload"}) /\ test.pc = "uses" =>
    /\ "config" \notin unsaved => test.cfg = StoredConfig
    /\ "cal" \notin unsaved =>
         test.slope = nvs_cal[<<"slope", 0>>] /\ test.intercept = nvs_cal[<<"intercept", 0>>]

(***************************************************************************)
(* What tc_config.h:43 and tc_cal.h:46 say of the two loads, "Safe to call *)
(* multiple times": a test never reads a tree that has been deleted, and   *)
(* never computes a duty cycle from halves of two calibrations.            *)
(***************************************************************************)
ReloadIsSafe ==
  /\ test.cfg # Freed
  /\ test.pc = "uses" => test.slope = test.intercept
=============================================================================
