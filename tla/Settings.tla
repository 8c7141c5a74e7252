------------------------------ MODULE Settings ------------------------------
(***************************************************************************)
(* The configuration of src/src/tc_config.c and the calibration of         *)
(* src/src/tc_cal.c: what is stored, what is live, the "config" and "cal"  *)
(* console commands, and a test that reads both.                           *)
(*                                                                         *)
(* The calibration is a number for each place: the slope and the intercept *)
(* of each VDUT channel and the time of the last save.  (The gains and     *)
(* offsets of the other channels are loaded and saved alongside.)  JSON    *)
(* gives the places it has keys for.                                       *)
(***************************************************************************)
EXTENDS Storage, Sequences

CONSTANTS
  NCH,       \* TC_CAL_VDUT_NCH
  Factory,   \* the text of the factory's configuration
  Freed,     \* what is read from a tree that has been deleted
  Slopes,    \* the calibrations "cal vdut" sets; 0 stands for none
  MaxStamp   \* bound: how often a calibration is saved with a date

ASSUME SettingsAssumption ==
  NCH \in Nat \ {0} /\ Factory \in Texts /\ Freed \notin Texts \cup {NoText} /\ Slopes \subseteq Nat \ {0}

VARIABLES
  s_cfg,            \* the live configuration, NoText when there is none
  s_cal, s_loaded,  \* the live calibration
  todo,             \* the places of s_cal that are still to be written
  nvs_cal,          \* NVS "cal": the stored calibration
  profile,          \* config/cal-profile.json
  test,             \* what a running test has read
  kept,             \* history: the texts the stored configuration may have
  unsaved           \* history: which of the two has been set and not saved

settingsVars == <<s_cfg, s_cal, s_loaded, todo, nvs_cal, profile, test, kept, unsaved>>

\* The order in which apply_defaults and json_to_cal write.
Order == [n \in 1..(2 * NCH) |-> <<IF n % 2 = 1 THEN "slope" ELSE "intercept", (n - 1) \div 2>>]
           \o <<<<"stamp", 0>>>>
Places == {Order[n] : n \in DOMAIN Order}

None == [p \in {} |-> 0]
Zero == [p \in Places |-> 0]
NoTest == [pc |-> "none", cfg |-> NoText, slope |-> 0, intercept |-> 0]

SettingsInit ==
  /\ s_cfg = NoText /\ s_cal = Zero /\ s_loaded = FALSE
  /\ todo = << >> /\ profile = None /\ test = NoTest
  /\ kept = {NoText} /\ unsaved = {}
  \* nothing is stored, or one slope and intercept in the old format
  /\ \/ nvs_cal = None
     \/ \E v \in Slopes : nvs_cal = [p \in {<<"slope", 0>>, <<"intercept", 0>>} |-> v]

\* The console leaves a running test alone.
Quiet == "reload" \in scenario \/ test = NoTest

-----------------------------------------------------------------------------
(***************************************************************************)
(* The configuration.                                                      *)
(***************************************************************************)
cfgKept == <<s_cal, s_loaded, todo, nvs_cal, profile>>

\* cJSON_Delete of what a test may hold.
Frees == test' = IF test.pc = "tree" THEN [test EXCEPT !.cfg = Freed] ELSE test

ParseConfig(c) == IF IsWhole(c) THEN c.text ELSE Factory
StoredConfig == ParseConfig(Storage_Read(Device, Storage_GetSize(Device)))

\* tc_config_load deletes the tree, and reads a new one.
ConfigLoad ==
  /\ con' = Doing("load_config", Device, NoText)
  /\ s_cfg' = NoText /\ Frees
  /\ UNCHANGED <<files, cfgKept, kept, unsaved>>

ConfigLoaded ==
  /\ con.pc = "load_config"
  /\ con' = Idle
  /\ s_cfg' = StoredConfig /\ unsaved' = unsaved \ {"config"}
  /\ UNCHANGED <<files, cfgKept, test, kept>>

\* config set and config reset; what is set may be anything.
ConfigSet(t) ==
  /\ s_cfg' = t /\ Frees
  /\ unsaved' = unsaved \cup {"config"}
  /\ UNCHANGED <<con, files, cfgKept, kept>>

ConfigSave ==
  /\ s_cfg # NoText
  /\ BeginWrite("save_config", Device, s_cfg)
  /\ kept' = IF s_mounted THEN kept \cup {s_cfg} ELSE kept
  /\ UNCHANGED <<s_cfg, cfgKept, test, unsaved>>

ConfigSaved ==
  /\ con.pc = "save_config" /\ EndWrite
  /\ con' = Idle
  /\ kept' = {con.text} /\ unsaved' = unsaved \ {"config"}
  /\ UNCHANGED <<s_cfg, cfgKept, test>>

-----------------------------------------------------------------------------
(***************************************************************************)
(* The calibration.                                                        *)
(***************************************************************************)
calKept == <<files, s_cfg, kept>>

apply_defaults == [n \in DOMAIN Order |-> <<Order[n], 0>>]
\* Mutation: of the old format only the slope is taken over.
SlopesOnly(j) ==
  apply_defaults \o IF DOMAIN j # Places THEN << <<<<"slope", 0>>, j[<<"slope", 0>>]>> >>
                    ELSE [n \in DOMAIN Order |-> <<Order[n], j[Order[n]]>>]
\* The calibration that a JSON describes: a key it does not have is a default.
Described(j) == [p \in Places |-> IF p \in DOMAIN j THEN j[p] ELSE 0]
\* Everything to its default, and then to what the JSON has.
json_to_cal(j) == apply_defaults \o [n \in DOMAIN Order |-> <<Order[n], Described(j)[Order[n]]>>]

cal_to_json(c) == [p \in Places |-> c[p]]

\* A blob that cannot be read is none.
nvs_cal_read == IF "nvs" \in scenario THEN {nvs_cal, None} ELSE {nvs_cal}
nvs_cal_write(j, ok) == IF ok THEN nvs_cal' = j ELSE "nvs" \in scenario /\ UNCHANGED nvs_cal

\* Mutation: only a save writes the profile.
AssignsOnly ==
  /\ todo # << >>
  /\ s_cal' = [s_cal EXCEPT ![todo[1][1]] = todo[1][2]]
  /\ todo' = Tail(todo)
  /\ IF Len(todo) > 1 THEN UNCHANGED <<s_loaded, con>> ELSE s_loaded' = TRUE /\ con' = Idle
  /\ UNCHANGED <<calKept, nvs_cal, profile, test, unsaved>>
\* One assignment to s_cal; after the last of a load the profile is written.
Assigns ==
  /\ todo # << >>
  /\ s_cal' = [s_cal EXCEPT ![todo[1][1]] = todo[1][2]]
  /\ todo' = Tail(todo)
  /\ IF Len(todo) > 1 THEN UNCHANGED <<s_loaded, con>>
     ELSE /\ s_loaded' = TRUE
          /\ con' = IF con.pc = "load_cal" THEN Doing("profile", Device, NoText) ELSE Idle
  /\ UNCHANGED <<calKept, nvs_cal, profile, test, unsaved>>

\* tc_cal_load.
CalLoad ==
  /\ \E j \in nvs_cal_read :
       /\ todo' = IF j = None THEN apply_defaults ELSE json_to_cal(j)
       /\ con' = Doing(IF j = None THEN "reset_cal" ELSE "load_cal", Device, NoText)
  /\ unsaved' = unsaved \ {"cal"}
  /\ UNCHANGED <<calKept, s_cal, s_loaded, nvs_cal, profile, test>>

\* cal reset, and cal vdut: the slope and then the intercept.
CalSet ==
  /\ \/ todo' = apply_defaults
     \/ \E c \in 0..(NCH - 1), v \in Slopes :
          todo' = << <<<<"slope", c>>, v>>, <<<<"intercept", c>>, v>> >>
  /\ con' = Doing("set_cal", Device, NoText)
  /\ unsaved' = unsaved \cup {"cal"}
  /\ UNCHANGED <<calKept, s_cal, s_loaded, nvs_cal, profile, test>>

\* tc_cal_save: a new date when the clock has been set.  The profile is
\* written when the calibration was.
CalSave ==
  /\ s_loaded
  /\ \/ s_cal' = s_cal
     \/ s_cal[<<"stamp", 0>>] < MaxStamp /\ s_cal' = [s_cal EXCEPT ![<<"stamp", 0>>] = @ + 1]
  /\ \E ok \in BOOLEAN :
       /\ nvs_cal_write(cal_to_json(s_cal'), ok)
       /\ unsaved' = IF ok THEN unsaved \ {"cal"} ELSE unsaved
       /\ con' = IF ok THEN Doing("profile", Device, NoText) ELSE con
  /\ UNCHANGED <<calKept, s_loaded, todo, profile, test>>

\* tc_cal_write_profile_json; nobody learns that it fails.
WriteProfile ==
  /\ con.pc = "profile"
  /\ IF s_mounted
     THEN /\ con' = Doing("close", Device, NoText)
          /\ \/ profile' = profile
             \/ "torn" \in scenario /\ profile' = None
     ELSE con' = Idle /\ UNCHANGED profile
  /\ UNCHANGED <<calKept, s_cal, s_loaded, todo, nvs_cal, test, unsaved>>

ProfileWritten ==
  /\ con.pc = "close"
  /\ con' = Idle
  /\ \/ profile' = s_cal
     \/ "full" \in scenario /\ profile' \in {profile, None}
  /\ UNCHANGED <<calKept, s_cal, s_loaded, todo, nvs_cal, test, unsaved>>

-----------------------------------------------------------------------------
(***************************************************************************)
(* A test: power_check and the pre-test gate take limits from the          *)
(* configuration and compute a duty cycle from the calibration.            *)
(***************************************************************************)
Reads(t) ==
  /\ test' = t
  /\ UNCHANGED <<con, files, s_cfg, s_cal, s_loaded, todo, nvs_cal, profile, kept, unsaved>>

\* tc_config_get_int: without a tree the default, which is the factory's.
TestStarts ==
  /\ test = NoTest
  /\ Reads(IF s_cfg = NoText THEN [NoTest EXCEPT !.pc = "slope", !.cfg = Factory]
                             ELSE [NoTest EXCEPT !.pc = "tree", !.cfg = s_cfg])

TestReadsConfig ==
  /\ test.pc = "tree"
  /\ Reads([test EXCEPT !.pc = "slope"])

\* tc_cal_vdut_duty_for_mv: without a slope it refuses, and the power stays
\* off.  It reads the slope to test it, and may read it again to divide.
TestReadsSlope ==
  /\ test.pc = "slope"
  /\ Reads(IF s_cal[<<"slope", 0>>] = 0 THEN NoTest
           ELSE [test EXCEPT !.pc = "intercept", !.slope = s_cal[<<"slope", 0>>]])

TestReadsIntercept ==
  /\ test.pc = "intercept"
  /\ \E s \in {test.slope, s_cal[<<"slope", 0>>]} :
       Reads([test EXCEPT !.pc = "uses", !.slope = s, !.intercept = s_cal[<<"intercept", 0>>]])

TestEnds == test.pc = "uses" /\ Reads(NoTest)

TestNext == TestStarts \/ TestReadsConfig \/ TestReadsSlope \/ TestReadsIntercept \/ TestEnds
=============================================================================
