-------------------------- MODULE PersistenceProofs --------------------------
(***************************************************************************)
(* Proofs about Persistence: whatever fails, a recipe that runs is whole   *)
(* and was uploaded as that recipe, a saved configuration is not lost, and *)
(* the profile and what a test reads are the stored calibration.  For any  *)
(* ids, texts, lengths, channels, commands and power failures.             *)
(***************************************************************************)
EXTENDS Persistence, SequenceTheorems, TLAPS

MaybeText == Texts \cup {NoText}
File == [text : MaybeText, len : Nat]
Pcs == {"idle", "store", "version", "run", "load_config", "save_config",
        "load_cal", "reset_cal", "set_cal", "profile", "close"}
CommandRecord == [pc : Pcs, id : Keys, text : MaybeText]
JobRecord == [pc : {"idle", "size", "read", "parse", "running", "own"}, id : Keys \cup {NoId}, size : Nat, text : File]

TypeInv ==
  /\ s_mounted \in BOOLEAN
  /\ files \in [Keys -> File]
  /\ con \in CommandRecord
  /\ active \in Keys \cup {NoId}
  /\ job \in [Runners -> JobRecord]
  /\ uploaded \in [Keys -> SUBSET Texts]
  /\ s_cfg \in MaybeText /\ kept \in SUBSET MaybeText
  /\ con.pc \in {"store", "save_config"} => con.text \in Texts
  /\ \A p \in Runners : job[p].pc # "idle" => job[p].id \in Keys

\* What is written was uploaded under its id, or is the configuration.
WritesOwn ==
  /\ con.pc = "store" => con.id \in Ids /\ con.text \in uploaded[con.id]
  /\ con.pc = "save_config" => con.id = Device

\* c was uploaded as recipe k, or is nothing; it may have been cut.
Of(c, k) == c.text = NoText \/ c.text \in uploaded[k]

\* Files and what has been read of them.
RecipesAreOwn ==
  /\ \A k \in Ids : Of(files[k], k)
  /\ active \in Ids \cup {NoId}
  /\ \A p \in Runners :
       /\ job[p].pc # "idle" => job[p].id \in Ids
       /\ job[p].id \in Ids => Of(job[p].text, job[p].id)
       /\ job[p].pc = "running" => IsWhole(job[p].text)

ConfigIsKept ==
  /\ IsWhole(files[Device]) \/ files[Device] = Absent
  /\ files[Device].text \in kept

-----------------------------------------------------------------------------
\* A command that is not a write, or none.
Harmless(c) == c \in CommandRecord /\ c.pc \notin {"store", "save_config"}

\* A step that leaves files, recipes and jobs alone and begins no write.
Calm ==
  /\ UNCHANGED <<s_mounted, files, active, job, uploaded, kept, scenario>>
  /\ s_cfg' \in MaybeText
  /\ con' = con \/ Harmless(con')

LEMMA CommandTypes ==
  /\ Harmless(Idle)
  /\ \A pc \in Pcs, k \in Keys, t \in MaybeText :
       /\ Doing(pc, k, t) \in CommandRecord
       /\ pc \notin {"store", "save_config"} => Harmless(Doing(pc, k, t))
  /\ Device \in Keys /\ NoText \in MaybeText
<1>1. Device \in Keys /\ NoText \in MaybeText
  BY DEF Keys, MaybeText
<1>2. Harmless(Idle)
  BY <1>1 DEF Harmless, Idle, CommandRecord, Pcs
<1>3. ASSUME NEW pc \in Pcs, NEW k \in Keys, NEW t \in MaybeText
      PROVE  /\ Doing(pc, k, t) \in CommandRecord
             /\ pc \notin {"store", "save_config"} => Harmless(Doing(pc, k, t))
  <2>1. Doing(pc, k, t) \in CommandRecord
    BY DEF Doing, CommandRecord
  <2>2. Doing(pc, k, t).pc = pc
    BY DEF Doing
  <2> QED BY <2>1, <2>2 DEF Harmless
<1> QED BY <1>1, <1>2, <1>3

LEMMA ReadTypes ==
  ASSUME TypeInv, NEW k \in Keys, NEW n \in Nat
  PROVE  /\ Storage_GetSize(k) \in Nat
         /\ Storage_Read(k, n) \in File
         /\ Storage_Read(k, n) = Absent \/ Storage_Read(k, n).text = files[k].text
         /\ StoredConfig \in Texts
<1>1. Absent \in File
  BY DEF Absent, File, MaybeText
<1>2. files[k] \in File /\ files[Device] \in File
  BY DEF TypeInv, Keys
<1>3. Storage_GetSize(k) \in Nat
  BY <1>2 DEF Storage_GetSize, File
<1>4. /\ Storage_Read(k, n) \in File
      /\ Storage_Read(k, n) = Absent \/ Storage_Read(k, n).text = files[k].text
  BY <1>1, <1>2 DEF Storage_Read, File
<1>5. StoredConfig \in Texts
  BY SettingsAssumption DEF StoredConfig, ParseConfig, IsWhole
<1> QED BY <1>3, <1>4, <1>5

(***************************************************************************)
(* The steps of the calibration, of a test and of the boot, and what the   *)
(* configuration does short of a save, are calm.                           *)
(***************************************************************************)
LEMMA CalSteps ==
  ASSUME TypeInv, UNCHANGED <<s_mounted, recipeVars, scenario>>,
         CalLoad \/ CalSet \/ CalSave \/ Assigns \/ WriteProfile \/ ProfileWritten
  PROVE  Calm
<1>1. /\ s_cfg \in MaybeText /\ Harmless(Idle)
      /\ \A pc \in {"load_cal", "reset_cal", "set_cal", "profile", "close"} :
           Harmless(Doing(pc, Device, NoText))
  BY CommandTypes DEF TypeInv, Pcs
<1> USE DEF Calm, calKept, recipeVars
<1>2. CASE CalLoad
  <2>1. con' = Doing("load_cal", Device, NoText) \/ con' = Doing("reset_cal", Device, NoText)
    BY <1>2 DEF CalLoad
  <2> QED BY <1>1, <1>2, <2>1 DEF CalLoad
<1>3. CASE CalSet BY <1>1, <1>3 DEF CalSet
<1>4. CASE CalSave
  <2>1. con' = con \/ con' = Doing("profile", Device, NoText)
    BY <1>4 DEF CalSave
  <2> QED BY <1>1, <1>4, <2>1 DEF CalSave
<1>5. CASE Assigns
  <2>1. con' = con \/ con' = Doing("profile", Device, NoText) \/ con' = Idle
    BY <1>5 DEF Assigns
  <2> QED BY <1>1, <1>5, <2>1 DEF Assigns
<1>6. CASE WriteProfile BY <1>1, <1>6 DEF WriteProfile
<1>7. CASE ProfileWritten BY <1>1, <1>7 DEF ProfileWritten
<1> QED BY <1>2, <1>3, <1>4, <1>5, <1>6, <1>7

LEMMA ConfigSteps ==
  ASSUME TypeInv, UNCHANGED <<s_mounted, recipeVars, scenario>>,
         ConfigLoad \/ ConfigLoaded \/ (\E t \in Texts : ConfigSet(t)) \/ TestNext
  PROVE  Calm
<1>0. /\ s_cfg \in MaybeText /\ Texts \subseteq MaybeText /\ NoText \in MaybeText
      /\ Harmless(Idle) /\ Harmless(Doing("load_config", Device, NoText))
  BY CommandTypes DEF TypeInv, MaybeText, Pcs
<1> USE DEF Calm, cfgKept, recipeVars
<1>1. CASE ConfigLoad BY <1>0, <1>1 DEF ConfigLoad
<1>2. CASE ConfigLoaded
  <2>1. StoredConfig \in Texts BY ReadTypes DEF Keys
  <2> QED BY <1>0, <1>2, <2>1 DEF ConfigLoaded
<1>3. CASE \E t \in Texts : ConfigSet(t) BY <1>0, <1>3 DEF ConfigSet
<1>4. CASE TestNext
  <2>1. \E t : Reads(t)
    BY <1>4 DEF TestNext, TestStarts, TestReadsConfig, TestReadsSlope, TestReadsIntercept, TestEnds
  <2> QED BY <1>0, <2>1 DEF Reads
<1> QED BY <1>1, <1>2, <1>3, <1>4

-----------------------------------------------------------------------------
(***************************************************************************)
(* What a step of the whole does, as far as the invariants can tell.       *)
(***************************************************************************)
Uploads == \E k \in RecipeIds, t \in Texts : SetB64(k, t)
Deletes == \E k \in Ids : Delete(k)
Selects == \E k \in Ids : Select(k)
RunsByHand == \E k \in Ids : RecipeRun(k)
Tests == \E k \in Ids \cup {NoId} : StartTest(k)
Loads == \E p \in Runners : LoadSize(p) \/ LoadText(p)
Finishes == (\E p \in Runners : Run(p) \/ Ends(p)) \/ RunHardcoded

\* A recipe's action, which leaves the settings alone, or a save.
Acts ==
  /\ UNCHANGED <<s_mounted, scenario>>
  /\ \/ /\ UNCHANGED settingsVars
        /\ Uploads \/ Deletes \/ Selects \/ RunsByHand \/ Stored \/ Tests \/ Loads \/ Finishes
     \/ UNCHANGED recipeVars /\ (ConfigSave \/ ConfigSaved)

Mounts == Storage_Init /\ UNCHANGED <<con, recipeVars, settingsVars, scenario>>

LEMMA NextCases ==
  ASSUME TypeInv, [Next]_vars
  PROVE  Calm \/ Acts \/ Mounts \/ PowerFails
<1>1. CASE UNCHANGED vars
  BY <1>1 DEF vars, recipeVars, settingsVars, Calm, TypeInv
<1>2. CASE Boot
  <2>1. CASE BootMount BY <1>2, <2>1 DEF Boot, BootMount, Mounts
  <2>2. CASE BootConfig BY <1>2, <2>2, ConfigSteps DEF Boot, BootConfig
  <2>3. CASE BootCal BY <1>2, <2>3, CalSteps DEF Boot, BootCal
  <2>4. CASE BootTasks
    BY <1>2, <2>4 DEF Boot, BootTasks, Calm, recipeVars, settingsVars, TypeInv
  <2> QED BY <1>2, <2>1, <2>2, <2>3, <2>4 DEF Boot
<1>3. CASE Command
  <2>1. CASE RecipeCommand
    BY <1>3, <2>1 DEF Command, RecipeCommand, Acts, Uploads, Deletes, Selects, RunsByHand
  <2>2. CASE ConfigCommand
    BY <1>3, <2>2, ConfigSteps DEF Command, ConfigCommand, Acts
  <2>3. CASE CalCommand
    BY <1>3, <2>3, CalSteps DEF Command, CalCommand
  <2> QED BY <1>3, <2>1, <2>2, <2>3 DEF Command
<1>4. CASE Proceeds
  <2>1. CASE Stored /\ UNCHANGED settingsVars
    BY <1>4, <2>1 DEF Proceeds, Acts
  <2>2. CASE SelectVersion /\ UNCHANGED settingsVars
    BY <1>4, <2>2, CommandTypes DEF Proceeds, SelectVersion, Calm, settingsVars, TypeInv
  <2>3. CASE (ConfigLoaded \/ ConfigSaved) /\ UNCHANGED recipeVars
    BY <1>4, <2>3, ConfigSteps DEF Proceeds, Acts
  <2>4. CASE (Assigns \/ WriteProfile \/ ProfileWritten) /\ UNCHANGED recipeVars
    BY <1>4, <2>4, CalSteps DEF Proceeds
  <2> QED BY <1>4, <2>1, <2>2, <2>3, <2>4 DEF Proceeds
<1>5. CASE RecipeSteps
  BY <1>5 DEF RecipeSteps, Acts, Tests, Loads, Finishes
<1>6. CASE TestSteps
  BY <1>6, ConfigSteps DEF TestSteps
<1> QED BY <1>1, <1>2, <1>3, <1>4, <1>5, <1>6 DEF Next

(***************************************************************************)
(* What can be in a file after a write, done, cut or failed.               *)
(***************************************************************************)
LEMMA WriteTypes ==
  ASSUME TypeInv, NEW k \in Keys, NEW t \in Texts,
         Opens(k, t) \/ Closes(k, t) \/ FailsToWrite(k, t)
  PROVE  /\ files' \in [Keys -> File]
         /\ \A i \in Keys \ {k} : files'[i] = files[i]
         /\ files'[k].text \in {files[k].text, t, NoText}
<1>1. files \in [Keys -> File] BY DEF TypeInv
<1>2. \A c \in Parts(t) \cup {Whole(t)} : c \in File /\ c.text \in {t, NoText}
  BY TextsAssumption DEF Parts, Whole, Absent, File, MaybeText
<1>3. UNCHANGED files \/ \E c \in Parts(t) \cup {Whole(t)} : files' = [files EXCEPT ![k] = c]
  BY DEF Opens, Closes, FailsToWrite
<1> QED BY <1>1, <1>2, <1>3

\* A load in its two steps, which another command may come between.
LEMMA LoadTypes ==
  ASSUME TypeInv, NEW p \in Runners, LoadSize(p) \/ LoadText(p)
  PROVE  /\ job' \in [Runners -> JobRecord]
         /\ \A q \in Runners : job'[q].id = job[q].id /\ (job'[q].pc = "idle" <=> job[q].pc = "idle")
         /\ \A q \in Runners : job'[q].text = job[q].text \/ job'[q].text = Absent
                                 \/ job'[q].text.text = files[job[q].id].text
         /\ \A q \in Runners : job'[q].pc = "running" => job'[q] = job[q]
         /\ UNCHANGED <<con, files, active, uploaded>>
<1> DEFINE k == job[p].id
           n == Storage_GetSize(k)
           c == Storage_Read(k, job[p].size)
<1>1. job \in [Runners -> JobRecord] /\ job[p] \in JobRecord /\ k \in Keys
  BY DEF LoadSize, LoadText, TypeInv
<1>2. job[p].size \in Nat
  BY <1>1 DEF JobRecord
<1>3. n \in Nat /\ c \in File /\ (c = Absent \/ c.text = files[k].text)
  BY <1>1, <1>2, ReadTypes
<1>4. UNCHANGED <<con, files, active, uploaded>> /\ job[p].pc \in {"size", "read"}
  BY DEF LoadSize, LoadText, Goes
<1>5. \/ job' = [job EXCEPT ![p] = [job[p] EXCEPT !.pc = "read", !.size = n]]
      \/ job' = [job EXCEPT ![p] = [job[p] EXCEPT !.pc = "parse", !.text = c]]
  BY DEF LoadSize, LoadText, Goes
<1> HIDE DEF n, c
<1>6. CASE job' = [job EXCEPT ![p] = [job[p] EXCEPT !.pc = "read", !.size = n]]
  BY <1>1, <1>3, <1>4, <1>6 DEF JobRecord
<1>7. CASE job' = [job EXCEPT ![p] = [job[p] EXCEPT !.pc = "parse", !.text = c]]
  BY <1>1, <1>3, <1>4, <1>7 DEF JobRecord
<1> QED BY <1>5, <1>6, <1>7

\* A runner begins with the size of recipe k.
BeginsJob(p, k) ==
  p \in Runners /\ job' = [job EXCEPT ![p] = [NoJob EXCEPT !.pc = "size", !.id = k]]

LEMMA JobBegins ==
  ASSUME TypeInv, NEW p, NEW k \in Keys, BeginsJob(p, k)
  PROVE  /\ job' \in [Runners -> JobRecord]
         /\ \A q \in Runners : \/ job'[q] = job[q]
                               \/ job'[q].id = k /\ job'[q].text = Absent /\ job'[q].pc = "size"
<1> DEFINE j == [NoJob EXCEPT !.pc = "size", !.id = k]
<1>1. j \in JobRecord /\ j.id = k /\ j.text = Absent /\ j.pc = "size"
  BY DEF NoJob, JobRecord, File, Absent, MaybeText
<1>2. p \in Runners /\ job' = [job EXCEPT ![p] = j] /\ job \in [Runners -> JobRecord]
  BY DEF BeginsJob, TypeInv
<1> HIDE DEF j
<1>3. job' \in [Runners -> JobRecord]
  BY <1>1, <1>2
<1>4. \A q \in Runners : job'[q] = IF q = p THEN j ELSE job[q]
  BY <1>2
<1>5. ASSUME NEW q \in Runners
      PROVE  \/ job'[q] = job[q]
             \/ job'[q].id = k /\ job'[q].text = Absent /\ job'[q].pc = "size"
  <2>1. CASE q = p BY <1>1, <1>4, <2>1
  <2>2. CASE q # p BY <1>4, <2>2
  <2> QED BY <2>1, <2>2
<1> QED BY <1>3, <1>5

\* A recipe runs if it is whole, and ends.
LEMMA FinishTypes ==
  ASSUME TypeInv, Finishes
  PROVE  /\ job' \in [Runners -> JobRecord] /\ con' \in {con, Idle}
         /\ UNCHANGED <<files, active, uploaded>>
         /\ \A q \in Runners :
              \/ job'[q] = NoJob
              \/ /\ job[q].pc # "idle" /\ job'[q].id = job[q].id /\ job'[q].text = job[q].text
                 /\ job'[q].pc = "running" => IsWhole(job[q].text) \/ job[q].pc = "running"
              \/ job'[q] = job[q]
<1>1. job \in [Runners -> JobRecord] /\ NoJob \in JobRecord
  BY DEF TypeInv, NoJob, JobRecord, File, Absent, MaybeText
<1>2. CASE \E p \in Runners : Run(p)
  <2>1. PICK p \in Runners : Run(p) BY <1>2
  <2> DEFINE j == [job[p] EXCEPT !.pc = "running"]
  <2>2. job[p] \in JobRecord BY <1>1
  <2>3. j \in JobRecord /\ j.id = job[p].id /\ j.text = job[p].text /\ j.pc = "running"
    BY <2>2 DEF JobRecord
  <2>4. /\ job' = [job EXCEPT ![p] = j] /\ job[p].pc = "parse" /\ IsWhole(job[p].text)
        /\ UNCHANGED <<con, files, active, uploaded>>
    BY <2>1 DEF Run, Goes, Parses
  <2> HIDE DEF j
  <2> QED BY <1>1, <2>3, <2>4
<1>3. CASE \E p \in Runners : Ends(p)
  BY <1>1, <1>3 DEF Ends, Goes
<1>4. CASE RunHardcoded
  <2> DEFINE j == [job["console"] EXCEPT !.pc = "own"]
  <2>1. job["console"] \in JobRecord BY <1>1 DEF Runners
  <2>2. j \in JobRecord /\ j.id = job["console"].id /\ j.text = job["console"].text /\ j.pc = "own"
    BY <2>1 DEF JobRecord
  <2>3. /\ job' = [job EXCEPT !["console"] = j] /\ job["console"].pc = "parse"
        /\ UNCHANGED <<con, files, active, uploaded>>
    BY <1>4 DEF RunHardcoded, Hardcoded, Goes
  <2> HIDE DEF j
  <2> QED BY <1>1, <2>2, <2>3
<1> QED BY <1>2, <1>3, <1>4 DEF Finishes

LEMMA InitType == Init => TypeInv
<1> SUFFICES ASSUME Init PROVE TypeInv
  OBVIOUS
<1>1. Absent \in File /\ NoText \in MaybeText
  BY DEF Absent, File, MaybeText
<1>2. con \in CommandRecord
  BY CommandTypes DEF Init, Harmless
<1>3. NoJob \in JobRecord
  BY <1>1 DEF NoJob, JobRecord
<1> QED BY <1>1, <1>2, <1>3 DEF Init, RecipeInit, SettingsInit, TypeInv, Idle, NoJob

LEMMA TypeStep == TypeInv /\ [Next]_vars => TypeInv'
<1> SUFFICES ASSUME TypeInv, [Next]_vars PROVE TypeInv'
  OBVIOUS
<1>0. /\ Idle \in CommandRecord /\ NoJob \in JobRecord /\ Absent \in File
      /\ NoText \in MaybeText /\ Texts \subseteq MaybeText
      /\ Idle.pc = "idle" /\ NoJob.pc = "idle"
  BY CommandTypes DEF Harmless, NoJob, JobRecord, Absent, File, MaybeText, Idle
<1>1. CASE Calm
  BY <1>1 DEF Calm, Harmless, TypeInv
<1>2. CASE Mounts
  BY <1>0, <1>2 DEF Mounts, Storage_Init, recipeVars, settingsVars, TypeInv
<1>3. CASE PowerFails
  BY <1>0, <1>3 DEF PowerFails, TypeInv
<1>4. CASE Acts
  <2> USE <1>0 DEF recipeVars, settingsVars
  <2>0. UNCHANGED s_mounted BY <1>4 DEF Acts
  <2>1. CASE Uploads /\ UNCHANGED settingsVars
    <3>1. PICK k \in RecipeIds, t \in Texts : SetB64(k, t)
      BY <2>1 DEF Uploads
    <3>2. k \in Keys
      BY DEF RecipeIds, Keys
    <3>3. /\ files' \in [Keys -> File]
          /\ con' = Idle \/ con' = Doing("store", k, t)
      BY <3>1, <3>2, WriteTypes DEF SetB64, BeginWrite, TypeInv
    <3>4. con' \in CommandRecord /\ (con'.pc \in {"store", "save_config"} => con'.text \in Texts)
      BY <3>2, <3>3, CommandTypes DEF Pcs, Doing
    <3>5. uploaded' \in [Keys -> SUBSET Texts]
      BY <3>1 DEF SetB64, TypeInv
    <3> QED BY <2>0, <2>1, <3>1, <3>3, <3>4, <3>5 DEF SetB64, TypeInv
  <2>2. CASE Deletes /\ UNCHANGED settingsVars
    BY <2>0, <2>2 DEF Deletes, Delete, Storage_Delete, TypeInv, Keys
  <2>3. CASE Selects /\ UNCHANGED settingsVars
    <3>1. PICK k \in Ids : Select(k)
      BY <2>3 DEF Selects
    <3>2. k \in Keys /\ con' \in CommandRecord /\ con'.pc = "version"
      BY <3>1, CommandTypes DEF Select, Keys, Pcs, Doing
    <3> QED BY <2>0, <2>3, <3>1, <3>2 DEF Select, TypeInv
  <2>4. CASE RunsByHand /\ UNCHANGED settingsVars
    <3>1. PICK k \in Ids : RecipeRun(k)
      BY <2>4 DEF RunsByHand
    <3>2. k \in Keys /\ con' \in CommandRecord /\ con'.pc = "run"
      BY <3>1, CommandTypes DEF RecipeRun, Keys, Pcs, Doing
    <3>3. BeginsJob("console", k)
      BY <3>1, <3>2 DEF RecipeRun, Goes, BeginsJob, Runners
    <3> QED BY <2>0, <2>4, <3>1, <3>2, <3>3, JobBegins DEF RecipeRun, Goes, TypeInv
  <2>5. CASE Stored /\ UNCHANGED settingsVars
    <3>1. con.id \in Keys /\ con.text \in Texts
      BY <2>5 DEF Stored, TypeInv, CommandRecord
    <3>2. files' \in [Keys -> File]
      BY <2>5, <3>1, WriteTypes DEF Stored, EndWrite
    <3> QED BY <2>0, <2>5, <3>2 DEF Stored, TypeInv, Idle
  <2>6. CASE Tests /\ UNCHANGED settingsVars
    <3>1. PICK k \in Ids \cup {NoId} : StartTest(k)
      BY <2>6 DEF Tests
    <3> DEFINE id == IF k = NoId THEN active ELSE k
    <3>2. id \in Keys /\ BeginsJob("task", id)
      BY <3>1 DEF StartTest, Goes, BeginsJob, Runners, TypeInv, Keys
    <3> QED BY <2>0, <2>6, <3>1, <3>2, JobBegins DEF StartTest, Goes, TypeInv
  <2>7. CASE Loads /\ UNCHANGED settingsVars
    <3>1. PICK p \in Runners : LoadSize(p) \/ LoadText(p)
      BY <2>7 DEF Loads
    <3> QED BY <2>0, <2>7, <3>1, LoadTypes DEF TypeInv
  <2>8. CASE Finishes /\ UNCHANGED settingsVars
    <3>1. \A q \in Runners : job'[q].pc # "idle" => job[q].pc # "idle" /\ job'[q].id = job[q].id
      BY <2>8, FinishTypes
    <3> QED BY <2>0, <2>8, <3>1, FinishTypes DEF TypeInv
  <2>9. CASE ConfigSave /\ UNCHANGED recipeVars
    <3>1. s_cfg \in Texts /\ Device \in Keys
      BY <2>9 DEF ConfigSave, TypeInv, MaybeText, Keys
    <3>2. /\ files' \in [Keys -> File]
          /\ con' = Idle \/ con' = Doing("save_config", Device, s_cfg)
      BY <2>9, <3>1, WriteTypes DEF ConfigSave, BeginWrite, TypeInv
    <3>3. con' \in CommandRecord /\ (con'.pc \in {"store", "save_config"} => con'.text \in Texts)
      BY <3>1, <3>2, CommandTypes DEF Pcs, Idle, Doing
    <3> QED BY <2>0, <2>9, <3>1, <3>2, <3>3 DEF ConfigSave, TypeInv
  <2>10. CASE ConfigSaved /\ UNCHANGED recipeVars
    <3>1. con.id \in Keys /\ con.text \in Texts
      BY <2>10 DEF ConfigSaved, TypeInv, CommandRecord
    <3>2. files' \in [Keys -> File]
      BY <2>10, <3>1, WriteTypes DEF ConfigSaved, EndWrite
    <3> QED BY <2>0, <2>10, <3>1, <3>2 DEF ConfigSaved, TypeInv, Idle
  <2> QED BY <1>4, <2>1, <2>2, <2>3, <2>4, <2>5, <2>6, <2>7, <2>8, <2>9, <2>10 DEF Acts
<1> QED BY <1>1, <1>2, <1>3, <1>4, NextCases

-----------------------------------------------------------------------------
(***************************************************************************)
(* Files, jobs and the write in progress, when "device" is no recipe.      *)
(***************************************************************************)
StoreInv == WritesOwn /\ RecipesAreOwn

LEMMA InitStore == Init => StoreInv
<1> SUFFICES ASSUME Init PROVE StoreInv
  OBVIOUS
<1>1. WritesOwn
  BY DEF Init, Idle, WritesOwn
<1>2. RecipesAreOwn
  BY IdsAssumption, NoIdAssumption
  DEF Init, RecipeInit, RecipesAreOwn, Of, Absent, NoJob, Keys
<1> QED BY <1>1, <1>2 DEF StoreInv

LEMMA StoreStep ==
  ASSUME TypeInv, TypeInv', StoreInv, "collide" \notin scenario, [Next]_vars
  PROVE  StoreInv'
<1>0. /\ Idle.pc = "idle" /\ NoJob.pc = "idle" /\ NoJob.id = NoId /\ Absent.text = NoText
      /\ NoId \notin Ids /\ Device \notin Ids /\ Ids \subseteq Keys /\ RecipeIds = Ids
  BY IdsAssumption, NoIdAssumption DEF Idle, NoJob, Absent, Keys, RecipeIds
<1>1. CASE Calm
  BY <1>1 DEF Calm, Harmless, StoreInv, WritesOwn, RecipesAreOwn, Of
<1>2. CASE Mounts
  <2>1. \A k \in Ids : files'[k] = files[k] \/ files'[k] = Absent
    BY <1>0, <1>2 DEF Mounts, Storage_Init
  <2> QED BY <1>0, <1>2, <2>1
    DEF Mounts, recipeVars, StoreInv, WritesOwn, RecipesAreOwn, Of
<1>3. CASE PowerFails
  BY <1>0, <1>3 DEF PowerFails, StoreInv, WritesOwn, RecipesAreOwn, Of
<1>4. CASE Acts
  <2> USE <1>0 DEF recipeVars, settingsVars, StoreInv
  <2>1. CASE Uploads
    <3>1. PICK k \in Ids, t \in Texts : SetB64(k, t)
      BY <2>1 DEF Uploads
    <3>2. /\ \A i \in Keys : uploaded[i] \subseteq uploaded'[i]
          /\ t \in uploaded'[k] /\ UNCHANGED <<active, job>>
      BY <3>1 DEF SetB64, TypeInv
    <3>3. \A i \in Ids : \/ files'[i] = files[i]
                         \/ i = k /\ files'[i].text \in {files[i].text, t, NoText}
      <4>1. CASE s_mounted
        <5>1. Opens(k, t) /\ k \in Keys BY <3>1, <4>1 DEF SetB64, BeginWrite
        <5> QED BY <5>1, WriteTypes
      <4>2. CASE ~s_mounted BY <3>1, <4>2 DEF SetB64, BeginWrite
      <4> QED BY <4>1, <4>2
    <3>4. con' = Idle \/ con' = Doing("store", k, t)
      BY <3>1 DEF SetB64, BeginWrite
    <3>5. WritesOwn'
      BY <3>2, <3>4 DEF WritesOwn, Doing
    <3> QED BY <3>2, <3>3, <3>5 DEF RecipesAreOwn, Of
  <2>2. CASE Deletes
    BY <2>2 DEF Deletes, Delete, Storage_Delete, WritesOwn, RecipesAreOwn, Of, TypeInv
  <2>3. CASE Selects
    BY <2>3 DEF Selects, Select, Doing, WritesOwn, RecipesAreOwn, Of
  <2>4. CASE RunsByHand
    <3>1. PICK k \in Ids : RecipeRun(k)
      BY <2>4 DEF RunsByHand
    <3>2. BeginsJob("console", k) /\ UNCHANGED <<files, active, uploaded>> /\ con'.pc = "run"
      BY <3>1 DEF RecipeRun, Goes, BeginsJob, Runners, Doing
    <3> QED BY <3>1, <3>2, JobBegins DEF WritesOwn, RecipesAreOwn, Of
  <2>5. CASE Stored
    <3>1. con.id \in Ids /\ con.text \in uploaded[con.id] /\ con.text \in Texts
      BY <2>5 DEF Stored, WritesOwn, TypeInv
    <3>2. \A i \in Ids : \/ files'[i] = files[i]
                         \/ i = con.id /\ files'[i].text \in {files[i].text, con.text, NoText}
      <4>1. Closes(con.id, con.text) \/ FailsToWrite(con.id, con.text)
        BY <2>5 DEF Stored, EndWrite
      <4>2. con.id \in Keys BY <3>1
      <4> QED BY <3>1, <4>1, <4>2, WriteTypes
    <3>3. UNCHANGED <<active, job, uploaded>> /\ con' = Idle
      BY <2>5 DEF Stored
    <3> QED BY <3>1, <3>2, <3>3 DEF WritesOwn, RecipesAreOwn, Of
  <2>6. CASE Tests
    <3>1. PICK k \in Ids \cup {NoId} : StartTest(k)
      BY <2>6 DEF Tests
    <3> DEFINE id == IF k = NoId THEN active ELSE k
    <3>2. id \in Ids /\ BeginsJob("task", id) /\ UNCHANGED <<con, files, active, uploaded>>
      BY <3>1 DEF StartTest, Goes, BeginsJob, Runners, RecipesAreOwn
    <3> HIDE DEF id
    <3> QED BY <3>2, JobBegins DEF WritesOwn, RecipesAreOwn, Of
  <2>7. CASE Loads
    <3>1. PICK p \in Runners : LoadSize(p) \/ LoadText(p)
      BY <2>7 DEF Loads
    <3> QED BY <3>1, LoadTypes DEF WritesOwn, RecipesAreOwn, Of
  <2>8. CASE Finishes
    BY <2>8, FinishTypes DEF WritesOwn, RecipesAreOwn, Of
  <2>9. CASE ConfigSave /\ UNCHANGED recipeVars
    <3>1. s_cfg \in Texts /\ Device \in Keys
      BY <2>9 DEF ConfigSave, TypeInv, MaybeText, Keys
    <3>2. /\ \A i \in Ids : files'[i] = files[i]
          /\ con' = Idle \/ con' = Doing("save_config", Device, s_cfg)
      BY <2>9, <3>1, WriteTypes DEF ConfigSave, BeginWrite
    <3> QED BY <2>9, <3>2 DEF Doing, WritesOwn, RecipesAreOwn, Of
  <2>10. CASE ConfigSaved /\ UNCHANGED recipeVars
    <3>1. con.id = Device /\ con.id \in Keys /\ con.text \in Texts
      BY <2>10 DEF ConfigSaved, WritesOwn, TypeInv, Keys
    <3>2. (\A i \in Ids : files'[i] = files[i]) /\ con' = Idle
      BY <2>10, <3>1, WriteTypes DEF ConfigSaved, EndWrite
    <3> QED BY <2>10, <3>2 DEF WritesOwn, RecipesAreOwn, Of
  <2> QED BY <1>4, <2>1, <2>2, <2>3, <2>4, <2>5, <2>6, <2>7, <2>8, <2>9, <2>10 DEF Acts
<1> QED BY <1>1, <1>2, <1>3, <1>4, NextCases

(***************************************************************************)
(* The configuration's file, where writes are atomic and do not fail.      *)
(***************************************************************************)
Sound == Without({"torn", "full", "format", "collide"})

LEMMA SoundScenario ==
  ASSUME Sound
  PROVE  "torn" \notin scenario /\ "full" \notin scenario /\ "format" \notin scenario /\ "collide" \notin scenario
  BY DEF Sound, Without

LEMMA ConfigStep ==
  ASSUME TypeInv, StoreInv, ConfigIsKept, Sound, [Next]_vars
  PROVE  ConfigIsKept'
<1>0. /\ "torn" \notin scenario /\ "full" \notin scenario /\ "format" \notin scenario
      /\ Device \in Keys /\ Device \notin Ids /\ RecipeIds = Ids /\ Ids \subseteq Keys
  BY SoundScenario, IdsAssumption DEF Keys, RecipeIds
<1>1. ASSUME UNCHANGED kept, files'[Device] = files[Device] PROVE ConfigIsKept'
  BY <1>1 DEF ConfigIsKept, IsWhole
<1>2. CASE Calm BY <1>1, <1>2 DEF Calm
<1>3. CASE Mounts BY <1>0, <1>1, <1>3 DEF Mounts, Storage_Init, settingsVars
<1>4. CASE PowerFails BY <1>1, <1>4 DEF PowerFails
<1>5. CASE Acts
  <2>1. CASE UNCHANGED settingsVars /\ (Uploads \/ Deletes \/ Selects \/ RunsByHand \/ Stored \/ Tests \/ Loads \/ Finishes)
    <3>1. UNCHANGED kept
      BY <2>1 DEF settingsVars
    <3>2. CASE Uploads
      BY <1>0, <1>1, <3>1, <3>2 DEF Uploads, SetB64, BeginWrite, Opens
    <3>3. CASE Deletes
      BY <1>0, <1>1, <3>1, <3>3 DEF Deletes, Delete, Storage_Delete, TypeInv
    <3>4. CASE Stored
      <4>1. con.id \in Ids /\ Closes(con.id, con.text)
        BY <1>0, <3>4 DEF Stored, EndWrite, FailsToWrite, StoreInv, WritesOwn
      <4>2. files'[Device] = files[Device]
        BY <1>0, <4>1 DEF Closes, TypeInv
      <4> QED BY <1>1, <3>1, <4>2
    <3>5. CASE Selects BY <1>1, <3>1, <3>5 DEF Selects, Select
    <3>6. CASE RunsByHand BY <1>1, <3>1, <3>6 DEF RunsByHand, RecipeRun, Goes
    <3>7. CASE Tests BY <1>1, <3>1, <3>7 DEF Tests, StartTest, Goes
    <3>8. CASE Loads BY <1>1, <3>1, <3>8 DEF Loads, LoadSize, LoadText, Goes
    <3>9. CASE Finishes BY <1>1, <3>1, <3>9, FinishTypes
    <3> QED BY <2>1, <3>2, <3>3, <3>4, <3>5, <3>6, <3>7, <3>8, <3>9
  <2>2. CASE ConfigSave
    <3>1. UNCHANGED files /\ kept \subseteq kept'
      BY <1>0, <2>2 DEF ConfigSave, BeginWrite, Opens
    <3> QED BY <3>1 DEF ConfigIsKept, IsWhole
  <2>3. CASE ConfigSaved
    <3>1. con.id = Device /\ con.text \in Texts
      BY <2>3 DEF ConfigSaved, StoreInv, WritesOwn, TypeInv
    <3>2. files'[Device] = Whole(con.text) /\ kept' = {con.text}
      BY <1>0, <2>3, <3>1 DEF ConfigSaved, EndWrite, FailsToWrite, Closes, TypeInv
    <3> QED BY <3>1, <3>2 DEF ConfigIsKept, IsWhole, Whole
  <2> QED BY <1>5, <2>1, <2>2, <2>3 DEF Acts
<1> QED BY <1>2, <1>3, <1>4, <1>5, NextCases

-----------------------------------------------------------------------------
PersistInv ==
  /\ TypeInv
  /\ "collide" \notin scenario => StoreInv
  /\ Sound => ConfigIsKept

LEMMA ScenarioStays == TypeInv /\ [Next]_vars => scenario' = scenario
  BY NextCases DEF Calm, Acts, Mounts, PowerFails

LEMMA InitPersist == Init => PersistInv
<1>1. Init => ConfigIsKept
  BY DEF Init, SettingsInit, ConfigIsKept, Absent, Keys
<1> QED BY <1>1, InitType, InitStore DEF PersistInv

LEMMA NextPersist == PersistInv /\ [Next]_vars => PersistInv'
<1> SUFFICES ASSUME PersistInv, [Next]_vars PROVE PersistInv'
  OBVIOUS
<1>1. TypeInv /\ TypeInv' /\ scenario' = scenario
  BY TypeStep, ScenarioStays DEF PersistInv
<1>2. ASSUME "collide" \notin scenario PROVE StoreInv'
  BY <1>1, <1>2, StoreStep DEF PersistInv
<1>3. ASSUME Sound PROVE ConfigIsKept'
  BY <1>1, <1>3, SoundScenario, ConfigStep DEF PersistInv
<1>4. Sound' = Sound
  BY <1>1 DEF Sound, Without
<1> QED BY <1>1, <1>2, <1>3, <1>4 DEF PersistInv

(***************************************************************************)
(* recipe_json_load_nvs and Storage_Write, for any recipes: what a runner  *)
(* of recipe_task.c or recipe_json.c runs is all of a text that was        *)
(* uploaded as its recipe, through failing writes and power failures.      *)
(***************************************************************************)
THEOREM RecipesRunWhole == Spec => []RunsWhole
<1>1. PersistInv => RunsWhole
  <2> SUFFICES ASSUME PersistInv, "collide" \notin scenario,
                      NEW p \in Runners, job[p].pc = "running"
               PROVE  IsWhole(job[p].text) /\ job[p].text.text \in uploaded[job[p].id]
    BY DEF RunsWhole
  <2>1. RecipesAreOwn
    BY DEF PersistInv, StoreInv
  <2>2. IsWhole(job[p].text) /\ Of(job[p].text, job[p].id)
    BY <2>1 DEF RecipesAreOwn
  <2> QED BY <2>2, TextsAssumption DEF IsWhole, Of
<1> QED BY <1>1, InitPersist, NextPersist, PTL DEF Spec

(***************************************************************************)
(* tc_config_save, for any configurations: a power failure at any time     *)
(* leaves the whole of the last saved one, or of the one being saved.      *)
(***************************************************************************)
THEOREM SavedConfigSurvives == Spec => []ConfigSurvives
<1>1. PersistInv => ConfigSurvives
  BY DEF PersistInv, Sound, ConfigIsKept, ConfigSurvives
<1> QED BY <1>1, InitPersist, NextPersist, PTL DEF Spec

-----------------------------------------------------------------------------
(***************************************************************************)
(* What is stored and what is live.  A load or a set is a list of          *)
(* assignments, todo, that may be cut short at any of them.                *)
(***************************************************************************)
Slope0 == <<"slope", 0>>
Intercept0 == <<"intercept", 0>>
Assignments == Seq(Places \X Nat)

\* A stored calibration: none, all of one, or one of the old format at least.
Blob(j) ==
  \/ j = None
  \/ /\ {Slope0, Intercept0} \subseteq DOMAIN j
     /\ \A p \in DOMAIN j : j[p] \in Nat

\* When the assignments td have been made to cal, it is c.
Settles(td, cal, c) ==
  \A p \in Places : \E n \in 0..Len(td) :
    /\ n = 0 => cal[p] = c[p]
    /\ n > 0 => td[n] = <<p, c[p]>>
    /\ \A m \in 1..Len(td) : m > n /\ td[m][1] = p => td[m][2] = c[p]

LEMMA OrderLists ==
  /\ Order \in Seq(Places) /\ Len(Order) \in Nat \ {0} /\ DOMAIN Order = 1..Len(Order)
  /\ \A p \in Places : \E n \in 1..Len(Order) : Order[n] = p
  /\ \A ch \in 0..(NCH - 1) : <<"slope", ch>> \in Places /\ <<"intercept", ch>> \in Places
  /\ Slope0 \in Places /\ Intercept0 \in Places
<1> DEFINE S == {"slope", "intercept", "stamp"} \X Nat
           channels == [n \in 1..(2 * NCH) |->
                          <<IF n % 2 = 1 THEN "slope" ELSE "intercept", (n - 1) \div 2>>]
           stamp == <<<<"stamp", 0>>>>
<1>1. 2 * NCH \in Nat /\ 2 * NCH >= 2 BY SettingsAssumption
<1>2. channels \in Seq(S) /\ Len(channels) = 2 * NCH
  <2> DEFINE kind(n) == IF n % 2 = 1 THEN "slope" ELSE "intercept"
             M == 2 * NCH
  <2>1. \A n \in 1..M : kind(n) \in {"slope", "intercept"} /\ (n - 1) \div 2 \in Nat
    <3>1. ASSUME NEW n \in 1..M PROVE (n - 1) \div 2 \in Nat BY <1>1
    <3>2. ASSUME NEW n \in 1..M PROVE kind(n) \in {"slope", "intercept"}
      <4>1. CASE n % 2 = 1 BY <4>1
      <4>2. CASE n % 2 # 1 BY <4>2
      <4> QED BY <4>1, <4>2
    <3> QED BY <3>1, <3>2
  <2>2. channels \in [1..M -> S]
    <3>1. channels = [n \in 1..M |-> <<kind(n), (n - 1) \div 2>>] OBVIOUS
    <3> HIDE DEF kind, channels, M
    <3> QED BY <2>1, <3>1
  <2>3. channels \in Seq(S)
    <3>1. M \in Nat BY <1>1
    <3> HIDE DEF M, channels, S
    <3> QED BY <2>2, <3>1, SeqDef
  <2>4. DOMAIN channels = 1..(2 * NCH) /\ DOMAIN channels = 1..Len(channels)
    <3>1. DOMAIN channels = 1..(2 * NCH) OBVIOUS
    <3> HIDE DEF channels, S
    <3> QED BY <2>3, <3>1, LenProperties
  <2>5. Len(channels) \in Nat BY <2>3, LenProperties
  <2> HIDE DEF channels
  <2> QED BY <1>1, <2>3, <2>4, <2>5
<1>3. stamp \in Seq(S) /\ Len(stamp) = 1
  <2>1. "stamp" \in {"slope", "intercept", "stamp"} /\ 0 \in Nat OBVIOUS
  <2>2. <<"stamp", 0>> \in S BY <2>1
  <2> HIDE DEF S
  <2> QED BY <2>2
<1>4. ASSUME NEW ch \in 0..(NCH - 1)
      PROVE  /\ 2 * ch + 1 \in 1..(2 * NCH) /\ 2 * ch + 2 \in 1..(2 * NCH)
             /\ channels[2 * ch + 1] = <<"slope", ch>> /\ channels[2 * ch + 2] = <<"intercept", ch>>
  <2>1. 2 * ch + 1 \in 1..(2 * NCH) /\ 2 * ch + 2 \in 1..(2 * NCH) BY SettingsAssumption
  <2>2. (2 * ch + 1) % 2 = 1 /\ ((2 * ch + 1) - 1) \div 2 = ch BY <1>1
  <2>3. (2 * ch + 2) % 2 = 0 /\ ((2 * ch + 2) - 1) \div 2 = ch BY <1>1
  <2> QED BY <2>1, <2>2, <2>3
<1>5. Order = channels \o stamp BY DEF Order
<1> HIDE DEF channels, stamp, S
<1>6. /\ Order \in Seq(S) /\ Len(Order) = 2 * NCH + 1
      /\ \A i \in 1..(2 * NCH) : Order[i] = channels[i]
  <2>1. /\ Order \in Seq(S) /\ Len(Order) = 2 * NCH + 1
        /\ \A i \in 1..(2 * NCH + 1) : Order[i] =
              IF i <= 2 * NCH THEN channels[i] ELSE stamp[i - 2 * NCH]
    <3>1. /\ channels \o stamp \in Seq(S)
          /\ Len(channels \o stamp) = Len(channels) + Len(stamp)
          /\ \A i \in 1..(Len(channels) + Len(stamp)) : (channels \o stamp)[i] =
               IF i <= Len(channels) THEN channels[i] ELSE stamp[i - Len(channels)]
      BY <1>2, <1>3, ConcatProperties, Zenon
    <3> QED BY <1>2, <1>3, <1>5, <3>1
  <2>2. \A i \in 1..(2 * NCH) : i \in 1..(2 * NCH + 1) /\ i <= 2 * NCH
    BY <1>1
  <2> QED BY <2>1, <2>2
<1>7. DOMAIN Order = 1..Len(Order) /\ Len(Order) \in Nat \ {0} BY <1>1, <1>6, LenProperties
<1>8. \A n \in 1..Len(Order) : Order[n] \in Places BY <1>7 DEF Places
<1>9. Order \in Seq(Places)
  <2>1. Order \in [1..Len(Order) -> Places] BY <1>6, <1>7, <1>8, LenProperties
  <2> QED BY <1>7, <2>1, SeqDef
<1>10. ASSUME NEW ch \in 0..(NCH - 1)
       PROVE  <<"slope", ch>> \in Places /\ <<"intercept", ch>> \in Places
  <2>1. 2 * ch + 1 \in 1..Len(Order) /\ 2 * ch + 2 \in 1..Len(Order) BY <1>1, <1>4, <1>6
  <2>2. Order[2 * ch + 1] = <<"slope", ch>> /\ Order[2 * ch + 2] = <<"intercept", ch>>
    BY <1>4, <1>6
  <2> QED BY <1>8, <2>1, <2>2
<1>11. 0 \in 0..(NCH - 1) BY SettingsAssumption
<1>12. Slope0 \in Places /\ Intercept0 \in Places BY <1>10, <1>11 DEF Slope0, Intercept0
<1> QED BY <1>7, <1>9, <1>10, <1>12 DEF Places

LEMMA DescribedTypes ==
  ASSUME NEW j, Blob(j)
  PROVE  Described(j) \in [Places -> Nat]
<1>1. \A p \in DOMAIN j : j[p] \in Nat BY DEF Blob, None
<1> QED BY <1>1 DEF Described

\* json_to_cal and the defaults write each place, and what they write last is right.
LEMMA LoadSettles ==
  ASSUME NEW j, Blob(j), NEW cal
  PROVE  /\ json_to_cal(j) \in Assignments /\ json_to_cal(j) # << >>
         /\ Settles(json_to_cal(j), cal, Described(j))
<1> DEFINE d == Described(j)
           L == Len(Order)
           second == [n \in DOMAIN Order |-> <<Order[n], d[Order[n]]>>]
<1>1. d \in [Places -> Nat] BY DescribedTypes
<1>2. Order \in [1..L -> Places] /\ L \in Nat \ {0} /\ DOMAIN Order = 1..L BY OrderLists, LenProperties
<1> HIDE DEF d, L
<1>3. apply_defaults \in [1..L -> Places \X Nat] /\ second \in [1..L -> Places \X Nat]
  BY <1>1, <1>2 DEF apply_defaults
<1>4. /\ apply_defaults \in Assignments /\ Len(apply_defaults) = L
      /\ second \in Assignments /\ Len(second) = L
  <2>1. \A f \in [1..L -> Places \X Nat] : f \in Assignments /\ Len(f) = L
    <3> SUFFICES ASSUME NEW f \in [1..L -> Places \X Nat] PROVE f \in Assignments /\ Len(f) = L
      OBVIOUS
    <3>1. f \in Assignments BY <1>2, SeqDef DEF Assignments
    <3>2. DOMAIN f = 1..Len(f) /\ Len(f) \in Nat BY <3>1, LenProperties DEF Assignments
    <3>3. DOMAIN f = 1..L OBVIOUS
    <3> QED BY <1>2, <3>1, <3>2, <3>3
  <2> QED BY <1>3, <2>1
<1>5. json_to_cal(j) = apply_defaults \o second BY DEF json_to_cal, d
<1>6. \A n \in 1..L : second[n] = <<Order[n], d[Order[n]]>> BY <1>2
<1> HIDE DEF second
<1>7. /\ json_to_cal(j) \in Assignments /\ Len(json_to_cal(j)) = 2 * L
      /\ \A i \in 1..L : json_to_cal(j)[L + i] = second[i]
  <2>1. /\ json_to_cal(j) \in Assignments /\ Len(json_to_cal(j)) = L + L
        /\ \A i \in 1..(L + L) : json_to_cal(j)[i] =
              IF i <= L THEN apply_defaults[i] ELSE second[i - L]
    <3> DEFINE S == Places \X Nat
    <3>1. apply_defaults \in Seq(S) /\ second \in Seq(S) BY <1>4 DEF Assignments
    <3>2. Assignments = Seq(S) BY DEF Assignments
    <3> HIDE DEF S
    <3>3. /\ apply_defaults \o second \in Seq(S)
          /\ Len(apply_defaults \o second) = Len(apply_defaults) + Len(second)
          /\ \A i \in 1..(Len(apply_defaults) + Len(second)) : (apply_defaults \o second)[i] =
               IF i <= Len(apply_defaults) THEN apply_defaults[i] ELSE second[i - Len(apply_defaults)]
      BY <3>1, ConcatProperties, Zenon
    <3> QED BY <1>4, <1>5, <3>2, <3>3
  <2>2. ASSUME NEW i \in 1..L PROVE json_to_cal(j)[L + i] = second[i]
    <3>1. L + i \in 1..(L + L) /\ ~(L + i <= L) /\ (L + i) - L = i BY <1>2
    <3> QED BY <2>1, <3>1
  <2> QED BY <1>2, <2>1, <2>2
<1>8. json_to_cal(j) # << >> BY <1>2, <1>7
<1>9. ASSUME NEW p \in Places
      PROVE  \E n \in 0..Len(json_to_cal(j)) :
               /\ n = 0 => cal[p] = d[p]
               /\ n > 0 => json_to_cal(j)[n] = <<p, d[p]>>
               /\ \A m \in 1..Len(json_to_cal(j)) :
                    m > n /\ json_to_cal(j)[m][1] = p => json_to_cal(j)[m][2] = d[p]
  <2>1. PICK k \in 1..L : Order[k] = p BY OrderLists DEF L
  <2>2. json_to_cal(j)[L + k] = <<p, d[p]>> BY <1>6, <1>7, <2>1
  <2>3. L + k \in 0..Len(json_to_cal(j)) /\ L + k > 0 BY <1>2, <1>7
  <2>4. ASSUME NEW m \in 1..Len(json_to_cal(j)), m > L + k, json_to_cal(j)[m][1] = p
        PROVE  json_to_cal(j)[m][2] = d[p]
    <3>1. m - L \in 1..L /\ L + (m - L) = m BY <1>2, <1>7, <2>4
    <3>2. json_to_cal(j)[m] = <<Order[m - L], d[Order[m - L]]>> BY <1>6, <1>7, <3>1
    <3> QED BY <2>4, <3>2
  <2> QED BY <2>2, <2>3, <2>4
<1> QED BY <1>7, <1>8, <1>9 DEF Settles, d

LEMMA DefaultsSettle ==
  ASSUME NEW cal
  PROVE  /\ apply_defaults \in Assignments /\ apply_defaults # << >>
         /\ Settles(apply_defaults, cal, Described(None))
<1> DEFINE L == Len(Order)
<1>1. Order \in [1..L -> Places] /\ L \in Nat \ {0} /\ DOMAIN Order = 1..L BY OrderLists, LenProperties
<1>2. apply_defaults \in [1..L -> Places \X Nat] BY <1>1 DEF apply_defaults
<1>3. apply_defaults \in Assignments BY <1>1, <1>2, SeqDef DEF Assignments
<1>4. Len(apply_defaults) = L
  <2>1. DOMAIN apply_defaults = 1..Len(apply_defaults) /\ Len(apply_defaults) \in Nat
    BY <1>3, LenProperties DEF Assignments
  <2> QED BY <1>1, <1>2, <2>1
<1>5. \A p \in Places : Described(None)[p] = 0 BY DEF Described, None
<1>6. \A n \in 1..L : apply_defaults[n] = <<Order[n], 0>> BY <1>1 DEF apply_defaults
<1>7. ASSUME NEW p \in Places
      PROVE  \E n \in 0..Len(apply_defaults) :
               /\ n = 0 => cal[p] = Described(None)[p]
               /\ n > 0 => apply_defaults[n] = <<p, Described(None)[p]>>
               /\ \A m \in 1..Len(apply_defaults) :
                    m > n /\ apply_defaults[m][1] = p => apply_defaults[m][2] = Described(None)[p]
  <2>1. PICK k \in 1..L : Order[k] = p BY OrderLists
  <2> QED BY <1>1, <1>4, <1>5, <1>6, <2>1
<1> QED BY <1>1, <1>3, <1>4, <1>7 DEF Settles

\* One assignment of them.
LEMMA OneAssigned ==
  ASSUME NEW td \in Assignments, td # << >>, NEW cal \in [Places -> Nat]
  PROVE  /\ Tail(td) \in Assignments /\ Len(td) \in Nat \ {0} /\ Len(Tail(td)) = Len(td) - 1
         /\ \A i \in 1..Len(Tail(td)) : Tail(td)[i] = td[i + 1]
         /\ Len(td) <= 1 => Tail(td) = << >>
         /\ [cal EXCEPT ![td[1][1]] = td[1][2]] \in [Places -> Nat]
         /\ \A p \in Places : [cal EXCEPT ![td[1][1]] = td[1][2]][p] =
                               IF p = td[1][1] THEN td[1][2] ELSE cal[p]
<1>1. /\ Tail(td) \in Assignments /\ Len(td) \in Nat \ {0} /\ Len(Tail(td)) = Len(td) - 1
      /\ \A i \in 1..Len(Tail(td)) : Tail(td)[i] = td[i + 1]
  BY HeadTailProperties, EmptySeq DEF Assignments
<1>2. Len(td) <= 1 => Tail(td) = << >> BY <1>1, EmptySeq DEF Assignments
<1>3. td[1] \in Places \X Nat
  <2>1. 1 \in 1..Len(td) BY <1>1
  <2> QED BY <2>1, ElementOfSeq DEF Assignments
<1> QED BY <1>1, <1>2, <1>3

LEMMA AssignSettles ==
  ASSUME NEW td \in Assignments, td # << >>, NEW cal \in [Places -> Nat],
         NEW c, Settles(td, cal, c)
  PROVE  Settles(Tail(td), [cal EXCEPT ![td[1][1]] = td[1][2]], c)
<1> DEFINE new == [cal EXCEPT ![td[1][1]] = td[1][2]]
<1>1. /\ Tail(td) \in Assignments /\ Len(td) \in Nat \ {0} /\ Len(Tail(td)) = Len(td) - 1
      /\ \A i \in 1..Len(Tail(td)) : Tail(td)[i] = td[i + 1]
      /\ \A p \in Places : new[p] = IF p = td[1][1] THEN td[1][2] ELSE cal[p]
  BY OneAssigned
<1> HIDE DEF new
<1>5. ASSUME NEW p \in Places
      PROVE  \E n \in 0..Len(Tail(td)) :
               /\ n = 0 => new[p] = c[p]
               /\ n > 0 => Tail(td)[n] = <<p, c[p]>>
               /\ \A m \in 1..Len(Tail(td)) : m > n /\ Tail(td)[m][1] = p => Tail(td)[m][2] = c[p]
  <2>1. PICK n \in 0..Len(td) :
          /\ n = 0 => cal[p] = c[p]
          /\ n > 0 => td[n] = <<p, c[p]>>
          /\ \A m \in 1..Len(td) : m > n /\ td[m][1] = p => td[m][2] = c[p]
    BY DEF Settles
  <2>2. \A m \in 1..Len(Tail(td)) : Tail(td)[m] = td[m + 1] /\ m + 1 \in 1..Len(td) BY <1>1
  <2>3. CASE n <= 1
    <3>1. new[p] = c[p]
      <4>1. 1 \in 1..Len(td) BY <1>1
      <4>2. CASE n = 0 BY <1>1, <2>1, <4>1, <4>2
      <4>3. CASE n = 1 BY <1>1, <2>1, <4>3
      <4> QED BY <2>3, <4>2, <4>3
    <3>2. \A m \in 1..Len(Tail(td)) : Tail(td)[m][1] = p => Tail(td)[m][2] = c[p]
      <4> SUFFICES ASSUME NEW m \in 1..Len(Tail(td)), Tail(td)[m][1] = p
                   PROVE  Tail(td)[m][2] = c[p]
        OBVIOUS
      <4>1. m + 1 > n BY <2>3
      <4> QED BY <2>1, <2>2, <4>1
    <3>3. 0 \in 0..Len(Tail(td)) BY <1>1
    <3> WITNESS 0 \in 0..Len(Tail(td))
    <3> QED BY <3>1, <3>2
  <2>4. CASE n > 1
    <3>1. n - 1 \in 1..Len(Tail(td)) /\ (n - 1) + 1 = n BY <1>1, <2>4
    <3>2. Tail(td)[n - 1] = <<p, c[p]>> BY <2>1, <2>2, <2>4, <3>1
    <3>3. \A m \in 1..Len(Tail(td)) : m > n - 1 /\ Tail(td)[m][1] = p => Tail(td)[m][2] = c[p]
      <4> SUFFICES ASSUME NEW m \in 1..Len(Tail(td)), m > n - 1, Tail(td)[m][1] = p
                   PROVE  Tail(td)[m][2] = c[p]
        OBVIOUS
      <4>1. m + 1 > n OBVIOUS
      <4> QED BY <2>1, <2>2, <4>1
    <3>4. n - 1 \in 0..Len(Tail(td)) /\ n - 1 > 0 BY <3>1, <2>4
    <3> DEFINE k == n - 1
    <3>5. /\ k \in 0..Len(Tail(td)) /\ k > 0 /\ Tail(td)[k] = <<p, c[p]>>
          /\ \A m \in 1..Len(Tail(td)) : m > k /\ Tail(td)[m][1] = p => Tail(td)[m][2] = c[p]
      BY <3>2, <3>3, <3>4
    <3> HIDE DEF k
    <3> QED BY <3>5
  <2> QED BY <2>3, <2>4
<1> QED BY <1>5 DEF Settles, new

LEMMA NothingLeft ==
  ASSUME NEW cal \in [Places -> Nat], NEW c \in [Places -> Nat], Settles(<< >>, cal, c)
  PROVE  cal = c
<1>1. \A p \in Places : cal[p] = c[p] BY DEF Settles
<1> QED BY <1>1

-----------------------------------------------------------------------------
(***************************************************************************)
(* The settings' invariant.                                                *)
(***************************************************************************)
Errands == {"idle", "store", "version", "run"}
Calibrating == {"load_cal", "reset_cal", "set_cal", "profile", "close"}
Started == {"cal", "tasks", "ready"}
TestRecord == [pc : {"none", "tree", "slope", "intercept", "uses"},
               cfg : MaybeText \cup {Freed}, slope : Nat, intercept : Nat]

SettingsTypes ==
  /\ s_cal \in [Places -> Nat] /\ todo \in Assignments
  /\ unsaved \in SUBSET {"config", "cal"}
  /\ test \in TestRecord /\ Blob(nvs_cal)

\* What the console can be at, and what it has in hand.
Commanded ==
  /\ main \in {"mount", "config"} \cup Started
  /\ main \in {"mount", "config"} => con.pc = "idle"
  /\ main = "cal" => con.pc \in {"idle", "load_config"}
  /\ main = "tasks" => con.pc \in Calibrating \cup {"idle"}
  /\ job["console"].pc # "idle" => con.pc = "run"
  /\ todo # << >> => con.pc \in {"load_cal", "reset_cal", "set_cal"}
  /\ con.pc = "set_cal" => "cal" \in unsaved
  /\ con.pc \in Calibrating \ {"set_cal"} => "cal" \notin unsaved
  /\ main \in Started /\ con.pc # "load_config" => s_cfg \in Texts
  /\ con.pc = "save_config" => con.text = s_cfg /\ s_mounted

\* The live calibration is the stored one, or will be when the load is done.
CalIsStored ==
  /\ con.pc \in {"load_cal", "reset_cal"} => Settles(todo, s_cal, Described(nvs_cal))
  /\ con.pc = "reset_cal" => nvs_cal = None
  /\ main \in {"tasks", "ready"} /\ "cal" \notin unsaved /\ con.pc \notin {"load_cal", "reset_cal"} =>
       s_cal = Described(nvs_cal)

\* So is the profile, except from a load or a save until it has been written.
ProfileFollows ==
  /\ main # "mount" => s_mounted
  /\ main \in {"tasks", "ready"} /\ con.pc \notin {"load_cal", "profile", "close"} /\ nvs_cal # None =>
       profile = Described(nvs_cal)

ConfigIsStored ==
  main \in Started /\ con.pc \notin {"load_config", "save_config"} /\ "config" \notin unsaved =>
    s_cfg = StoredConfig

\* A test has what is live: nobody changes that under it.
TestIsCurrent ==
  test # NoTest =>
    /\ main = "ready" /\ con.pc \in Errands
    /\ test.cfg = s_cfg
    /\ test.pc \in {"intercept", "uses"} => test.slope = s_cal[Slope0] /\ test.slope # 0
    /\ test.pc = "uses" => test.intercept = s_cal[Intercept0]

-----------------------------------------------------------------------------
(***************************************************************************)
(* What a step of the whole does to the settings.                          *)
(***************************************************************************)
InCommand == main = "ready" /\ con = Idle /\ Quiet /\ main' = main

\* Recipes come and go; without a "device" among them its file stays.
Aside ==
  /\ UNCHANGED <<settingsVars, main, s_mounted>>
  /\ con' = con \/ (con.pc \in Errands /\ con'.pc \in Errands /\ main = "ready")
  /\ job'["console"].pc # "idle" => con'.pc = "run"
  /\ "collide" \notin scenario /\ StoreInv => files'[Device] = files[Device]

Configures ==
  /\ UNCHANGED <<s_mounted, job>>
  /\ \/ ConfigLoad /\ (InCommand \/ (main = "config" /\ main' = "cal"))
     \/ (ConfigSave \/ \E t \in Texts : ConfigSet(t)) /\ InCommand
     \/ (ConfigLoaded \/ ConfigSaved) /\ main' = main

Calibrates ==
  /\ UNCHANGED <<s_mounted, job>>
  /\ \/ CalLoad /\ (InCommand \/ (main = "cal" /\ con = Idle /\ main' = "tasks"))
     \/ (CalSet \/ CalSave) /\ InCommand
     \/ (Assigns \/ WriteProfile \/ ProfileWritten) /\ main' = main

TestMoves ==
  /\ UNCHANGED <<s_mounted, job, main>>
  /\ main = "ready" /\ ("reload" \in scenario \/ con = Idle \/ test # NoTest)
  /\ TestNext

\* The steps of recipes.
LEMMA RecipesAside ==
  ASSUME TypeInv, Commanded, UNCHANGED <<settingsVars, main, s_mounted, scenario>>,
         \/ main = "ready" /\ (Uploads \/ Deletes \/ Selects \/ RunsByHand \/ Tests \/ Loads \/ Finishes)
         \/ Stored \/ SelectVersion
  PROVE  Aside
<1>0. /\ job \in [Runners -> JobRecord] /\ "console" \in Runners /\ "task" # "console"
      /\ con \in CommandRecord /\ Idle.pc = "idle" /\ NoJob.pc = "idle"
      /\ Device \in Keys /\ Device \notin Ids /\ Ids \subseteq Keys
      /\ "collide" \notin scenario => RecipeIds = Ids
      /\ job["console"].pc # "idle" => con.pc = "run"
      /\ files \in [Keys -> File]
  BY IdsAssumption DEF TypeInv, Commanded, Runners, Idle, NoJob, Keys, RecipeIds
<1>1. con.pc \in {"store", "version", "run"} => main = "ready"
  BY DEF Commanded, Started, Calibrating
<1> USE <1>0 DEF Aside, Errands
<1>2. CASE main = "ready" /\ Uploads
  <2>1. PICK k \in RecipeIds, t \in Texts : SetB64(k, t) BY <1>2 DEF Uploads
  <2>2. con = Idle /\ con'.pc \in {"idle", "store"} /\ UNCHANGED job
    BY <2>1 DEF SetB64, BeginWrite, Doing
  <2>3. ASSUME "collide" \notin scenario PROVE files'[Device] = files[Device]
    <3>1. k \in Keys /\ k # Device BY <2>3
    <3>2. UNCHANGED files \/ Opens(k, t) BY <2>1 DEF SetB64, BeginWrite
    <3> QED BY <3>1, <3>2, WriteTypes
  <2> QED BY <1>2, <2>2, <2>3
<1>3. CASE main = "ready" /\ Deletes
  BY <1>3 DEF Deletes, Delete, Storage_Delete, recipeVars
<1>4. CASE main = "ready" /\ Selects
  BY <1>4 DEF Selects, Select, Doing
<1>5. CASE main = "ready" /\ RunsByHand
  <2>1. PICK k \in Ids : RecipeRun(k) BY <1>5 DEF RunsByHand
  <2>2. con = Idle /\ con' = Doing("run", k, NoText) /\ UNCHANGED files
    BY <2>1 DEF RecipeRun, Goes
  <2>3. con'.pc = "run" BY <2>2 DEF Doing
  <2> QED BY <1>5, <2>2, <2>3
<1>6. CASE main = "ready" /\ Tests
  <2>1. UNCHANGED <<files, con>> /\ job'["console"] = job["console"]
    BY <1>6 DEF Tests, StartTest, Goes
  <2> QED BY <2>1
<1>7. CASE main = "ready" /\ Loads
  <2>1. PICK p \in Runners : LoadSize(p) \/ LoadText(p) BY <1>7 DEF Loads
  <2> QED BY <2>1, LoadTypes
<1>8. CASE main = "ready" /\ Finishes
  <2>1. UNCHANGED files BY <1>8, FinishTypes
  <2>2. con' = con \/ (con.pc \in Errands /\ con'.pc \in Errands /\ main = "ready")
    <3>1. CASE \E p \in Runners : Ends(p)
      <4>1. PICK p \in Runners : Ends(p) BY <3>1
      <4>2. CASE p = "console"
        <5>1. job["console"].pc # "idle" BY <4>1, <4>2 DEF Ends
        <5> QED BY <1>8, <4>1, <4>2, <5>1 DEF Ends
      <4>3. CASE p # "console" BY <4>1, <4>3 DEF Ends
      <4> QED BY <4>2, <4>3
    <3>2. CASE ~\E p \in Runners : Ends(p)
      BY <1>8, <3>2 DEF Finishes, Run, RunHardcoded
    <3> QED BY <3>1, <3>2
  <2>3. job'["console"].pc # "idle" => con'.pc = "run"
    <3>1. CASE \E p \in Runners : Run(p)
      BY <3>1 DEF Run, Goes
    <3>2. CASE RunHardcoded
      BY <3>2 DEF RunHardcoded, Hardcoded, Goes
    <3>3. CASE \E p \in Runners : Ends(p)
      <4>1. PICK p \in Runners : Ends(p) BY <3>3
      <4>2. job' = [job EXCEPT ![p] = NoJob] /\ con' = IF p = "console" THEN Idle ELSE con
        BY <4>1 DEF Ends, Goes
      <4>3. CASE p = "console" BY <4>2, <4>3
      <4>4. CASE p # "console" BY <4>2, <4>4
      <4> QED BY <4>3, <4>4
    <3> QED BY <1>8, <3>1, <3>2, <3>3 DEF Finishes
  <2> QED BY <2>1, <2>2, <2>3
<1>9. CASE Stored
  <2>1. con.pc = "store" /\ con' = Idle /\ UNCHANGED job BY <1>9 DEF Stored, recipeVars
  <2>2. ASSUME "collide" \notin scenario, StoreInv PROVE files'[Device] = files[Device]
    <3>1. con.id \in Ids /\ con.text \in Texts BY <2>1, <2>2 DEF StoreInv, WritesOwn, TypeInv
    <3>2. Closes(con.id, con.text) \/ FailsToWrite(con.id, con.text) BY <1>9 DEF Stored, EndWrite
    <3>3. con.id \in Keys /\ Device \in Keys \ {con.id} BY <3>1
    <3> QED BY <3>1, <3>2, <3>3, WriteTypes
  <2> QED BY <1>1, <2>1, <2>2
<1>10. CASE SelectVersion
  BY <1>1, <1>10 DEF SelectVersion
<1> QED BY <1>2, <1>3, <1>4, <1>5, <1>6, <1>7, <1>8, <1>9, <1>10

LEMMA SettingsCases ==
  ASSUME TypeInv, Commanded, [Next]_vars
  PROVE  Aside \/ BootMount \/ BootTasks \/ Configures \/ Calibrates \/ TestMoves \/ PowerFails
<1>1. CASE UNCHANGED vars
  BY <1>1 DEF vars, recipeVars, Aside, Commanded
<1>2. CASE Boot
  <2>1. CASE BootMount BY <2>1
  <2>2. CASE BootConfig BY <2>2 DEF BootConfig, Configures, recipeVars
  <2>3. CASE BootCal BY <2>3 DEF BootCal, Calibrates, recipeVars
  <2>4. CASE BootTasks BY <2>4
  <2> QED BY <1>2, <2>1, <2>2, <2>3, <2>4 DEF Boot
<1>3. CASE Command
  <2>0. main = "ready" /\ UNCHANGED <<s_mounted, main, scenario>> BY <1>3 DEF Command
  <2>1. CASE RecipeCommand
    <3>1. UNCHANGED settingsVars /\ (Uploads \/ Deletes \/ Selects \/ RunsByHand)
      BY <2>1 DEF RecipeCommand, Uploads, Deletes, Selects, RunsByHand
    <3> QED BY <2>0, <3>1, RecipesAside
  <2>2. CASE ConfigCommand
    <3>1. InCommand BY <2>0, <2>2 DEF ConfigCommand, InCommand
    <3>2. UNCHANGED <<s_mounted, job>> BY <2>0, <2>2 DEF ConfigCommand, recipeVars
    <3>3. ConfigLoad \/ ConfigSave \/ \E t \in Texts : ConfigSet(t) BY <2>2 DEF ConfigCommand
    <3>4. Configures BY <3>1, <3>2, <3>3 DEF Configures
    <3> QED BY <3>4
  <2>3. CASE CalCommand
    <3>1. InCommand BY <2>0, <2>3 DEF CalCommand, InCommand
    <3>2. UNCHANGED <<s_mounted, job>> BY <2>0, <2>3 DEF CalCommand, recipeVars
    <3>3. CalLoad \/ CalSet \/ CalSave BY <2>3 DEF CalCommand
    <3>4. Calibrates BY <3>1, <3>2, <3>3 DEF Calibrates
    <3> QED BY <3>4
  <2> QED BY <1>3, <2>1, <2>2, <2>3 DEF Command
<1>4. CASE Proceeds
  <2>0. UNCHANGED <<s_mounted, main, scenario>> BY <1>4 DEF Proceeds
  <2>1. CASE (Stored \/ SelectVersion) /\ UNCHANGED settingsVars
    BY <2>0, <2>1, RecipesAside
  <2>2. CASE (ConfigLoaded \/ ConfigSaved \/ Assigns \/ WriteProfile \/ ProfileWritten)
               /\ UNCHANGED recipeVars
    BY <2>0, <2>2 DEF Configures, Calibrates, recipeVars
  <2> QED BY <1>4, <2>1, <2>2 DEF Proceeds
<1>5. CASE RecipeSteps
  <2>1. /\ main = "ready" /\ UNCHANGED <<s_mounted, scenario, settingsVars, main>>
        /\ Tests \/ Loads \/ Finishes
    BY <1>5 DEF RecipeSteps, Tests, Loads, Finishes
  <2> QED BY <2>1, RecipesAside
<1>6. CASE TestSteps
  BY <1>6 DEF TestSteps, TestMoves, recipeVars
<1> QED BY <1>1, <1>2, <1>3, <1>4, <1>5, <1>6 DEF Next

(***************************************************************************)
(* Steps of the configuration, of a test and of recipes leave the          *)
(* calibration alone, and all but the first leave the configuration alone. *)
(***************************************************************************)
Configuring == {"load_config", "save_config"}

CalAside ==
  /\ UNCHANGED <<s_cal, todo, nvs_cal, profile, s_mounted>>
  /\ "cal" \in unsaved' <=> "cal" \in unsaved
  /\ con' = con \/ (con.pc \notin Calibrating /\ con'.pc \notin Calibrating)
  /\ main' = main \/ main' = "cal"

ConfigAside ==
  /\ UNCHANGED <<s_cfg, s_mounted>>
  /\ "collide" \notin scenario /\ StoreInv => files'[Device] = files[Device]
  /\ "config" \in unsaved' <=> "config" \in unsaved
  /\ con' = con \/ (con.pc \notin Configuring /\ con'.pc \notin Configuring)
  /\ main' = main \/ main \in Started

LEMMA TestOnlyReads ==
  ASSUME TestMoves
  PROVE  /\ UNCHANGED <<con, files, s_cfg, s_cal, todo, nvs_cal, profile, unsaved, s_mounted, job, main>>
<1>1. \E t : Reads(t)
  BY DEF TestMoves, TestNext, TestStarts, TestReadsConfig, TestReadsSlope, TestReadsIntercept, TestEnds
<1> QED BY <1>1 DEF TestMoves, Reads

LEMMA LeaveCalAlone ==
  ASSUME Commanded, Aside \/ Configures \/ TestMoves
  PROVE  CalAside
<1>0. Idle.pc = "idle" BY DEF Idle
<1> USE <1>0 DEF CalAside
<1>1. CASE Aside BY <1>1 DEF Aside, settingsVars, Errands, Calibrating
<1>2. CASE Configures
  <2>0. UNCHANGED s_mounted BY <1>2 DEF Configures
  <2>1. CASE ConfigLoad /\ (InCommand \/ (main = "config" /\ main' = "cal"))
    <3>1. con.pc \notin Calibrating BY <2>1 DEF InCommand, Commanded, Calibrating
    <3>2. con'.pc \notin Calibrating BY <2>1 DEF ConfigLoad, Doing, Calibrating
    <3>3. main' = main \/ main' = "cal" BY <2>1 DEF InCommand
    <3> QED BY <2>0, <2>1, <3>1, <3>2, <3>3 DEF ConfigLoad, cfgKept
  <2>2. CASE ConfigSave /\ InCommand
    <3>1. con = Idle /\ main' = main BY <2>2 DEF InCommand
    <3>2. con'.pc \in {"idle", "save_config"} BY <2>2 DEF ConfigSave, BeginWrite, Doing
    <3>3. con.pc \notin Calibrating /\ con'.pc \notin Calibrating BY <3>1, <3>2 DEF Calibrating
    <3> QED BY <2>0, <2>2, <3>1, <3>3 DEF ConfigSave, cfgKept
  <2>3. CASE (\E t \in Texts : ConfigSet(t)) /\ InCommand
    BY <2>0, <2>3 DEF ConfigSet, cfgKept, InCommand
  <2>4. CASE ConfigLoaded /\ main' = main
    BY <2>0, <2>4 DEF ConfigLoaded, cfgKept, Calibrating
  <2>5. CASE ConfigSaved /\ main' = main
    BY <2>0, <2>5 DEF ConfigSaved, cfgKept, Calibrating
  <2> QED BY <1>2, <2>1, <2>2, <2>3, <2>4, <2>5 DEF Configures
<1>3. CASE TestMoves BY <1>3, TestOnlyReads
<1> QED BY <1>1, <1>2, <1>3

LEMMA LeaveConfigAlone ==
  ASSUME Commanded, Aside \/ Calibrates \/ TestMoves \/ BootTasks
  PROVE  ConfigAside
<1>0. Idle.pc = "idle" BY DEF Idle
<1> USE <1>0 DEF ConfigAside
<1>1. CASE Aside BY <1>1 DEF Aside, settingsVars, Errands, Configuring
<1>2. CASE Calibrates
  <2>0. UNCHANGED s_mounted BY <1>2 DEF Calibrates
  <2>1. CASE CalLoad /\ (InCommand \/ (main = "cal" /\ con = Idle /\ main' = "tasks"))
    <3>1. con = Idle /\ (main' = main \/ main \in Started) BY <2>1 DEF InCommand, Started
    <3>2. con'.pc \in {"load_cal", "reset_cal"} BY <2>1 DEF CalLoad, Doing
    <3>3. con.pc \notin Configuring /\ con'.pc \notin Configuring BY <3>1, <3>2 DEF Configuring
    <3> QED BY <2>0, <2>1, <3>1, <3>3 DEF CalLoad, calKept
  <2>2. CASE CalSet /\ InCommand
    <3>1. con = Idle /\ main' = main BY <2>2 DEF InCommand
    <3>2. con'.pc = "set_cal" BY <2>2 DEF CalSet, Doing
    <3> QED BY <2>0, <2>2, <3>1, <3>2 DEF CalSet, calKept, Configuring
  <2>3. CASE CalSave /\ InCommand
    <3>1. con = Idle /\ main' = main BY <2>3 DEF InCommand
    <3>2. con' = con \/ con'.pc = "profile" BY <2>3 DEF CalSave, Doing
    <3>3. "config" \in unsaved' <=> "config" \in unsaved BY <2>3 DEF CalSave
    <3> QED BY <2>0, <2>3, <3>1, <3>2, <3>3 DEF CalSave, calKept, Configuring
  <2>4. CASE Assigns /\ main' = main
    <3>1. con.pc \notin Configuring BY <2>4 DEF Assigns, Commanded, Configuring
    <3>2. con' = con \/ con'.pc \in {"profile", "idle"} BY <2>4 DEF Assigns, Doing
    <3> QED BY <2>0, <2>4, <3>1, <3>2 DEF Assigns, calKept, Configuring
  <2>5. CASE WriteProfile /\ main' = main
    <3>1. con.pc = "profile" /\ con'.pc \in {"close", "idle"} BY <2>5 DEF WriteProfile, Doing
    <3> QED BY <2>0, <2>5, <3>1 DEF WriteProfile, calKept, Configuring
  <2>6. CASE ProfileWritten /\ main' = main
    BY <2>0, <2>6 DEF ProfileWritten, calKept, Configuring
  <2> QED BY <1>2, <2>1, <2>2, <2>3, <2>4, <2>5, <2>6 DEF Calibrates
<1>3. CASE TestMoves BY <1>3, TestOnlyReads
<1>4. CASE BootTasks BY <1>4 DEF BootTasks, settingsVars, Started
<1> QED BY <1>1, <1>2, <1>3, <1>4

-----------------------------------------------------------------------------
(***************************************************************************)
(* Each part of the invariant through a step.                              *)
(***************************************************************************)
LEMMA SaveTypes ==
  ASSUME NEW cal \in [Places -> Nat]
  PROVE  /\ cal_to_json(cal) = cal /\ Blob(cal) /\ Described(cal) = cal
<1>1. cal_to_json(cal) = cal BY DEF cal_to_json
<1>2. Blob(cal) BY OrderLists DEF Blob
<1>3. Described(cal) = cal BY DEF Described
<1> QED BY <1>1, <1>2, <1>3

LEMMA TypesStep ==
  ASSUME TypeInv, Commanded, SettingsTypes, [Next]_vars
  PROVE  SettingsTypes'
<1>0. NoTest \in TestRecord /\ Blob(None) /\ << >> \in Assignments /\ Zero \in [Places -> Nat]
  BY DEF NoTest, TestRecord, MaybeText, Blob, Assignments, Zero
<1>1. ASSUME UNCHANGED <<s_cal, todo, nvs_cal>>, unsaved' \in SUBSET {"config", "cal"},
             test' \in TestRecord
      PROVE  SettingsTypes'
  BY <1>1 DEF SettingsTypes, Blob
<1>2. CASE Aside \/ BootMount \/ BootTasks
  BY <1>1, <1>2 DEF Aside, BootMount, BootTasks, settingsVars, SettingsTypes
<1>3. CASE PowerFails
  BY <1>0, <1>3 DEF PowerFails, SettingsTypes, Blob
<1>4. CASE Configures
  <2>1. UNCHANGED <<s_cal, todo, nvs_cal>> /\ unsaved' \in SUBSET {"config", "cal"}
    BY <1>4 DEF Configures, ConfigLoad, ConfigSave, ConfigSet, ConfigLoaded, ConfigSaved, cfgKept, SettingsTypes
  <2>2. test' \in TestRecord
    <3>1. test' = test \/ test' = [test EXCEPT !.cfg = Freed]
      BY <1>4 DEF Configures, ConfigLoad, ConfigSave, ConfigSet, ConfigLoaded, ConfigSaved, Frees
    <3> QED BY <3>1 DEF SettingsTypes, TestRecord
  <2> QED BY <1>1, <2>1, <2>2
<1>5. CASE Calibrates
  <2> SUFFICES /\ s_cal' \in [Places -> Nat] /\ todo' \in Assignments
               /\ unsaved' \in SUBSET {"config", "cal"} /\ Blob(nvs_cal')
    <3>1. UNCHANGED test
      BY <1>5 DEF Calibrates, CalLoad, CalSet, CalSave, Assigns, WriteProfile, ProfileWritten
    <3> QED BY <3>1 DEF SettingsTypes, Blob
  <2> USE DEF SettingsTypes
  <2>1. CASE CalLoad
    <3>1. PICK j \in {nvs_cal, None} :
            todo' = IF j = None THEN apply_defaults ELSE json_to_cal(j)
      BY <2>1 DEF CalLoad, nvs_cal_read
    <3>2. Blob(j) BY <1>0, <3>1
    <3>3. todo' \in Assignments BY <3>1, <3>2, LoadSettles, DefaultsSettle
    <3> QED BY <2>1, <3>3 DEF CalLoad
  <2>2. CASE CalSet
    <3>1. ASSUME NEW ch \in 0..(NCH - 1), NEW v \in Slopes,
                 todo' = << <<<<"slope", ch>>, v>>, <<<<"intercept", ch>>, v>> >>
          PROVE  todo' \in Assignments
      <4>1. <<"slope", ch>> \in Places /\ <<"intercept", ch>> \in Places /\ v \in Nat
        BY OrderLists, SettingsAssumption
      <4> DEFINE a == <<<<"slope", ch>>, v>>
                 b == <<<<"intercept", ch>>, v>>
      <4>2. a \in Places \X Nat /\ b \in Places \X Nat BY <4>1
      <4>3. todo' = <<a, b>> BY <3>1
      <4> HIDE DEF a, b
      <4> QED BY <4>2, <4>3 DEF Assignments
    <3>2. todo' \in Assignments BY <2>2, <3>1, DefaultsSettle DEF CalSet
    <3> QED BY <2>2, <3>2 DEF CalSet
  <2>3. CASE CalSave
    <3>1. s_cal' \in [Places -> Nat]
      <4>1. s_cal' = s_cal \/ s_cal' = [s_cal EXCEPT ![<<"stamp", 0>>] = s_cal[<<"stamp", 0>>] + 1]
        BY <2>3 DEF CalSave
      <4> QED BY <4>1
    <3>2. Blob(nvs_cal')
      <4>1. nvs_cal' = cal_to_json(s_cal') \/ nvs_cal' = nvs_cal BY <2>3 DEF CalSave, nvs_cal_write
      <4> QED BY <3>1, <4>1, SaveTypes
    <3> QED BY <2>3, <3>1, <3>2 DEF CalSave
  <2>4. CASE Assigns
    BY <2>4, OneAssigned DEF Assigns
  <2>5. CASE WriteProfile \/ ProfileWritten
    BY <2>5 DEF WriteProfile, ProfileWritten
  <2> QED BY <1>5, <2>1, <2>2, <2>3, <2>4, <2>5 DEF Calibrates
<1>6. CASE TestMoves
  <2>1. test' \in TestRecord
    <3>1. s_cfg \in MaybeText /\ Factory \in MaybeText BY SettingsAssumption DEF TypeInv, MaybeText
    <3>2. test \in TestRecord /\ s_cal[Slope0] \in Nat /\ s_cal[Intercept0] \in Nat
      BY OrderLists DEF SettingsTypes
    <3>3. CASE TestStarts
      BY <1>0, <3>1, <3>3 DEF TestStarts, Reads, TestRecord
    <3>4. CASE TestReadsConfig BY <3>2, <3>4 DEF TestReadsConfig, Reads, TestRecord
    <3>5. CASE TestReadsSlope BY <1>0, <3>2, <3>5 DEF TestReadsSlope, Reads, TestRecord, Slope0
    <3>6. CASE TestReadsIntercept
      BY <3>2, <3>6 DEF TestReadsIntercept, Reads, TestRecord, Slope0, Intercept0
    <3>7. CASE TestEnds BY <1>0, <3>7 DEF TestEnds, Reads
    <3> QED BY <1>6, <3>3, <3>4, <3>5, <3>6, <3>7 DEF TestMoves, TestNext
  <2> QED BY <1>1, <1>6, <2>1, TestOnlyReads DEF SettingsTypes
<1> QED BY <1>2, <1>3, <1>4, <1>5, <1>6, SettingsCases

LEMMA CommandedStep ==
  ASSUME TypeInv, Commanded, SettingsTypes, [Next]_vars
  PROVE  Commanded'
<1>0. Idle.pc = "idle" /\ NoJob.pc = "idle" /\ "console" \in Runners
  BY DEF Idle, NoJob, Runners
<1> USE <1>0 DEF Commanded, Started, Calibrating
<1>1. CASE Aside BY <1>1 DEF Aside, settingsVars, Errands
<1>2. CASE BootMount BY <1>2 DEF BootMount, recipeVars, settingsVars
<1>3. CASE BootTasks BY <1>3 DEF BootTasks, recipeVars, settingsVars
<1>4. CASE PowerFails BY <1>4 DEF PowerFails
<1>5. CASE TestMoves BY <1>5, TestOnlyReads
<1>6. CASE Configures
  <2>0. UNCHANGED <<s_mounted, job>> BY <1>6 DEF Configures
  <2>1. CASE ConfigLoad /\ (InCommand \/ (main = "config" /\ main' = "cal"))
    <3>1. con.pc = "idle" /\ main' \in {"cal", "ready"} BY <2>1 DEF InCommand
    <3>2. con'.pc = "load_config" BY <2>1 DEF ConfigLoad, Doing
    <3>3. UNCHANGED todo BY <2>1 DEF ConfigLoad, cfgKept
    <3> QED BY <2>0, <3>1, <3>2, <3>3
  <2>2. CASE ConfigSave /\ InCommand
    <3>1. con = Idle /\ main' = main /\ main = "ready" BY <2>2 DEF InCommand
    <3>2. UNCHANGED <<todo, s_cfg, unsaved>> BY <2>2 DEF ConfigSave, cfgKept
    <3>3. con'.pc = "idle" \/ (con'.pc = "save_config" /\ con'.text = s_cfg /\ s_mounted)
      BY <2>2 DEF ConfigSave, BeginWrite, Doing
    <3> QED BY <2>0, <3>1, <3>2, <3>3
  <2>3. CASE (\E t \in Texts : ConfigSet(t)) /\ InCommand
    <3>1. con = Idle /\ UNCHANGED <<con, main, todo>> /\ s_cfg' \in Texts /\ main = "ready"
      BY <2>3 DEF InCommand, ConfigSet, cfgKept
    <3> QED BY <2>0, <3>1
  <2>4. CASE ConfigLoaded /\ main' = main
    <3>1. con.pc = "load_config" /\ con' = Idle /\ UNCHANGED todo /\ s_cfg' = StoredConfig
      BY <2>4 DEF ConfigLoaded, cfgKept
    <3>2. StoredConfig \in Texts BY ReadTypes DEF Keys
    <3> QED BY <2>0, <2>4, <3>1, <3>2
  <2>5. CASE ConfigSaved /\ main' = main
    <3>1. con.pc = "save_config" /\ con' = Idle /\ UNCHANGED <<todo, s_cfg>>
      BY <2>5 DEF ConfigSaved, cfgKept
    <3> QED BY <2>0, <2>5, <3>1
  <2> QED BY <1>6, <2>1, <2>2, <2>3, <2>4, <2>5 DEF Configures
<1>7. CASE Calibrates
  <2>0. UNCHANGED <<s_mounted, job, s_cfg>>
    BY <1>7 DEF Calibrates, CalLoad, CalSet, CalSave, Assigns, WriteProfile, ProfileWritten, calKept
  <2>1. CASE CalLoad /\ (InCommand \/ (main = "cal" /\ con = Idle /\ main' = "tasks"))
    <3>1. con = Idle /\ main \in {"cal", "ready"} /\ main' \in {"tasks", "ready"} BY <2>1 DEF InCommand
    <3>2. con'.pc \in {"load_cal", "reset_cal"} /\ "cal" \notin unsaved' BY <2>1 DEF CalLoad, Doing
    <3> QED BY <2>0, <3>1, <3>2
  <2>2. CASE CalSet /\ InCommand
    <3>1. con = Idle /\ main = "ready" /\ main' = main BY <2>2 DEF InCommand
    <3>2. con'.pc = "set_cal" /\ "cal" \in unsaved' BY <2>2 DEF CalSet, Doing
    <3> QED BY <2>0, <3>1, <3>2
  <2>3. CASE CalSave /\ InCommand
    <3>1. con = Idle /\ main = "ready" /\ main' = main BY <2>3 DEF InCommand
    <3>2. /\ UNCHANGED todo
          /\ con' = con \/ (con'.pc = "profile" /\ "cal" \notin unsaved')
      BY <2>3 DEF CalSave, Doing
    <3> QED BY <2>0, <3>1, <3>2
  <2>4. CASE Assigns /\ main' = main
    <3>1. /\ con.pc \in {"load_cal", "reset_cal", "set_cal"} /\ UNCHANGED unsaved
          /\ \/ con' = con
             \/ /\ todo' = << >>
                /\ con'.pc = "idle" \/ (con.pc = "load_cal" /\ con'.pc = "profile")
      BY <2>4, OneAssigned DEF Assigns, Doing, SettingsTypes
    <3> QED BY <2>0, <2>4, <3>1
  <2>5. CASE WriteProfile /\ main' = main
    <3>1. con.pc = "profile" /\ con'.pc \in {"close", "idle"} /\ UNCHANGED <<todo, unsaved>>
      BY <2>5 DEF WriteProfile, Doing
    <3> QED BY <2>0, <2>5, <3>1
  <2>6. CASE ProfileWritten /\ main' = main
    <3>1. con.pc = "close" /\ con' = Idle /\ UNCHANGED <<todo, unsaved>>
      BY <2>6 DEF ProfileWritten
    <3> QED BY <2>0, <2>6, <3>1
  <2> QED BY <1>7, <2>1, <2>2, <2>3, <2>4, <2>5, <2>6 DEF Calibrates
<1> QED BY <1>1, <1>2, <1>3, <1>4, <1>5, <1>6, <1>7, SettingsCases

\* tc_cal_load reads all of the blob, and tc_cal_save stores what is live.
LEMMA CalStep ==
  ASSUME TypeInv, Commanded, SettingsTypes, CalIsStored, "nvs" \notin scenario, [Next]_vars
  PROVE  CalIsStored'
<1>0. Idle.pc = "idle" BY DEF Idle
<1> USE <1>0 DEF CalIsStored
<1>1. CASE Aside \/ Configures \/ TestMoves
  <2>1. CalAside BY <1>1, LeaveCalAlone
  <2>2. CASE con' = con BY <2>1, <2>2 DEF CalAside
  <2>3. CASE con.pc \notin Calibrating /\ con'.pc \notin Calibrating
    BY <2>1, <2>3 DEF CalAside, Calibrating
  <2> QED BY <2>1, <2>2, <2>3 DEF CalAside
<1>2. CASE BootMount BY <1>2 DEF BootMount, settingsVars, Commanded
<1>3. CASE BootTasks BY <1>3 DEF BootTasks, settingsVars
<1>4. CASE PowerFails BY <1>4 DEF PowerFails
<1>5. CASE Calibrates
  <2>1. CASE CalLoad
    <3>1. /\ todo' = IF nvs_cal = None THEN apply_defaults ELSE json_to_cal(nvs_cal)
          /\ con'.pc = IF nvs_cal = None THEN "reset_cal" ELSE "load_cal"
          /\ UNCHANGED <<s_cal, nvs_cal>>
      BY <2>1 DEF CalLoad, nvs_cal_read, Doing
    <3>2. Settles(todo', s_cal', Described(nvs_cal'))
      <4>1. CASE nvs_cal = None BY <3>1, <4>1, DefaultsSettle
      <4>2. CASE nvs_cal # None BY <3>1, <4>2, LoadSettles DEF SettingsTypes
      <4> QED BY <4>1, <4>2
    <3> QED BY <3>1, <3>2
  <2>2. CASE CalSet
    <3>1. con'.pc = "set_cal" /\ "cal" \in unsaved' BY <2>2 DEF CalSet, Doing
    <3> QED BY <3>1
  <2>3. CASE CalSave
    <3>1. s_cal' \in [Places -> Nat] BY TypesStep DEF SettingsTypes
    <3>2. nvs_cal' = cal_to_json(s_cal') /\ con'.pc = "profile"
      BY <2>3 DEF CalSave, nvs_cal_write, Doing
    <3>3. s_cal' = Described(nvs_cal') BY <3>1, <3>2, SaveTypes
    <3> QED BY <3>2, <3>3
  <2>4. CASE Assigns /\ main' = main
    <3>1. /\ con.pc \in {"load_cal", "reset_cal", "set_cal"}
          /\ UNCHANGED <<nvs_cal, unsaved>> /\ todo' = Tail(todo)
          /\ s_cal' = [s_cal EXCEPT ![todo[1][1]] = todo[1][2]]
          /\ todo # << >> /\ todo \in Assignments /\ s_cal \in [Places -> Nat]
      BY <2>4 DEF Assigns, Commanded, SettingsTypes
    <3>2. CASE con.pc = "set_cal"
      <4>1. "cal" \in unsaved' BY <3>1, <3>2 DEF Commanded
      <4>2. con' = con \/ con' = Idle BY <2>4, <3>2 DEF Assigns
      <4> QED BY <3>2, <4>1, <4>2
    <3>3. CASE con.pc \in {"load_cal", "reset_cal"}
      <4>1. Settles(todo', s_cal', Described(nvs_cal')) BY <3>1, <3>3, AssignSettles
      <4>2. CASE con' = con BY <3>1, <3>3, <4>1, <4>2
      <4>3. CASE con' # con
        <5>1. todo' = << >> BY <2>4, <3>1, <4>3, OneAssigned DEF Assigns
        <5>2. s_cal' \in [Places -> Nat] /\ Described(nvs_cal') \in [Places -> Nat]
          BY <3>1, OneAssigned, DescribedTypes DEF SettingsTypes
        <5>3. s_cal' = Described(nvs_cal') BY <4>1, <5>1, <5>2, NothingLeft
        <5>4. con'.pc \in {"profile", "idle"} BY <2>4, <4>3 DEF Assigns, Doing
        <5> QED BY <5>3, <5>4
      <4> QED BY <4>2, <4>3
    <3> QED BY <3>1, <3>2, <3>3
  <2>5. CASE WriteProfile /\ main' = main
    <3>1. con.pc = "profile" /\ con'.pc \in {"close", "idle"} /\ UNCHANGED <<s_cal, nvs_cal, unsaved>>
      BY <2>5 DEF WriteProfile, Doing
    <3> QED BY <2>5, <3>1
  <2>6. CASE ProfileWritten /\ main' = main
    BY <2>6 DEF ProfileWritten
  <2> QED BY <1>5, <2>1, <2>2, <2>3, <2>4, <2>5, <2>6 DEF Calibrates
<1> QED BY <1>1, <1>2, <1>3, <1>4, <1>5, SettingsCases

\* A load of a stored calibration and a save both end with the profile.
LEMMA ProfileStep ==
  ASSUME TypeInv, Commanded, SettingsTypes, CalIsStored, ProfileFollows,
         Without({"full", "format", "nvs"}), [Next]_vars
  PROVE  ProfileFollows'
<1>0. /\ Idle.pc = "idle"
      /\ "full" \notin scenario /\ "format" \notin scenario /\ "nvs" \notin scenario
  BY DEF Idle, Without
<1> USE <1>0 DEF ProfileFollows
<1>1. CASE Aside \/ Configures \/ TestMoves
  <2>1. CalAside BY <1>1, LeaveCalAlone
  <2>2. main' # "mount" => main # "mount" BY <1>1
    DEF Aside, Configures, InCommand, TestMoves
  <2>3. CASE con' = con BY <2>1, <2>2, <2>3 DEF CalAside
  <2>4. CASE con.pc \notin Calibrating /\ con'.pc \notin Calibrating
    BY <2>1, <2>2, <2>4 DEF CalAside, Calibrating
  <2> QED BY <2>1, <2>3, <2>4 DEF CalAside
<1>2. CASE BootMount BY <1>2 DEF BootMount, Storage_Init
<1>3. CASE BootTasks BY <1>3 DEF BootTasks, settingsVars
<1>4. CASE PowerFails BY <1>4 DEF PowerFails
<1>5. CASE Calibrates
  <2>0. main # "mount" /\ UNCHANGED s_mounted
    <3>1. UNCHANGED s_mounted BY <1>5 DEF Calibrates
    <3>2. con.pc \in Calibrating => main # "mount" BY DEF Commanded, Calibrating
    <3>3. CASE InCommand \/ main = "cal" BY <3>1, <3>3 DEF InCommand
    <3>4. CASE Assigns \/ WriteProfile \/ ProfileWritten
      BY <3>1, <3>2, <3>4 DEF Assigns, WriteProfile, ProfileWritten, Commanded, Calibrating
    <3> QED BY <1>5, <3>3, <3>4 DEF Calibrates
  <2>1. CASE CalLoad
    BY <2>0, <2>1 DEF CalLoad, nvs_cal_read, Doing
  <2>2. CASE CalSet /\ InCommand
    BY <2>0, <2>2 DEF CalSet, InCommand
  <2>3. CASE CalSave
    BY <2>0, <2>3 DEF CalSave, nvs_cal_write, Doing
  <2>4. CASE Assigns /\ main' = main
    <3>1. /\ con.pc \in {"load_cal", "reset_cal", "set_cal"} /\ UNCHANGED <<nvs_cal, profile>>
          /\ con' = con \/ con.pc # "load_cal" \/ con'.pc = "profile"
      BY <2>4 DEF Assigns, Commanded, Doing
    <3>2. con.pc = "reset_cal" => nvs_cal = None BY DEF CalIsStored
    <3> QED BY <2>0, <2>4, <3>1, <3>2
  <2>5. CASE WriteProfile /\ main' = main
    BY <2>0, <2>5 DEF WriteProfile, Doing
  <2>6. CASE ProfileWritten /\ main' = main
    <3>1. con.pc = "close" /\ profile' = s_cal /\ UNCHANGED nvs_cal BY <2>6 DEF ProfileWritten
    <3>2. main \in {"tasks", "ready"} /\ "cal" \notin unsaved BY <3>1 DEF Commanded, Calibrating, Started
    <3>3. s_cal = Described(nvs_cal) BY <3>1, <3>2 DEF CalIsStored
    <3> QED BY <2>0, <2>6, <3>1, <3>3
  <2> QED BY <1>5, <2>1, <2>2, <2>3, <2>4, <2>5, <2>6 DEF Calibrates
<1> QED BY <1>1, <1>2, <1>3, <1>4, <1>5, SettingsCases

\* What tc_config_save has written is what tc_config_load will read.
LEMMA ConfigStoredStep ==
  ASSUME TypeInv, StoreInv, Commanded, ConfigIsStored,
         "full" \notin scenario, "collide" \notin scenario, [Next]_vars
  PROVE  ConfigIsStored'
<1>0. Idle.pc = "idle" BY DEF Idle
<1> USE <1>0 DEF ConfigIsStored
<1>1. CASE Aside \/ Calibrates \/ TestMoves \/ BootTasks
  <2>1. ConfigAside BY <1>1, LeaveConfigAlone
  <2>2. StoredConfig' = StoredConfig
    BY <2>1 DEF ConfigAside, StoredConfig, Storage_GetSize, Storage_Read, ParseConfig, IsWhole
  <2>3. main' \in Started => main \in Started BY <2>1 DEF ConfigAside
  <2>4. CASE con' = con BY <2>1, <2>2, <2>3, <2>4 DEF ConfigAside
  <2>5. CASE con.pc \notin Configuring /\ con'.pc \notin Configuring
    BY <2>1, <2>2, <2>3, <2>5 DEF ConfigAside, Configuring
  <2> QED BY <2>1, <2>4, <2>5 DEF ConfigAside
<1>2. CASE BootMount BY <1>2 DEF BootMount, Started
<1>3. CASE PowerFails BY <1>3 DEF PowerFails, Started
<1>4. CASE Configures
  <2>0. UNCHANGED s_mounted BY <1>4 DEF Configures
  <2>1. CASE ConfigLoad
    BY <2>1 DEF ConfigLoad, Doing
  <2>2. CASE ConfigSave /\ InCommand
    <3>1. CASE s_mounted BY <2>2, <3>1 DEF ConfigSave, BeginWrite, Doing
    <3>2. CASE ~s_mounted
      <4>1. UNCHANGED <<files, s_cfg, unsaved, main>> /\ con = Idle /\ con' = Idle
        BY <2>2, <3>2 DEF ConfigSave, BeginWrite, InCommand
      <4>2. StoredConfig' = StoredConfig
        BY <2>0, <4>1 DEF StoredConfig, Storage_GetSize, Storage_Read, ParseConfig, IsWhole
      <4> QED BY <4>1, <4>2
    <3> QED BY <3>1, <3>2
  <2>3. CASE \E t \in Texts : ConfigSet(t)
    <3>1. "config" \in unsaved' BY <2>3 DEF ConfigSet
    <3> QED BY <3>1
  <2>4. CASE ConfigLoaded
    <3>1. UNCHANGED files /\ s_cfg' = StoredConfig BY <2>4 DEF ConfigLoaded
    <3>2. StoredConfig' = StoredConfig
      BY <2>0, <3>1 DEF StoredConfig, Storage_GetSize, Storage_Read, ParseConfig, IsWhole
    <3> QED BY <3>1, <3>2
  <2>5. CASE ConfigSaved
    <3>1. con.id = Device /\ con.text \in Texts /\ con.text = s_cfg /\ s_mounted /\ Device \in Keys
      BY <2>5 DEF ConfigSaved, StoreInv, WritesOwn, TypeInv, Commanded, Keys
    <3>2. files'[Device] = Whole(s_cfg) /\ s_cfg' = s_cfg /\ s_mounted'
      BY <2>0, <2>5, <3>1 DEF ConfigSaved, EndWrite, FailsToWrite, Closes, TypeInv
    <3>3. Length[s_cfg] \in Nat \ {0} BY <3>1, TextsAssumption
    <3>4. Storage_Read(Device, Storage_GetSize(Device))' = Whole(s_cfg)
      BY <3>2, <3>3 DEF Storage_GetSize, Storage_Read, Whole
    <3>5. StoredConfig' = s_cfg
      BY <3>1, <3>4 DEF StoredConfig, ParseConfig, IsWhole, Whole
    <3> QED BY <3>2, <3>5
  <2> QED BY <1>4, <2>1, <2>2, <2>3, <2>4, <2>5 DEF Configures
<1> QED BY <1>1, <1>2, <1>3, <1>4, SettingsCases

\* The console leaves the settings alone from the first step of a test to its last.
LEMMA TestStep ==
  ASSUME TypeInv, Commanded, SettingsTypes, TestIsCurrent, "reload" \notin scenario, [Next]_vars
  PROVE  TestIsCurrent'
<1>0. Idle.pc = "idle" /\ "idle" \in Errands BY DEF Idle, Errands
<1>1. ASSUME test' = NoTest PROVE TestIsCurrent'
  BY <1>1 DEF TestIsCurrent
<1>2. CASE Aside BY <1>2 DEF Aside, settingsVars, TestIsCurrent
<1>3. CASE BootMount \/ BootTasks
  <2>1. main # "ready" /\ test' = test BY <1>3 DEF BootMount, BootTasks, settingsVars
  <2> QED BY <1>1, <2>1 DEF TestIsCurrent
<1>4. CASE PowerFails BY <1>1, <1>4 DEF PowerFails
<1>5. CASE Configures
  <2>1. test = NoTest
    <3>1. CASE InCommand BY <3>1 DEF InCommand, Quiet
    <3>2. CASE main = "config" BY <3>2 DEF TestIsCurrent
    <3>3. CASE ConfigLoaded \/ ConfigSaved
      <4>1. con.pc \notin Errands BY <3>3 DEF ConfigLoaded, ConfigSaved, Errands
      <4> QED BY <4>1 DEF TestIsCurrent
    <3> QED BY <1>5, <3>1, <3>2, <3>3 DEF Configures
  <2>2. test' = test
    <3>1. NoTest.pc = "none" BY DEF NoTest
    <3> QED BY <1>5, <2>1, <3>1
      DEF Configures, ConfigLoad, ConfigSave, ConfigSet, ConfigLoaded, ConfigSaved, Frees
  <2> QED BY <1>1, <2>1, <2>2
<1>6. CASE Calibrates
  <2>1. test = NoTest
    <3>1. CASE InCommand BY <3>1 DEF InCommand, Quiet
    <3>2. CASE main = "cal" BY <3>2 DEF TestIsCurrent
    <3>3. CASE Assigns \/ WriteProfile \/ ProfileWritten
      <4>1. con.pc \notin Errands
        BY <3>3 DEF Assigns, WriteProfile, ProfileWritten, Commanded, Errands
      <4> QED BY <4>1 DEF TestIsCurrent
    <3> QED BY <1>6, <3>1, <3>2, <3>3 DEF Calibrates
  <2>2. test' = test
    BY <1>6 DEF Calibrates, CalLoad, CalSet, CalSave, Assigns, WriteProfile, ProfileWritten
  <2> QED BY <1>1, <2>1, <2>2
<1>7. CASE TestMoves
  <2>1. UNCHANGED <<con, s_cfg, s_cal, main>> /\ main = "ready" BY <1>7, TestOnlyReads DEF TestMoves
  <2>2. test = NoTest => con = Idle BY <1>7 DEF TestMoves
  <2>3. con.pc \in Errands BY <1>0, <2>2 DEF TestIsCurrent
  <2>4. test \in TestRecord /\ NoTest.pc = "none" /\ NoTest \in TestRecord
    BY DEF SettingsTypes, NoTest, TestRecord, MaybeText
  <2>5. CASE TestStarts
    <3>1. s_cfg \in Texts
      BY <1>0, <2>1, <2>2, <2>5 DEF TestStarts, Commanded, Started
    <3>2. test' = [NoTest EXCEPT !.pc = "tree", !.cfg = s_cfg]
      BY <2>5, <3>1, TextsAssumption DEF TestStarts, Reads
    <3>3. test'.cfg = s_cfg /\ test'.pc = "tree" BY <2>4, <3>2 DEF TestRecord
    <3> QED BY <2>1, <2>3, <3>3 DEF TestIsCurrent
  <2>6. CASE TestReadsConfig
    <3>1. test.pc = "tree" /\ test' = [test EXCEPT !.pc = "slope"] BY <2>6 DEF TestReadsConfig, Reads
    <3>2. test'.cfg = test.cfg /\ test'.pc = "slope" BY <2>4, <3>1 DEF TestRecord
    <3> QED BY <2>1, <2>3, <2>4, <3>1, <3>2 DEF TestIsCurrent
  <2>7. CASE TestReadsSlope /\ s_cal[Slope0] # 0
    <3>1. test.pc = "slope" /\ test' = [test EXCEPT !.pc = "intercept", !.slope = s_cal[Slope0]]
      BY <2>7 DEF TestReadsSlope, Reads, Slope0
    <3>2. test'.cfg = test.cfg /\ test'.pc = "intercept" /\ test'.slope = s_cal[Slope0]
      BY <2>4, <3>1 DEF TestRecord
    <3> QED BY <2>1, <2>3, <2>4, <2>7, <3>1, <3>2 DEF TestIsCurrent
  <2>8. CASE TestReadsIntercept
    <3>1. test.pc = "intercept" /\ test.slope = s_cal[Slope0] /\ test.slope # 0 /\ test.cfg = s_cfg
      BY <2>4, <2>8 DEF TestReadsIntercept, TestIsCurrent
    <3>2. test' = [test EXCEPT !.pc = "uses", !.slope = s_cal[Slope0], !.intercept = s_cal[Intercept0]]
      BY <2>8, <3>1 DEF TestReadsIntercept, Reads, Slope0, Intercept0
    <3>3. /\ test'.cfg = test.cfg /\ test'.slope = s_cal[Slope0]
          /\ test'.intercept = s_cal[Intercept0]
      BY <2>4, <3>2 DEF TestRecord
    <3> QED BY <2>1, <2>3, <3>1, <3>3 DEF TestIsCurrent
  <2>9. CASE TestEnds \/ (TestReadsSlope /\ s_cal[Slope0] = 0)
    BY <1>1, <2>9 DEF TestEnds, TestReadsSlope, Reads, Slope0
  <2> QED BY <1>7, <2>5, <2>6, <2>7, <2>8, <2>9 DEF TestMoves, TestNext
<1> QED BY <1>2, <1>3, <1>4, <1>5, <1>6, <1>7, SettingsCases

-----------------------------------------------------------------------------
SettingsInv ==
  /\ PersistInv /\ Commanded /\ SettingsTypes
  /\ "nvs" \notin scenario => CalIsStored
  /\ Without({"full", "format", "nvs"}) => ProfileFollows
  /\ Without({"full", "collide"}) => ConfigIsStored
  /\ "reload" \notin scenario => TestIsCurrent

LEMMA InitSettings == Init => SettingsInv
<1> SUFFICES ASSUME Init PROVE SettingsInv
  OBVIOUS
<1>1. Commanded
  BY DEF Init, RecipeInit, SettingsInit, Commanded, Started, Calibrating, Idle, NoJob, Runners
<1>2. SettingsTypes
  <2>1. Blob(nvs_cal)
    <3>1. CASE nvs_cal = None BY <3>1 DEF Blob
    <3>2. ASSUME NEW v \in Slopes, nvs_cal = [p \in {Slope0, Intercept0} |-> v]
          PROVE  Blob(nvs_cal)
      BY <3>2, SettingsAssumption DEF Blob
    <3> QED BY <3>1, <3>2 DEF Init, SettingsInit, Slope0, Intercept0
  <2> QED BY <2>1 DEF Init, SettingsInit, SettingsTypes, Zero, Assignments, NoTest, TestRecord, MaybeText
<1>3. CalIsStored /\ ProfileFollows /\ ConfigIsStored /\ TestIsCurrent
  BY DEF Init, SettingsInit, CalIsStored, ProfileFollows, ConfigIsStored, TestIsCurrent, Started, Idle
<1> QED BY <1>1, <1>2, <1>3, InitPersist DEF SettingsInv

LEMMA NextSettings == SettingsInv /\ [Next]_vars => SettingsInv'
<1> SUFFICES ASSUME SettingsInv, [Next]_vars PROVE SettingsInv'
  OBVIOUS
<1> USE DEF SettingsInv
<1>1. TypeInv /\ PersistInv' /\ scenario' = scenario
  BY NextPersist, ScenarioStays DEF PersistInv
<1>2. Commanded' /\ SettingsTypes'
  BY <1>1, CommandedStep, TypesStep
<1>3. ASSUME "nvs" \notin scenario PROVE CalIsStored'
  BY <1>1, <1>3, CalStep
<1>4. ASSUME Without({"full", "format", "nvs"}) PROVE ProfileFollows'
  <2>1. "nvs" \notin scenario BY <1>4 DEF Without
  <2> QED BY <1>1, <1>4, <2>1, ProfileStep
<1>5. ASSUME Without({"full", "collide"}) PROVE ConfigIsStored'
  <2>1. "full" \notin scenario /\ "collide" \notin scenario BY <1>5 DEF Without
  <2>2. StoreInv BY <2>1 DEF PersistInv
  <2> QED BY <1>1, <1>5, <2>1, <2>2, ConfigStoredStep
<1>6. ASSUME "reload" \notin scenario PROVE TestIsCurrent'
  BY <1>1, <1>6, TestStep
<1>7. Without({"full", "format", "nvs"})' = Without({"full", "format", "nvs"})
      /\ Without({"full", "collide"})' = Without({"full", "collide"})
  BY <1>1 DEF Without
<1> QED BY <1>1, <1>2, <1>3, <1>4, <1>5, <1>6, <1>7

(***************************************************************************)
(* tc_cal_save and tc_cal_load, for any number of channels: whenever the   *)
(* console is done with a command, cal-profile.json is the calibration     *)
(* that is stored, also when the power has failed between the two writes.  *)
(***************************************************************************)
THEOREM ProfileFollowsStore == Spec => []ProfileIsStored
<1>1. SettingsInv => ProfileIsStored
  BY DEF SettingsInv, ProfileFollows, ProfileIsStored, Idle
<1> QED BY <1>1, InitSettings, NextSettings, PTL DEF Spec

(***************************************************************************)
(* app_main, tc_config_load and json_to_cal, for any settings: a test has  *)
(* the stored limits, slope and intercept, unless others have been set.    *)
(***************************************************************************)
THEOREM TestsUseTheStore == Spec => []TestUsesStored
<1>1. SettingsInv => TestUsesStored
  <2> SUFFICES ASSUME SettingsInv, Without({"full", "nvs", "collide", "reload"}), test.pc = "uses"
               PROVE  /\ "config" \notin unsaved => test.cfg = StoredConfig
                      /\ "cal" \notin unsaved =>
                           test.slope = nvs_cal[Slope0] /\ test.intercept = nvs_cal[Intercept0]
    BY DEF TestUsesStored, Slope0, Intercept0
  <2>1. /\ "nvs" \notin scenario /\ "reload" \notin scenario
        /\ Without({"full", "collide"})
    BY DEF Without
  <2>2. /\ main = "ready" /\ con.pc \in Errands
        /\ test.cfg = s_cfg /\ test.slope = s_cal[Slope0] /\ test.slope # 0
        /\ test.intercept = s_cal[Intercept0]
    BY <2>1 DEF SettingsInv, TestIsCurrent, NoTest
  <2>3. "config" \notin unsaved => s_cfg = StoredConfig
    BY <2>1, <2>2 DEF SettingsInv, ConfigIsStored, Started, Errands
  <2>4. ASSUME "cal" \notin unsaved
        PROVE  test.slope = nvs_cal[Slope0] /\ test.intercept = nvs_cal[Intercept0]
    <3>1. s_cal = Described(nvs_cal)
      BY <2>1, <2>2, <2>4 DEF SettingsInv, CalIsStored, Errands
    <3>2. Slope0 \in Places /\ Intercept0 \in Places BY OrderLists
    <3>3. Slope0 \in DOMAIN nvs_cal BY <2>2, <3>1, <3>2 DEF Described
    <3>4. Intercept0 \in DOMAIN nvs_cal BY <3>3 DEF SettingsInv, SettingsTypes, Blob, None
    <3> QED BY <2>2, <3>1, <3>2, <3>3, <3>4 DEF Described
  <2> QED BY <2>2, <2>3, <2>4
<1> QED BY <1>1, InitSettings, NextSettings, PTL DEF Spec
=============================================================================
