---------------------------- MODULE RecipeStore ----------------------------
(***************************************************************************)
(* Recipes in storage: the "recipe" console command of                     *)
(* src/src/recipe_json.c, and the two that load a recipe and run it, the   *)
(* recipe task of recipe_task.c and "recipe run" of the console.  Nothing  *)
(* keeps one of them from loading while the console writes.                *)
(*                                                                         *)
(* A text is parsed when it is whole: a JSON object that has been cut does *)
(* not end.  What a recipe does is RecipeEngine.                           *)
(***************************************************************************)
EXTENDS Storage

CONSTANTS NoId    \* an empty recipe id

ASSUME NoIdAssumption == NoId \notin Ids \cup {Device}

VARIABLES
  active, active_ver,  \* NVS "recipes": the active recipe and its version
  job,                 \* for each runner: its step, recipe id, size and text
  uploaded             \* history: for each id the texts it was uploaded with

recipeVars == <<active, active_ver, job, uploaded>>

Runners == {"task", "console"}
NoJob == [pc |-> "idle", id |-> NoId, size |-> 0, text |-> Absent]

RecipeIds == IF "collide" \in scenario THEN Keys ELSE Ids

RecipeInit ==
  /\ active = NoId /\ active_ver = NoText
  /\ job = [p \in Runners |-> NoJob]
  /\ uploaded = [k \in Keys |-> {}]

-----------------------------------------------------------------------------
(***************************************************************************)
(* recipe set-b64, delete, select.                                         *)
(***************************************************************************)
\* The text has been decoded and parsed: only JSON is stored.
SetB64(k, t) ==
  /\ con = Idle
  /\ BeginWrite("store", k, t)
  /\ uploaded' = [uploaded EXCEPT ![k] = @ \cup {t}]
  /\ UNCHANGED <<active, active_ver, job>>

Stored ==
  /\ con.pc = "store" /\ EndWrite
  /\ con' = Idle
  /\ UNCHANGED recipeVars

\* The active recipe may be deleted.
Delete(k) ==
  /\ con = Idle /\ Storage_Delete(k)
  /\ UNCHANGED <<con, recipeVars>>

Select(k) ==
  /\ con = Idle /\ Storage_GetSize(k) > 0
  /\ active' = k
  /\ con' = Doing("version", k, NoText)
  /\ UNCHANGED <<files, active_ver, job, uploaded>>

\* "recipeVersion" is looked for in what can be read; without it the old
\* version stays.
SelectVersion ==
  /\ con.pc = "version"
  /\ LET c == Storage_Read(con.id, Storage_GetSize(con.id)) IN
       \/ c # Absent /\ active_ver' = c.text
       \/ ~IsWhole(c) /\ UNCHANGED active_ver
  /\ con' = Idle
  /\ UNCHANGED <<files, active, job, uploaded>>

-----------------------------------------------------------------------------
(***************************************************************************)
(* Load and run: recipe_run_task, and recipe run.                          *)
(***************************************************************************)
Goes(p, j) ==
  /\ job' = [job EXCEPT ![p] = j]
  /\ UNCHANGED <<files, active, active_ver, uploaded>>

\* tc_sm_spawn_recipe_task; an empty id stands for the active recipe.
StartTest(k) ==
  /\ job["task"] = NoJob
  /\ LET id == IF k = NoId THEN active ELSE k IN
       id # NoId /\ Goes("task", [NoJob EXCEPT !.pc = "size", !.id = id])
  /\ UNCHANGED con

RecipeRun(k) ==
  /\ con = Idle
  /\ con' = Doing("run", k, NoText)
  /\ Goes("console", [NoJob EXCEPT !.pc = "size", !.id = k])

\* recipe_json_load_nvs: the size, and then at most so many bytes.
LoadSize(p) ==
  /\ job[p].pc = "size"
  /\ Goes(p, [job[p] EXCEPT !.pc = "read", !.size = Storage_GetSize(job[p].id)])
  /\ UNCHANGED con

LoadText(p) ==
  /\ job[p].pc = "read"
  /\ Goes(p, [job[p] EXCEPT !.pc = "parse", !.text = Storage_Read(job[p].id, job[p].size)])
  /\ UNCHANGED con

\* Mutation: a text that has been cut is taken for a recipe.
ParsesCut(c) == c # Absent
\* recipe_json_parse: JSON that ends.
Parses(c) == IsWhole(c)

Run(p) ==
  /\ job[p].pc = "parse" /\ Parses(job[p].text)
  /\ Goes(p, [job[p] EXCEPT !.pc = "running"])
  /\ UNCHANGED con

\* "recipe_not_found"; the console runs its own recipe instead when it has
\* read nothing.
Hardcoded == job["console"].pc = "parse" /\ job["console"].text = Absent

RunHardcoded ==
  /\ Hardcoded
  /\ Goes("console", [job["console"] EXCEPT !.pc = "own"])
  /\ UNCHANGED con

Ends(p) ==
  /\ \/ job[p].pc \in {"running", "own"}
     \/ job[p].pc = "parse" /\ ~Parses(job[p].text) /\ ~(p = "console" /\ Hardcoded)
  /\ Goes(p, NoJob)
  /\ con' = IF p = "console" THEN Idle ELSE con

-----------------------------------------------------------------------------
(***************************************************************************)
(* recipe_json_load_nvs reads the size and the text one after the other,   *)
(* while the console may store another text under the id, a write may fail *)
(* and the power may fail in it: a recipe that runs is one of the texts    *)
(* that were uploaded as that recipe, and all of it.  (Not if the          *)
(* configuration was saved over it: "device" is a key of the same          *)
(* directory.)                                                             *)
(***************************************************************************)
RunsWhole ==
  "collide" \notin scenario =>
    \A p \in Runners : job[p].pc = "running" =>
      IsWhole(job[p].text) /\ job[p].text.text \in uploaded[job[p].id]
=============================================================================
