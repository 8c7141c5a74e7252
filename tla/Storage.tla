------------------------------ MODULE Storage ------------------------------
(***************************************************************************)
(* The storage layer of src/storage/storage_spiffs.c: one LittleFS         *)
(* directory for recipes and configuration, whatever the domain, and an    *)
(* NVS blob for the calibration.                                           *)
(*                                                                         *)
(* A file is the text it was written from and how much of it is there; a   *)
(* file of length 0 and no file are the same to every caller.  LittleFS    *)
(* and NVS are external.  LittleFS replaces a file when it is closed, so   *)
(* that a file open for writing keeps its old text; in scenario "torn" it  *)
(* does not, and any part of the new text may be there instead.  An NVS    *)
(* entry is written whole or not at all.                                   *)
(***************************************************************************)
EXTENDS Naturals

CONSTANTS
  Ids,        \* ids of recipes, the keys of STORAGE_DOMAIN_RECIPES
  Device,     \* "device", the key of STORAGE_DOMAIN_CONFIGURATION
  Texts,      \* the JSON texts that are written
  NoText,     \* the text of a file that is not there
  Length,     \* how long each text is
  Scenarios   \* what may go wrong, each a set of
              \* "torn"    a file open for writing loses its old text
              \* "full"    the file system may be full
              \* "format"  mounting may fail, or format the partition
              \* "nvs"     reading or writing the calibration may fail
              \* "reload"  the console changes settings during a test
              \* "collide" "device" is used as the id of a recipe

ASSUME TextsAssumption == NoText \notin Texts /\ Length \in [Texts -> Nat \ {0}]
ASSUME IdsAssumption == Device \notin Ids
ASSUME ScenariosAssumption ==
  Scenarios \subseteq SUBSET {"torn", "full", "format", "nvs", "reload", "collide"}

VARIABLES
  s_mounted,   \* the file system is there
  files,       \* the directory /recipes
  con,         \* what the console task does, or main before it starts
  scenario     \* the one this behaviour is of

Keys == Ids \cup {Device}
Absent == [text |-> NoText, len |-> 0]
Whole(t) == [text |-> t, len |-> Length[t]]
Parts(t) == {Absent} \cup {[text |-> t, len |-> n] : n \in 1..(Length[t] - 1)}

IsWhole(c) == c.text \in Texts /\ c.len = Length[c.text]

\* A command: where it is, the key it is about and the text it writes.
Idle == [pc |-> "idle", id |-> Device, text |-> NoText]
Doing(pc, k, t) == [pc |-> pc, id |-> k, text |-> t]

-----------------------------------------------------------------------------
\* "return -1" when nothing is mounted, which callers treat as not found.
Storage_GetSize(k) == IF s_mounted THEN files[k].len ELSE 0

\* fread of at most size bytes.
Storage_Read(k, size) ==
  IF ~s_mounted \/ files[k].len = 0 \/ size = 0 THEN Absent
  ELSE [files[k] EXCEPT !.len = IF @ < size THEN @ ELSE size]

\* Mutation: the old file is removed first.
Removes(k, t) == files' = [files EXCEPT ![k] = Absent]
\* fopen(path, "w") in Storage_Write.
Opens(k, t) ==
  \/ UNCHANGED files
  \/ "torn" \in scenario /\ \E c \in Parts(t) : files' = [files EXCEPT ![k] = c]

\* fwrite and fclose, whose result nobody looks at.
Closes(k, t) == files' = [files EXCEPT ![k] = Whole(t)]

\* A short write, or a close that fails.
FailsToWrite(k, t) ==
  /\ "full" \in scenario
  /\ \/ UNCHANGED files
     \/ \E c \in Parts(t) : files' = [files EXCEPT ![k] = c]

Storage_Delete(k) == s_mounted /\ files' = [files EXCEPT ![k] = Absent]

\* Storage_Write of the console in two steps: until the file is closed.  A
\* write that fails is reported, but the result of fclose is not looked at.
BeginWrite(pc, k, t) ==
  IF s_mounted THEN Opens(k, t) /\ con' = Doing(pc, k, t) ELSE con' = Idle /\ UNCHANGED files

EndWrite == Closes(con.id, con.text) \/ FailsToWrite(con.id, con.text)

\* esp_vfs_littlefs_register with format_if_mount_failed.
Storage_Init ==
  \/ s_mounted' = TRUE /\ UNCHANGED files
  \/ /\ "format" \in scenario
     /\ \/ s_mounted' = FALSE /\ UNCHANGED files
        \/ s_mounted' = TRUE /\ files' = [k \in Keys |-> Absent]
=============================================================================
