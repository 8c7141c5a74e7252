------------------------------ MODULE CrashLog ------------------------------
(***************************************************************************)
(* The crash log of src/src/crash_log.c: a ring of CAP records in NVS with *)
(* its head and count, written one NVS entry after the other at the boot   *)
(* that follows an abnormal reset, and emptied by "crash clear".  The      *)
(* power may fail between any two writes.                                  *)
(*                                                                         *)
(* A record is the number of the boot that wrote it.  NVS itself is        *)
(* external: an entry is written whole or not at all, in the order of the  *)
(* calls, and nvs_open and nvs_set do not fail.  Boot says when it resets. *)
(***************************************************************************)
EXTENDS Integers, Sequences, SequencesExt

CONSTANTS
  CAP,          \* CRASH_LOG_CAPACITY, 8 in the code
  Scenarios     \* what may happen besides, each a set of
                \* "append" a reset may come while a record is being written
                \* "clear"  a reset may come while the log is being emptied

ASSUME CapAssumption == CAP \in Nat \ {0}
ASSUME ScenariosAssumption == Scenarios \subseteq SUBSET {"append", "clear"}

VARIABLES
  blob, head, cnt, boots,           \* NVS: "c0".."c7", "head", "cnt" and "boots"
  s_head, s_count, s_boot_count,    \* their copies in RAM
  pc,                               \* where crash_log_init or do_crash is
  abnormal,                         \* is_abnormal(esp_reset_reason())
  clearing,                         \* it is do_crash that saves the pointers
  crashes,                          \* history: records since the log was emptied
  scenario                          \* the one this behaviour is of

nvs == <<blob, head, cnt, boots>>
ram == <<s_head, s_count, s_boot_count>>
crashVars == <<nvs, ram, pc, abnormal, clearing, crashes, scenario>>

NoRecord == 0

CrashInit ==
  /\ blob = [i \in 0..(CAP - 1) |-> NoRecord] /\ head = 0 /\ cnt = 0 /\ boots = 0
  /\ s_head = 0 /\ s_count = 0 /\ s_boot_count = 0
  /\ pc = "init" /\ abnormal = FALSE /\ clearing = FALSE
  /\ crashes = <<>>
  /\ scenario \in Scenarios

-----------------------------------------------------------------------------
MayReset ==
  \/ pc = "ready"
  \/ "append" \in scenario /\ ~clearing
  \/ "clear" \in scenario /\ clearing

\* RAM is lost; what has been written to NVS stays.
CrashReset(ab) ==
  /\ s_head' = 0 /\ s_count' = 0 /\ s_boot_count' = 0
  /\ pc' = "init" /\ clearing' = FALSE
  /\ abnormal' = ab
  /\ UNCHANGED <<nvs, crashes, scenario>>

Load ==
  /\ pc = "init"
  /\ s_head' = head % CAP
  /\ s_count' = IF cnt > CAP THEN CAP ELSE cnt
  /\ s_boot_count' = boots + 1
  /\ pc' = "boots"
  /\ UNCHANGED <<nvs, abnormal, clearing, crashes, scenario>>

SaveBoots ==
  /\ pc = "boots"
  /\ boots' = s_boot_count
  /\ pc' = IF abnormal THEN "append" ELSE "ready"
  /\ UNCHANGED <<blob, head, cnt, ram, abnormal, clearing, crashes, scenario>>

\* Mutation: the ring is one slot short.
NextHeadShort == (s_head + 1) % (CAP - 1)
NextHead == (s_head + 1) % CAP
CountUp == IF s_count < CAP THEN s_count + 1 ELSE s_count

\* Mutation: the record goes to the slot after the head.
SlotAfter == NextHead
Slot == s_head

append_entry ==
  /\ pc = "append"
  /\ blob' = [blob EXCEPT ![Slot] = s_boot_count]
  /\ s_head' = NextHead /\ s_count' = CountUp
  /\ pc' = "head"
  /\ UNCHANGED <<head, cnt, boots, s_boot_count, abnormal, clearing, crashes, scenario>>

do_crash_clear ==
  /\ pc = "ready"
  /\ s_head' = 0 /\ s_count' = 0
  /\ pc' = "head" /\ clearing' = TRUE
  /\ UNCHANGED <<nvs, s_boot_count, abnormal, crashes, scenario>>

\* save_pointers: "head" and then "cnt".
SaveHead ==
  /\ pc = "head"
  /\ head' = s_head
  /\ crashes' = IF clearing THEN <<>> ELSE Append(crashes, s_boot_count)
  /\ pc' = "cnt"
  /\ UNCHANGED <<blob, cnt, boots, ram, abnormal, clearing, scenario>>

SaveCnt ==
  /\ pc = "cnt"
  /\ cnt' = s_count
  /\ pc' = "ready" /\ clearing' = FALSE
  /\ UNCHANGED <<blob, head, boots, ram, abnormal, crashes, scenario>>

CrashNext == Load \/ SaveBoots \/ append_entry \/ do_crash_clear \/ SaveHead \/ SaveCnt

-----------------------------------------------------------------------------
(***************************************************************************)
(* Properties.                                                             *)
(***************************************************************************)
\* crash_log_dump_console, from the oldest record on.
oldest == (s_head + CAP - s_count) % CAP
Dump == [i \in 1..s_count |-> blob[(oldest + i - 1) % CAP]]

Latest(n) == SubSeq(crashes, Len(crashes) - n + 1, Len(crashes))

(***************************************************************************)
(* crash_log.h:5-7: whatever was cleared and however often the ring went   *)
(* round, the log shows the last CAP records, the oldest first, as long as *)
(* no reset comes while it is written.                                     *)
(***************************************************************************)
DumpIsLatest ==
  scenario = {} /\ pc = "ready" => Dump = Latest(IF Len(crashes) < CAP THEN Len(crashes) ELSE CAP)

(***************************************************************************)
(* With resets while a record is written, too: all that is shown after the *)
(* first record are the latest records, in order and without a gap, so     *)
(* that a reset spoils at most the oldest one shown.  (A reset between the *)
(* head and the count of "crash clear" brings emptied records back.)       *)
(***************************************************************************)
RecentIntact ==
  "clear" \notin scenario /\ pc = "ready" /\ s_count > 0 => IsSuffix(Tail(Dump), crashes)
=============================================================================
