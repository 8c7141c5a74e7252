----------------------------- MODULE BootProofs -----------------------------
(***************************************************************************)
(* Proofs about Boot: for any number of resets and updates, any timeout    *)
(* and any capacity of the crash log, the health check validates only      *)
(* what was up and gives up nothing that was valid, and the crash log      *)
(* shows the latest records.                                               *)
(***************************************************************************)
EXTENDS Boot, SequenceTheorems, TLAPS

\* What the check has latched, and what is up now, has been seen since the
\* image was started.
LatchedWasSeen ==
  /\ seen \in SUBSET {"wifi", "mqtt"}
  /\ wifi \in BOOLEAN /\ mqtt \in BOOLEAN
  /\ wifi_ok \in BOOLEAN /\ mqtt_ok \in BOOLEAN /\ lbb_only \in BOOLEAN
  /\ wifi \/ wifi_ok => "wifi" \in seen
  /\ mqtt \/ mqtt_ok => "mqtt" \in seen

\* Only an image on trial is checked.
ChecksTrials ==
  /\ state \in [Images -> {"empty", "new", "pending", "valid", "invalid", "aborted"}]
  /\ updates \in Nat
  /\ hc \in {"wifi", "mqtt", "decide"} => state[running] = "pending"

HealthInv == LatchedWasSeen /\ ChecksTrials

(***************************************************************************)
(* What a reset makes of the states st: what was valid is, what was new    *)
(* may be on trial, and nothing becomes valid.                             *)
(***************************************************************************)
LEMMA ResetKeepsValid ==
  ASSUME NEW st \in [Images -> {"empty", "new", "pending", "valid", "invalid", "aborted"}],
         NEW sel, LatchedWasSeen, Starts(st, sel)
  PROVE  /\ LatchedWasSeen'
         /\ state' \in [Images -> {"empty", "new", "pending", "valid", "invalid", "aborted"}]
         /\ hc' = "none"
         /\ \A s \in Images : state'[s] = "valid" <=> st[s] = "valid"
<1>1. LatchedWasSeen' /\ hc' = "none"
  BY DEF Starts, LatchedWasSeen
<1> DEFINE gone == [s \in Images |-> IF st[s] = "pending" THEN "aborted" ELSE st[s]]
<1>2. PICK s : state' = [gone EXCEPT ![s] = IF @ = "new" THEN "pending" ELSE @]
  BY DEF Starts
<1>3. gone \in [Images -> {"empty", "new", "pending", "valid", "invalid", "aborted"}]
  OBVIOUS
<1>4. \A t \in Images : gone[t] = "valid" <=> st[t] = "valid"
  OBVIOUS
<1> HIDE DEF gone
<1>5. \A t \in Images : state'[t] = IF t = s /\ gone[t] = "new" THEN "pending" ELSE gone[t]
  BY <1>2, <1>3
<1>6. state' \in [Images -> {"empty", "new", "pending", "valid", "invalid", "aborted"}]
  BY <1>2, <1>3
<1> QED BY <1>1, <1>4, <1>5, <1>6

\* A step of the check, or of the network, is one that keeps the invariant,
\* and marks an image valid only after both links were seen.
LEMMA HealthStep ==
  ASSUME HealthInv, TaskCreated \/ HealthNext \/ LinksChange
  PROVE  /\ HealthInv'
         /\ \A s \in Images : state[s] = "valid" => state'[s] = "valid"
         /\ \A s \in Images : state[s] # "valid" /\ state'[s] = "valid" =>
              lbb_only \/ seen = {"wifi", "mqtt"}
<1> USE DEF HealthInv, LatchedWasSeen, ChecksTrials, otadata, env
<1>1. CASE TaskCreated BY <1>1 DEF TaskCreated
<1>2. CASE LinksChange BY <1>2 DEF LinksChange, Up
<1>3. CASE HealthStarts BY <1>3 DEF HealthStarts, Pending, mark_app_valid
<1>4. CASE ChecksWifi BY <1>4 DEF ChecksWifi
<1>5. CASE ChecksMqtt BY <1>5 DEF ChecksMqtt
<1>6. CASE TimesOut BY <1>6 DEF TimesOut
<1>7. CASE Passes BY <1>7 DEF Passes, Healthy, mark_app_valid
<1> QED BY <1>1, <1>2, <1>3, <1>4, <1>5, <1>6, <1>7 DEF HealthNext

\* A reset, whoever asks for it, keeps what is valid, but for the slot that
\* an update overwrites.
LEMMA ResetStep ==
  ASSUME HealthInv, OtaReset \/ Update \/ RollsBack
  PROVE  /\ HealthInv'
         /\ \A s \in Images : state[s] = "valid" => state'[s] = "valid" \/ updates' > updates
         /\ \A s \in Images : state'[s] = "valid" => state[s] = "valid"
<1> USE DEF HealthInv, ChecksTrials
<1>1. CASE OtaReset
  BY <1>1, ResetKeepsValid DEF OtaReset
<1>2. CASE Update
  <2> DEFINE st == [state EXCEPT ![Other(running)] = "new"]
  <2>1. st \in [Images -> {"empty", "new", "pending", "valid", "invalid", "aborted"}]
    OBVIOUS
  <2>2. \A s \in Images : st[s] = "valid" => state[s] = "valid"
    OBVIOUS
  <2>3. Starts(st, Other(running)) /\ updates' = updates + 1
    BY <1>2 DEF Update
  <2> HIDE DEF st
  <2> QED BY <2>1, <2>2, <2>3, ResetKeepsValid
<1>3. CASE RollsBack
  <2> DEFINE st == [state EXCEPT ![running] = "invalid"]
  <2>1. st \in [Images -> {"empty", "new", "pending", "valid", "invalid", "aborted"}]
    OBVIOUS
  <2>2. \A s \in Images : st[s] = "valid" <=> state[s] = "valid"
    BY <1>3 DEF RollsBack
  <2>3. Starts(st, Other(running)) /\ updates' = updates
    BY <1>3 DEF RollsBack
  <2> HIDE DEF st
  <2> QED BY <2>1, <2>2, <2>3, ResetKeepsValid
<1> QED BY <1>1, <1>2, <1>3

LEMMA InitHealth == Init => HealthInv
<1> SUFFICES ASSUME OtaInit PROVE HealthInv
  BY DEF Init
<1>1. LatchedWasSeen
  BY DEF OtaInit, LatchedWasSeen
<1>2. state = [s \in Images |-> IF s = Factory THEN "valid" ELSE "empty"]
  BY DEF OtaInit
<1>3. state \in [Images -> {"empty", "new", "pending", "valid", "invalid", "aborted"}]
  BY <1>2
<1>4. updates = 0 /\ hc = "none"
  BY DEF OtaInit
<1> QED BY <1>1, <1>3, <1>4 DEF HealthInv, ChecksTrials

\* What a step does to the images; a step of the crash log does nothing.
LEMMA NextHealth ==
  ASSUME HealthInv, [Next]_vars
  PROVE  /\ HealthInv'
         /\ \A s \in Images : state[s] = "valid" => state'[s] = "valid" \/ updates' > updates
         /\ \A s \in Images : state[s] # "valid" /\ state'[s] = "valid" =>
              lbb_only \/ seen = {"wifi", "mqtt"}
<1>1. CASE Fails BY <1>1, ResetStep DEF Fails
<1>2. CASE Restarts BY <1>2, ResetStep DEF Restarts
<1>3. CASE TaskSteps BY <1>3, HealthStep DEF TaskSteps
<1>4. CASE UNCHANGED otaVars
  BY <1>4 DEF otaVars, HealthInv, LatchedWasSeen, ChecksTrials
<1> QED BY <1>1, <1>2, <1>3, <1>4 DEF Next, CrashSteps, vars

-----------------------------------------------------------------------------
(***************************************************************************)
(* The health check of main.cpp:117-140, through any resets: an image that *)
(* becomes valid has seen WiFi and MQTT since it was started, or there is  *)
(* no broker.                                                              *)
(***************************************************************************)
THEOREM ValidatedWasUp == Spec => ValidWasUp
<1>1. HealthInv /\ [Next]_vars => [\A s \in Images : state[s] # "valid" /\ state'[s] = "valid" =>
                                     lbb_only \/ seen = {"wifi", "mqtt"}]_otaVars
  BY NextHealth
<1>2. HealthInv /\ [Next]_vars => HealthInv'
  BY NextHealth
<1> QED BY <1>1, <1>2, InitHealth, PTL DEF Spec, ValidWasUp

(***************************************************************************)
(* main.cpp:76-82 and 141-151: only an update takes a valid image away,    *)
(* whatever crashes and rollbacks there are.                               *)
(***************************************************************************)
THEOREM GoodImageStays == Spec => GoodStays
<1>1. HealthInv /\ [Next]_vars => [\A s \in Images : state[s] = "valid" =>
                                     state'[s] = "valid" \/ updates' > updates]_otaVars
  BY NextHealth
<1>2. HealthInv /\ [Next]_vars => HealthInv'
  BY NextHealth
<1> QED BY <1>1, <1>2, InitHealth, PTL DEF Spec, GoodStays

-----------------------------------------------------------------------------
(***************************************************************************)
(* The crash log.  What is in the ring is said of the slots before the     *)
(* head, counted backwards, which neither a wrap nor a new record moves.   *)
(***************************************************************************)
Pcs == {"init", "boots", "append", "ready", "head", "cnt"}

LogTypes ==
  /\ blob \in [0..(CAP - 1) -> Nat] /\ boots \in Nat /\ s_boot_count \in Nat
  /\ head \in 0..(CAP - 1) /\ cnt \in 0..CAP
  /\ s_head \in 0..(CAP - 1) /\ s_count \in 0..CAP
  /\ pc \in Pcs /\ abnormal \in BOOLEAN /\ clearing \in BOOLEAN
  /\ crashes \in Seq(Nat) /\ scenario \in Scenarios

\* The slot j before slot h of the ring.
Before(h, j) == IF j <= h THEN h - j ELSE h + CAP - j

\* How many records back the ring is intact: a reset that comes while a record
\* is written may spoil the oldest of CAP.
Depth == IF "append" \in scenario THEN CAP - 1 ELSE CAP

\* The n slots before slot h have the last n records of log.
Shows(h, n, log) ==
  /\ n <= Len(log)
  /\ \A j \in 1..n : j <= Depth => blob[Before(h, j)] = log[Len(log) + 1 - j]

\* As many as there are, and as the ring has room for, if no reset comes
\* between the writes.
Complete(n, log) == scenario = {} => n = IF Len(log) < CAP THEN Len(log) ELSE CAP

\* NVS between two records.
Stored ==
  /\ pc \in {"init", "boots", "append", "ready"} \/ ("append" \in scenario /\ ~clearing)
       => Shows(head, cnt, crashes)
  /\ pc \in {"init", "boots", "append", "ready"} => Complete(cnt, crashes) /\ ~clearing
  /\ pc \in {"boots", "append", "ready"} => s_head = head /\ s_count = cnt

\* The copies in RAM while their record, or their emptiness, is written.
Saving ==
  /\ pc \in {"head", "cnt"} /\ clearing => s_head = 0 /\ s_count = 0
  /\ pc \in {"head", "cnt"} /\ ~clearing => cnt <= s_count
  /\ pc = "head" /\ ~clearing =>
       /\ Shows(s_head, s_count, Append(crashes, s_boot_count))
       /\ Complete(s_count, Append(crashes, s_boot_count))
  /\ pc = "cnt" =>
       /\ head = s_head
       /\ Shows(s_head, s_count, crashes) /\ Complete(s_count, crashes)

RingInv == "clear" \notin scenario => Stored /\ Saving

\* The slots of a ring.
LEMMA InRing ==
  ASSUME NEW h \in 0..(CAP - 1), NEW j \in 1..CAP
  PROVE  /\ CAP \in Nat \ {0}
         /\ Before(h, j) \in 0..(CAP - 1)
         /\ j < CAP => Before(h, j) # h
  BY CapAssumption DEF Before

\* The head goes round, and the slots before it move on by one.
LEMMA HeadMoves ==
  ASSUME NEW h \in 0..(CAP - 1), NEW k \in 0..(CAP - 1), k = (h + 1) % CAP
  PROVE  /\ Before(k, 1) = h
         /\ \A j \in 2..CAP : Before(k, j) = Before(h, j - 1)
<1>1. k = IF h + 1 < CAP THEN h + 1 ELSE 0
  BY CapAssumption
<1> QED BY <1>1, CapAssumption DEF Before

LEMMA ReadSlot ==
  ASSUME NEW h \in 0..(CAP - 1)
  PROVE  /\ h % CAP = h
         /\ (h + 1) % CAP \in 0..(CAP - 1)
  BY CapAssumption

\* A record that is written at the head is the last one shown, and the
\* others are those before it.
LEMMA ShowsAppended ==
  ASSUME LogTypes, Shows(s_head, s_count, crashes), append_entry, UNCHANGED scenario
  PROVE  Shows(s_head, s_count, Append(crashes, s_boot_count))'
<1> DEFINE log == Append(crashes, s_boot_count)
<1>1. /\ s_head' = (s_head + 1) % CAP /\ s_head \in 0..(CAP - 1) /\ s_head' \in 0..(CAP - 1)
      /\ s_count \in 0..CAP /\ CAP \in Nat \ {0}
      /\ s_count' = IF s_count < CAP THEN s_count + 1 ELSE s_count
  BY CapAssumption, ReadSlot DEF LogTypes, append_entry, NextHead, CountUp
<1>2. blob' = [blob EXCEPT ![s_head] = s_boot_count] /\ blob \in [0..(CAP - 1) -> Nat]
  BY DEF LogTypes, append_entry, Slot
<1>3. log' = log /\ crashes \in Seq(Nat) /\ s_boot_count \in Nat
  BY DEF LogTypes, append_entry
<1>4. /\ log \in Seq(Nat) /\ Len(log) = Len(crashes) + 1 /\ log[Len(log)] = s_boot_count
      /\ \A i \in 1..Len(crashes) : log[i] = crashes[i]
      /\ Len(crashes) \in Nat
  BY <1>3 DEF log
<1> HIDE DEF log
<1>5. s_count <= Len(crashes) /\ s_count' \in 0..CAP /\ s_count' <= s_count + 1
  BY <1>1, <1>4 DEF Shows
<1>6. Depth' = Depth BY DEF Depth
<1>7. ASSUME NEW j \in 1..s_count', j <= Depth
      PROVE  blob'[Before(s_head', j)] = log[Len(log) + 1 - j]
  <2>1. CASE j = 1
    <3>1. Before(s_head', 1) = s_head BY <1>1, HeadMoves
    <3> QED BY <2>1, <3>1, <1>1, <1>2, <1>4
  <2>2. CASE j > 1
    <3>1. j \in 2..CAP /\ j - 1 \in 1..s_count /\ j - 1 \in 1..CAP /\ j - 1 < CAP
      BY <2>2, <1>1, <1>5
    <3>2. Before(s_head', j) = Before(s_head, j - 1) BY <3>1, <1>1, HeadMoves
    <3>3. Before(s_head, j - 1) # s_head /\ Before(s_head, j - 1) \in 0..(CAP - 1)
      BY <3>1, <1>1, InRing
    <3>4. blob[Before(s_head, j - 1)] = crashes[Len(crashes) + 1 - (j - 1)]
      <4>1. j - 1 <= Depth BY <1>7, <3>1, CapAssumption DEF Depth
      <4> QED BY <4>1, <3>1 DEF Shows
    <3>5. Len(log) + 1 - j = Len(crashes) + 1 - (j - 1) /\ Len(log) + 1 - j \in 1..Len(crashes)
      BY <1>1, <1>4, <1>5, <2>2
    <3> QED BY <3>2, <3>3, <3>4, <3>5, <1>2, <1>4
  <2> QED BY <2>1, <2>2, <1>5
<1>8. s_count' <= Len(log) BY <1>1, <1>4, <1>5
<1>9. \A j \in 1..s_count' : j <= Depth' => blob'[Before(s_head', j)] = log'[Len(log') + 1 - j]
  BY <1>7, <1>6, <1>3
<1>10. s_count' <= Len(log') BY <1>8, <1>3
<1> QED BY <1>9, <1>10 DEF Shows, Before, log

\* What a step of Boot is for the crash log.
LEMMA CrashCases ==
  ASSUME [Next]_vars
  PROVE  CrashNext \/ (MayReset /\ \E ab \in BOOLEAN : CrashReset(ab)) \/ UNCHANGED crashVars
  BY DEF Next, vars, Fails, Restarts, CrashSteps, TaskSteps

LEMMA InitLog == Init => LogTypes /\ RingInv
<1> SUFFICES ASSUME CrashInit PROVE LogTypes /\ RingInv
  BY DEF Init
<1>1. LogTypes
  <2>1. blob \in [0..(CAP - 1) -> Nat] BY DEF CrashInit, NoRecord
  <2>2. 0 \in 0..(CAP - 1) /\ 0 \in 0..CAP BY CapAssumption
  <2>3. crashes \in Seq(Nat) BY DEF CrashInit
  <2> QED BY <2>1, <2>2, <2>3 DEF CrashInit, LogTypes, Pcs
<1>2. Len(crashes) = 0 /\ pc = "init" /\ cnt = 0 /\ ~clearing
  BY DEF CrashInit
<1>3. Shows(head, cnt, crashes) /\ Complete(cnt, crashes)
  BY <1>2, CapAssumption DEF Shows, Complete
<1> QED BY <1>1, <1>2, <1>3 DEF RingInv, Stored, Saving

LEMMA NextTypes == LogTypes /\ [Next]_vars => LogTypes'
<1> SUFFICES ASSUME LogTypes, [Next]_vars PROVE LogTypes'
  OBVIOUS
<1>0. CAP \in Nat \ {0} BY CapAssumption
<1> USE DEF Pcs
<1>1. CASE Load
  <2>1. head % CAP \in 0..(CAP - 1) /\ (IF cnt > CAP THEN CAP ELSE cnt) \in 0..CAP
    <3>1. head \in 0..(CAP - 1) /\ cnt \in 0..CAP BY DEF LogTypes
    <3>2. head % CAP = head BY <3>1, ReadSlot
    <3> QED BY <1>0, <3>1, <3>2
  <2> QED BY <1>1, <2>1 DEF Load, LogTypes, nvs
<1>2. CASE SaveBoots BY <1>2 DEF SaveBoots, LogTypes, ram
<1>3. CASE append_entry
  <2>1. (s_head + 1) % CAP \in 0..(CAP - 1) /\ CountUp \in 0..CAP
    BY <1>0, ReadSlot DEF LogTypes, CountUp
  <2> QED BY <1>3, <2>1 DEF append_entry, Slot, NextHead, LogTypes
<1>4. CASE do_crash_clear BY <1>4, <1>0 DEF do_crash_clear, LogTypes, nvs
<1>5. CASE SaveHead
  <2>1. Append(crashes, s_boot_count) \in Seq(Nat) /\ <<>> \in Seq(Nat)
    BY DEF LogTypes
  <2> QED BY <1>5, <2>1 DEF SaveHead, LogTypes, ram
<1>6. CASE SaveCnt BY <1>6 DEF SaveCnt, LogTypes, ram
<1>7. ASSUME NEW ab \in BOOLEAN, CrashReset(ab) PROVE LogTypes'
  <2>1. abnormal' \in BOOLEAN BY <1>7 DEF CrashReset
  <2>2. 0 \in 0..(CAP - 1) /\ 0 \in 0..CAP /\ 0 \in Nat BY <1>0
  <2>3. s_head' \in 0..(CAP - 1) /\ s_count' \in 0..CAP /\ s_boot_count' \in Nat
    BY <1>7, <2>2 DEF CrashReset
  <2>4. pc' \in Pcs /\ clearing' \in BOOLEAN BY <1>7 DEF CrashReset
  <2> QED BY <1>7, <2>1, <2>3, <2>4 DEF CrashReset, LogTypes, nvs
<1>8. CASE UNCHANGED crashVars BY <1>8 DEF crashVars, nvs, ram, LogTypes
<1> QED BY <1>1, <1>2, <1>3, <1>4, <1>5, <1>6, <1>7, <1>8, CrashCases DEF CrashNext

-----------------------------------------------------------------------------
(***************************************************************************)
(* The ring through every step.                                            *)
(***************************************************************************)
LEMMA NextRing == LogTypes /\ LogTypes' /\ RingInv /\ [Next]_vars => RingInv'
<1> SUFFICES ASSUME LogTypes, LogTypes', RingInv, [Next]_vars, "clear" \notin scenario'
             PROVE  Stored' /\ Saving'
  BY DEF RingInv
<1>0. scenario' = scenario /\ Stored /\ Saving
  <2>1. scenario' = scenario
    BY CrashCases DEF CrashNext, Load, SaveBoots, append_entry, do_crash_clear, SaveHead, SaveCnt,
                       CrashReset, crashVars
  <2> QED BY <2>1 DEF RingInv
<1>a. CAP \in Nat \ {0} BY CapAssumption
<1> USE <1>0
<1>1. CASE Load
  <2>1. head' = head /\ cnt' = cnt /\ UNCHANGED <<blob, crashes>> /\ clearing' = clearing
    BY <1>1 DEF Load, nvs
  <2>2. s_head' = head /\ s_count' = cnt /\ pc = "init" /\ pc' = "boots"
    <3>1. head \in 0..(CAP - 1) /\ cnt \in 0..CAP BY DEF LogTypes
    <3>2. head % CAP = head BY <3>1, ReadSlot
    <3>3. ~(cnt > CAP) BY <3>1, <1>a
    <3> QED BY <1>1, <3>2, <3>3 DEF Load
  <2> QED BY <2>1, <2>2 DEF Stored, Saving, Shows, Complete, Depth, Before
<1>2. CASE SaveBoots
  BY <1>2 DEF SaveBoots, ram, Stored, Saving, Shows, Complete, Depth, Before
<1>3. CASE append_entry
  <2>1. /\ pc = "append" /\ pc' = "head" /\ clearing' = clearing /\ ~clearing
        /\ UNCHANGED <<head, cnt, crashes, s_boot_count>>
        /\ s_head = head /\ s_count = cnt /\ Shows(head, cnt, crashes) /\ Complete(cnt, crashes)
    BY <1>3 DEF append_entry, Stored
  <2>2. Shows(s_head, s_count, Append(crashes, s_boot_count))'
    BY <1>3, <2>1, ShowsAppended
  <2>3. cnt' <= s_count'
    BY <1>3, <1>a, <2>1 DEF append_entry, CountUp, LogTypes
  <2>4. Complete(s_count, Append(crashes, s_boot_count))'
    <3>1. /\ Len(Append(crashes, s_boot_count)) = Len(crashes) + 1
          /\ Len(crashes) \in Nat
      BY DEF LogTypes
    <3>2. s_count' = IF s_count < CAP THEN s_count + 1 ELSE s_count
      BY <1>3 DEF append_entry, CountUp
    <3>3. scenario = {} => s_count' = IF Len(crashes) + 1 < CAP THEN Len(crashes) + 1 ELSE CAP
      BY <1>a, <2>1, <3>1, <3>2 DEF Complete
    <3> QED BY <2>1, <3>1, <3>3 DEF Complete
  <2>5. "append" \in scenario => Shows(head, cnt, crashes)'
    <3> SUFFICES ASSUME "append" \in scenario, NEW j \in 1..cnt, j <= CAP - 1
                 PROVE  blob'[Before(head, j)] = crashes[Len(crashes) + 1 - j]
      BY <2>1 DEF Shows, Depth, Before
    <3>1. j \in 1..CAP /\ j < CAP /\ head \in 0..(CAP - 1) BY <1>a DEF LogTypes
    <3>2. Before(head, j) # head /\ Before(head, j) \in 0..(CAP - 1) BY <3>1, InRing
    <3>3. blob' = [blob EXCEPT ![head] = s_boot_count] /\ blob \in [0..(CAP - 1) -> Nat]
      BY <1>3, <2>1 DEF append_entry, Slot, LogTypes
    <3>4. blob[Before(head, j)] = crashes[Len(crashes) + 1 - j] BY <2>1 DEF Shows, Depth
    <3> QED BY <3>2, <3>3, <3>4
  <2> QED BY <2>1, <2>2, <2>3, <2>4, <2>5 DEF Stored, Saving
<1>4. CASE do_crash_clear
  BY <1>4 DEF do_crash_clear, nvs, Stored, Saving
<1>5. CASE SaveHead
  <2>1. /\ pc = "head" /\ pc' = "cnt" /\ head' = s_head /\ clearing' = clearing
        /\ UNCHANGED <<blob, cnt, s_head, s_count>>
        /\ crashes' = IF clearing THEN <<>> ELSE Append(crashes, s_boot_count)
    BY <1>5 DEF SaveHead, ram
  <2>2. CASE clearing
    <3>1. s_count = 0 /\ s_head = 0 /\ crashes' = <<>> BY <2>1, <2>2 DEF Saving
    <3>2. Len(crashes') = 0 BY <3>1
    <3>3. Shows(s_head, s_count, crashes)' /\ Complete(s_count, crashes)'
      BY <1>a, <2>1, <3>1, <3>2 DEF Shows, Complete
    <3> QED BY <2>1, <2>2, <3>1, <3>3 DEF Stored, Saving
  <2>3. CASE ~clearing
    <3>1. /\ Shows(s_head, s_count, crashes)' /\ Complete(s_count, crashes)'
          /\ cnt <= s_count
      BY <2>1, <2>3 DEF Saving, Shows, Complete, Depth, Before
    <3>2. cnt' \in Nat /\ s_count' \in Nat /\ cnt' <= s_count' /\ head' = s_head'
      BY <2>1, <3>1 DEF LogTypes
    <3>3. Shows(head, cnt, crashes)'
      BY <3>1, <3>2 DEF Shows, Depth, Before
    <3> QED BY <2>1, <2>3, <3>1, <3>3 DEF Stored, Saving
  <2> QED BY <2>2, <2>3
<1>6. CASE SaveCnt
  <2>1. /\ pc = "cnt" /\ pc' = "ready" /\ cnt' = s_count /\ ~clearing'
        /\ UNCHANGED <<blob, head, s_head, s_count, crashes>>
    BY <1>6 DEF SaveCnt, ram
  <2> QED BY <2>1 DEF Stored, Saving, Shows, Complete, Depth, Before
<1>7. ASSUME MayReset, NEW ab \in BOOLEAN, CrashReset(ab) PROVE Stored' /\ Saving'
  <2>1. /\ pc' = "init" /\ ~clearing' /\ UNCHANGED <<blob, head, cnt, crashes>>
        /\ pc = "ready" \/ ("append" \in scenario /\ ~clearing)
    BY <1>7 DEF CrashReset, nvs, MayReset
  <2>2. Shows(head, cnt, crashes)' /\ Complete(cnt, crashes)'
    BY <2>1 DEF Stored, Shows, Complete, Depth, Before
  <2> QED BY <2>1, <2>2 DEF Stored, Saving
<1>8. CASE UNCHANGED crashVars
  BY <1>8 DEF crashVars, nvs, ram, Stored, Saving, Shows, Complete, Depth, Before
<1> QED BY <1>1, <1>2, <1>3, <1>4, <1>5, <1>6, <1>7, <1>8, CrashCases DEF CrashNext
-----------------------------------------------------------------------------
(***************************************************************************)
(* What the console shows of it.                                           *)
(***************************************************************************)
LEMMA OnceRound ==
  ASSUME NEW n \in Nat \ {0}, NEW a \in 0..(2 * n - 1)
  PROVE  /\ a < n => a % n = a
         /\ a >= n => a % n = a - n
  OBVIOUS

\* The dump runs through the slots before the head, from the oldest on.
LEMMA DumpSlots ==
  ASSUME LogTypes, NEW i \in 1..s_count
  PROVE  (oldest + i - 1) % CAP = Before(s_head, s_count - i + 1)
<1>1. CAP \in Nat \ {0} /\ s_head \in 0..(CAP - 1) /\ s_count \in 0..CAP
  BY CapAssumption DEF LogTypes
<1>2. oldest = IF s_head < s_count THEN s_head + CAP - s_count ELSE s_head - s_count
  <2>1. PICK a \in 0..(2 * CAP - 1) : a = s_head + CAP - s_count BY <1>1
  <2>2. (a < CAP => a % CAP = a) /\ (a >= CAP => a % CAP = a - CAP)
    BY <1>1, OnceRound
  <2>3. oldest = a % CAP BY <2>1 DEF oldest
  <2> QED BY <1>1, <2>1, <2>2, <2>3
<1>3. oldest + i - 1 \in 0..(2 * CAP - 1) /\ oldest \in 0..(CAP - 1)
  BY <1>1, <1>2
<1>4. PICK a \in 0..(2 * CAP - 1) : a = oldest + i - 1
  BY <1>3
<1>6. (a < CAP => a % CAP = a) /\ (a >= CAP => a % CAP = a - CAP)
  BY <1>1, OnceRound
<1>5. s_count - i + 1 \in 1..CAP BY <1>1
<1>7. a % CAP = Before(s_head, s_count - i + 1)
  BY <1>1, <1>2, <1>4, <1>5, <1>6 DEF Before
<1> QED BY <1>4, <1>7

\* What is intact of the ring is shown as it was recorded.
LEMMA DumpShows ==
  ASSUME LogTypes, Shows(s_head, s_count, crashes)
  PROVE  /\ Dump \in Seq(Nat) /\ Len(Dump) = s_count
         /\ s_count <= Len(crashes)
         /\ \A i \in 1..s_count : s_count - i + 1 <= Depth => Dump[i] = crashes[Len(crashes) - s_count + i]
<1>1. CAP \in Nat \ {0} /\ s_head \in 0..(CAP - 1) /\ s_count \in 0..CAP
      /\ blob \in [0..(CAP - 1) -> Nat] /\ Len(crashes) \in Nat
  BY CapAssumption DEF LogTypes
<1>2. ASSUME NEW i \in 1..s_count
      PROVE  /\ Dump[i] = blob[Before(s_head, s_count - i + 1)]
             /\ Dump[i] \in Nat
  <2>1. Dump[i] = blob[(oldest + i - 1) % CAP] BY DEF Dump
  <2>2. s_count - i + 1 \in 1..CAP BY <1>1
  <2> QED BY <2>1, <2>2, <1>1, DumpSlots, InRing
<1>3. Dump \in [1..s_count -> Nat] BY <1>2 DEF Dump
<1>4. Dump \in Seq(Nat) /\ Len(Dump) = s_count BY <1>1, <1>3
<1>5. ASSUME NEW i \in 1..s_count, s_count - i + 1 <= Depth
      PROVE  Dump[i] = crashes[Len(crashes) - s_count + i]
  <2>1. s_count - i + 1 \in 1..s_count BY <1>1
  <2>2. blob[Before(s_head, s_count - i + 1)] = crashes[Len(crashes) + 1 - (s_count - i + 1)]
    BY <2>1, <1>5 DEF Shows
  <2>3. Len(crashes) + 1 - (s_count - i + 1) = Len(crashes) - s_count + i BY <1>1
  <2> QED BY <1>2, <2>2, <2>3
<1> QED BY <1>4, <1>5 DEF Shows

LEMMA RingInvariant == Spec => [](LogTypes /\ RingInv)
<1>1. Init => LogTypes /\ RingInv BY InitLog
<1>2. LogTypes /\ RingInv /\ [Next]_vars => LogTypes' /\ RingInv' BY NextTypes, NextRing
<1> QED BY <1>1, <1>2, PTL DEF Spec

(***************************************************************************)
(* However often the ring went round and the log was emptied, and whenever *)
(* resets come between the records, what the console shows is the last     *)
(* records, as many as the ring has room for, the oldest first.            *)
(***************************************************************************)
THEOREM LogShowsLatest == Spec => []DumpIsLatest
<1>1. LogTypes /\ RingInv => DumpIsLatest
  <2> SUFFICES ASSUME LogTypes, RingInv, scenario = {}, pc = "ready"
               PROVE  Dump = Latest(IF Len(crashes) < CAP THEN Len(crashes) ELSE CAP)
    BY DEF DumpIsLatest
  <2> DEFINE n == IF Len(crashes) < CAP THEN Len(crashes) ELSE CAP
  <2>1. /\ Shows(s_head, s_count, crashes) /\ Complete(s_count, crashes) /\ Depth = CAP
    BY DEF RingInv, Stored, Depth
  <2>2. /\ s_count = n /\ s_count \in Nat /\ Len(crashes) \in Nat /\ s_count <= Len(crashes)
        /\ s_count <= CAP /\ crashes \in Seq(Nat) /\ CAP \in Nat
    BY <2>1, CapAssumption DEF Complete, Shows, LogTypes
  <2> HIDE DEF n
  <2>3. /\ Dump \in Seq(Nat) /\ Len(Dump) = s_count
        /\ \A i \in 1..s_count : Dump[i] = crashes[Len(crashes) - s_count + i]
    BY <2>1, <2>2, DumpShows
  <2>4. /\ Latest(n) \in Seq(Nat) /\ Len(Latest(n)) = s_count
        /\ \A i \in 1..s_count : Latest(n)[i] = crashes[Len(crashes) - s_count + i]
    <3>1. \A i \in (Len(crashes) - n + 1)..Len(crashes) : crashes[i] \in Nat
      BY <2>2
    <3>2. /\ Latest(n) \in Seq(Nat)
          /\ Len(Latest(n)) = IF Len(crashes) - n + 1 <= Len(crashes)
                              THEN Len(crashes) - (Len(crashes) - n + 1) + 1 ELSE 0
          /\ \A i \in 1..(Len(crashes) - (Len(crashes) - n + 1) + 1) :
               Latest(n)[i] = crashes[(Len(crashes) - n + 1) + i - 1]
      BY <2>2, <3>1, SubSeqProperties DEF Latest
    <3>3. /\ Len(crashes) - (Len(crashes) - n + 1) + 1 = s_count
          /\ \A i \in Int : (Len(crashes) - n + 1) + i - 1 = Len(crashes) - s_count + i
      BY <2>2
    <3>4. Len(Latest(n)) = s_count BY <2>2, <3>2
    <3>5. ASSUME NEW i \in 1..s_count PROVE Latest(n)[i] = crashes[Len(crashes) - s_count + i]
      <4>1. i \in 1..(Len(crashes) - (Len(crashes) - n + 1) + 1) BY <3>3
      <4>2. Latest(n)[i] = crashes[(Len(crashes) - n + 1) + i - 1] BY <3>2, <4>1
      <4> QED BY <2>2, <3>3, <4>2
    <3> QED BY <3>2, <3>4, <3>5
  <2>5. Dump = Latest(n) BY <2>3, <2>4, SeqEqual
  <2> QED BY <2>5 DEF n
<1> QED BY <1>1, RingInvariant, PTL

(***************************************************************************)
(* With resets between the writes of a record, too, whatever the console   *)
(* shows after the first record is the latest records without a gap.       *)
(***************************************************************************)
THEOREM RecentRecordsIntact == Spec => []RecentIntact
<1>1. LogTypes /\ RingInv => RecentIntact
  <2> SUFFICES ASSUME LogTypes, RingInv, "clear" \notin scenario, pc = "ready", s_count > 0
               PROVE  IsSuffix(Tail(Dump), crashes)
    BY DEF RecentIntact
  <2> DEFINE s == Tail(Dump)
             r == Reverse(s)
             c == Reverse(crashes)
  <2>1. Shows(s_head, s_count, crashes)
    BY DEF RingInv, Stored
  <2>2. /\ s_count \in Nat \ {0} /\ Len(crashes) \in Nat /\ s_count <= Len(crashes)
        /\ s_count <= CAP /\ crashes \in Seq(Nat) /\ CAP \in Nat
    BY <2>1, CapAssumption DEF Shows, LogTypes
  <2>3. /\ Dump \in Seq(Nat) /\ Len(Dump) = s_count
        /\ \A i \in 2..s_count : Dump[i] = crashes[Len(crashes) - s_count + i]
    <3>1. \A i \in 2..s_count : s_count - i + 1 <= Depth BY <2>2 DEF Depth
    <3> QED BY <2>1, <2>2, <3>1, DumpShows
  <2>4. /\ s \in Seq(Nat) /\ Len(s) = s_count - 1
        /\ \A i \in 1..(s_count - 1) : s[i] = crashes[Len(crashes) - s_count + i + 1]
    <3>1. Dump # <<>> BY <2>2, <2>3
    <3>2. /\ s \in Seq(Nat) /\ Len(s) = s_count - 1
          /\ \A i \in 1..(s_count - 1) : s[i] = Dump[i + 1]
      BY <2>3, <3>1, HeadTailProperties
    <3>3. ASSUME NEW i \in 1..(s_count - 1) PROVE s[i] = crashes[Len(crashes) - s_count + i + 1]
      <4>1. i + 1 \in 2..s_count /\ Len(crashes) - s_count + (i + 1) = Len(crashes) - s_count + i + 1
        BY <2>2
      <4> QED BY <2>3, <3>2, <4>1
    <3> QED BY <3>2, <3>3
  <2> HIDE DEF s
  <2>5. /\ r \in Seq(Nat) /\ Len(r) = s_count - 1
        /\ \A i \in 1..(s_count - 1) : r[i] = s[s_count - i]
    <3>1. r = [i \in 1..(s_count - 1) |-> s[(s_count - 1 - i) + 1]] BY <2>4 DEF Reverse
    <3>2. \A i \in 1..(s_count - 1) : (s_count - 1 - i) + 1 = s_count - i /\ s_count - i \in 1..(s_count - 1)
      BY <2>2
    <3>3. \A i \in 1..(s_count - 1) : r[i] = s[s_count - i] /\ r[i] \in Nat BY <2>4, <3>1, <3>2
    <3>4. r \in [1..(s_count - 1) -> Nat] BY <3>1, <3>3
    <3> QED BY <2>2, <3>3, <3>4
  <2>6. /\ c \in Seq(Nat) /\ Len(c) = Len(crashes)
        /\ \A i \in 1..Len(crashes) : c[i] = crashes[Len(crashes) - i + 1]
    <3>1. c = [i \in 1..Len(crashes) |-> crashes[(Len(crashes) - i) + 1]] BY DEF Reverse
    <3>2. c \in [1..Len(crashes) -> Nat] BY <2>2, <3>1
    <3> QED BY <2>2, <3>1, <3>2
  <2> HIDE DEF r, c
  <2>7. ASSUME NEW i \in 1..Len(r) PROVE r[i] = c[i]
    <3>1. s_count - i \in 1..(s_count - 1) /\ i \in 1..Len(crashes) BY <2>2, <2>5
    <3>2. r[i] = crashes[Len(crashes) - s_count + (s_count - i) + 1] BY <2>4, <2>5, <3>1
    <3>3. Len(crashes) - s_count + (s_count - i) + 1 = Len(crashes) - i + 1 BY <2>2, <3>1
    <3> QED BY <2>6, <3>1, <3>2, <3>3
  <2>8. Len(r) <= Len(c) /\ Len(r) \in Nat BY <2>2, <2>5, <2>6
  <2>9. SubSeq(r, 1, Len(r)) = SubSeq(c, 1, Len(r))
    <3>1. SubSeq(r, 1, Len(r)) = [i \in 1..Len(r) |-> r[i]] BY <2>5, <2>8
    <3>2. SubSeq(c, 1, Len(r)) = [i \in 1..Len(r) |-> c[i]] BY <2>6, <2>8
    <3> QED BY <2>7, <3>1, <3>2
  <2> QED BY <2>8, <2>9 DEF IsSuffix, IsPrefix, r, c, s
<1> QED BY <1>1, RingInvariant, PTL
=============================================================================
