----------------------------- MODULE Snapshots ------------------------------
(***************************************************************************)
(* The named baselines of src/src/g3_primitives.c: a snapshot step scans   *)
(* the channels into a slot of a static table, a compare step scans them   *)
(* again and compares them with the slot of that name.  The table outlives *)
(* the recipe run and the DUT.  There are two tables, one for the TIE      *)
(* muxes and one for the LTC2498 of the DUT; they differ in that the       *)
(* latter is reached over the DUT's UART.                                  *)
(*                                                                         *)
(* A scan is a number, the time at which it was made: a comparison with    *)
(* the wrong baseline shows as a wrong number.                             *)
(***************************************************************************)
EXTENDS Integers

CONSTANTS
  Names,        \* names that the steps of the recipes give
  SNAP_MAX,     \* MUX_SNAP_MAX and LTC_SNAP_MAX, 8 in the code
  MaxScans,     \* bound: snapshot steps, by scenario
  NoName,       \* of a slot that was never used
  TieScenarios  \* what may happen besides, each a set of
                \* "fail"   the ADC or the DUT may not answer
                \* "closed" the table is the LTC2498's; the UART may be closed
                \*          when a step begins
                \* "busy"   other tasks use the converter of the muxes (TieScan)

ASSUME SnapMaxAssumption == SNAP_MAX \in Nat \ {0}
ASSUME NamesAssumption == NoName \notin Names
ASSUME TieScenariosAssumption == TieScenarios \subseteq SUBSET {"fail", "closed", "busy"}

VARIABLES
  slots,     \* s_mux_snaps or s_ltc_snaps
  scanning,  \* the slot the current snapshot step fills, 0 between steps
  found,     \* what the last comparison compared with: a name and a scan
  latest,    \* history: for each name the scan of its last snapshot, 0 if that failed
  scans,     \* history: snapshot steps so far
  tieScenario  \* the one this behaviour is of

snapVars == <<slots, scanning, found, latest, scans, tieScenario>>

Slots == 1..SNAP_MAX
NotFound == [of |-> NoName, asked |-> NoName, mv |-> 0, latest |-> 0]

\* A slot's readings are those of scan mv, made under the name "of".
Unused == [name |-> NoName, valid |-> FALSE, mv |-> 0, of |-> NoName]

SnapInit ==
  /\ slots = [i \in Slots |-> Unused]
  /\ scanning = 0 /\ found = NotFound
  /\ latest = [n \in Names |-> 0] /\ scans = 0
  /\ tieScenario \in TieScenarios

-----------------------------------------------------------------------------
First(S) == CHOOSE i \in S : \A j \in S : i <= j

\* Mutation: only a free slot is taken.
TakesFree(n) == {i \in Slots : ~slots[i].valid}
\* The free slots, whatever they were called, and those of the name.
Takes(n) == {i \in Slots : ~slots[i].valid \/ slots[i].name = n}

Called(n) == {i \in Slots : slots[i].valid /\ slots[i].name = n}

\* Mutation: the slot stays valid while it is filled.
StaysValid(s, n) == [s EXCEPT !.name = n, !.valid = TRUE]
Claimed(s, n) == [s EXCEPT !.name = n, !.valid = FALSE]

Filled(s, scan) == [s EXCEPT !.valid = TRUE, !.mv = scan, !.of = s.name]

-----------------------------------------------------------------------------
\* run_mux_snapshot and run_ltc2498_snapshot up to the scan: the slot is
\* claimed, and not valid while it is filled.
BeginSnapshot(n) ==
  /\ scanning = 0 /\ scans < MaxScans[tieScenario] /\ Takes(n) # {}
  /\ slots' = [slots EXCEPT ![First(Takes(n))] = Claimed(@, n)]
  /\ scanning' = First(Takes(n)) /\ scans' = scans + 1
  /\ latest' = [latest EXCEPT ![n] = 0]
  /\ UNCHANGED <<found, tieScenario>>

TableFull(n) ==
  /\ scanning = 0 /\ scans < MaxScans[tieScenario] /\ Takes(n) = {}
  /\ latest' = [latest EXCEPT ![n] = 0] /\ scans' = scans + 1
  /\ UNCHANGED <<slots, scanning, found, tieScenario>>

\* run_ltc2498_snapshot without a UART returns before it looks at the table.
SnapshotRefused(n) ==
  /\ "closed" \in tieScenario /\ scanning = 0 /\ scans < MaxScans[tieScenario]
  /\ latest' = [latest EXCEPT ![n] = 0] /\ scans' = scans + 1
  /\ UNCHANGED <<slots, scanning, found, tieScenario>>

Scanned ==
  /\ scanning # 0
  /\ slots' = [slots EXCEPT ![scanning] = Filled(@, scans)]
  /\ latest' = [latest EXCEPT ![slots[scanning].name] = scans]
  /\ scanning' = 0
  /\ UNCHANGED <<found, scans, tieScenario>>

\* "ADC128 init failed", "PERIPHERAL_ADC_SCAN timeout": the step records no
\* check, and the slot stays invalid.
ScanFails ==
  /\ "fail" \in tieScenario /\ scanning # 0
  /\ scanning' = 0
  /\ UNCHANGED <<slots, found, latest, scans, tieScenario>>

\* run_mux_compare_snapshot and run_ltc2498_compare_snapshot.
CompareFinds(n) ==
  /\ scanning = 0 /\ Called(n) # {}
  /\ LET baseline == slots[First(Called(n))] IN
       found' = [of |-> baseline.of, asked |-> n, mv |-> baseline.mv, latest |-> latest[n]]
  /\ UNCHANGED <<slots, scanning, latest, scans, tieScenario>>

\* No snapshot of that name, no UART, no answer: the check fails.
CompareFails(n) ==
  /\ scanning = 0
  /\ Called(n) = {} \/ tieScenario \cap {"fail", "closed"} # {}
  /\ found' = NotFound
  /\ UNCHANGED <<slots, scanning, latest, scans, tieScenario>>

-----------------------------------------------------------------------------
(***************************************************************************)
(* Properties.                                                             *)
(***************************************************************************)

(***************************************************************************)
(* g3_primitives.c:959, "Used as a baseline before enabling a load; pair   *)
(* with mux_compare_snapshot": a comparison that finds a baseline finds    *)
(* the one that its latest snapshot step has taken, not an older one.      *)
(* (A failed scan frees a slot, the next name may take it a second time;   *)
(* one more failure, and its older slot is found.)                         *)
(***************************************************************************)
CompareUsesLatest ==
  "fail" \notin tieScenario /\ "closed" \notin tieScenario => found.mv = found.latest

(***************************************************************************)
(* "snap->valid = false" before the scan: whatever fails, and whatever     *)
(* name a slot had before, the readings that a comparison finds were       *)
(* scanned under the name it asks for.                                     *)
(***************************************************************************)
BaselineOfName == found.of = found.asked
=============================================================================
