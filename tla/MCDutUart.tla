----------------------------- MODULE MCDutUart ------------------------------
(***************************************************************************)
(* The programs of the runs of DutUart: the steps of the repository's      *)
(* recipes that use the port, and the console's commands.                  *)
(***************************************************************************)
EXTENDS DutUart

\* g3-mb-v2.json and g3-cn7-shorting-test.json.
MbV2 == <<"read_id", "power_on", "enter", "version", "hw_rev", "pc5_high", "adc_read", "exit", "power_off">>
Branches == <<"power_on", "enter", "pc5_high", "branch_test", "button_test", "gpio_clear", "exit", "power_off">>
Cn7 == <<"power_on", "enter", "hw_rev">>

\* selftest dut_version on a powered DUT, selftest all, dut raw.
DutVersion == <<"power_on", "enter", "version", "exit", "power_off">>
SelftestAll == <<"fixture">>
DutRaw == <<"raw">>

\* Recipes that exit with console sessions; recipes that do not with dut raw;
\* every recipe with selftest all.
MCRecipes == [s \in Scenarios |->
  CASE "overlap" \notin s -> {MbV2, Branches} [] "late" \in s -> {Cn7} [] OTHER -> {MbV2, Cn7}]
MCCommands == [s \in Scenarios |->
  CASE "overlap" \notin s -> {DutVersion, SelftestAll} [] "late" \in s -> {DutRaw} [] OTHER -> {SelftestAll}]
=============================================================================
