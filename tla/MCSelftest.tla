----------------------------- MODULE MCSelftest -----------------------------
(***************************************************************************)
(* What the tasks of Selftest run one after another: the quick selftest, a *)
(* short fixture recipe and single primitives, and recipes whose steps     *)
(* report and record, only record or do nothing, with more checks than the *)
(* buffer holds; and shorter plans for tasks that overlap.                 *)
(***************************************************************************)
EXTENDS Selftest

I2c   == <<"i2c", "adc128">>
Wifi  == <<"wifi">>
Mux   == <<"mux">>
Power == <<"power_v", "power_i">>
Gpio  == <<"gpio">>
Exit  == <<>>                       \* dut_exit_test when the port is closed

InTurn == [console    |-> {<<I2c, Wifi, Mux>>, <<Wifi>>},
           dcmd       |-> {<<I2c, Wifi>>},
           diagnostic |-> {<<Mux>>},
           sm         |-> {<<I2c, Wifi>>},
           recipe     |-> {<<I2c, Power, Wifi, Gpio>>, <<Wifi, Power, I2c, Exit>>,
                           <<Gpio, Mux, Power, I2c>>}]

AtOnce == [console    |-> {<<Wifi>>},
           dcmd       |-> {<<Wifi>>},
           diagnostic |-> {<<Mux>>},
           sm         |-> {<<I2c>>},
           recipe     |-> {<<Wifi, Gpio>>}]

MCPlans == [s \in Scenarios |-> IF "overlap" \in s THEN AtOnce ELSE InTurn]

MCSilent == {"adc128", "mux"}
MCUnreported == {"power_v", "power_i", "gpio"}
=============================================================================
