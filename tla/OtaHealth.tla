----------------------------- MODULE OtaHealth -----------------------------
(***************************************************************************)
(* The health check of src/src/main.cpp: a new firmware image has          *)
(* OTA_HEALTH_TIMEOUT_S to see WiFi and MQTT, or the previous image is     *)
(* started again.                                                          *)
(*                                                                         *)
(* The slots, their states and the bootloader are of the ESP-IDF, with     *)
(* CONFIG_BOOTLOADER_APP_ROLLBACK_ENABLE: it starts the selected image, a  *)
(* new one as pending, and after a reset does not start a pending one      *)
(* again, but the other one or, without one, the factory image.  The       *)
(* update itself is in the common submodule: it writes the other slot,     *)
(* selects it and restarts, if the running image is not on trial.          *)
(***************************************************************************)
EXTENDS Naturals, FiniteSets

CONSTANTS
  Slots,       \* the two OTA partitions
  Factory,     \* the one flashed over USB (partitions_ota.csv)
  Timeout,     \* OTA_HEALTH_TIMEOUT_S, in rounds of the loop
  MaxUpdates   \* bound: the images that are written

ASSUME OtaAssumption == Cardinality(Slots) = 2 /\ Factory \notin Slots /\ Timeout \in Nat

VARIABLES
  state,               \* otadata: the state of each slot
  selected,            \* otadata: the slot that is started
  running,             \* esp_ota_get_running_partition
  hc,                  \* where ota_health_check_task is
  wifi_ok, mqtt_ok,    \* its variables
  rounds,              \* what is left until the deadline
  wifi, mqtt,          \* esp_wifi_sta_get_ap_info and tc_mqtt_connected
  lbb_only,            \* there is no broker, only USB
  updates,             \* how many images have been written
  seen                 \* history: what has been up since the running image started

otaVars == <<state, selected, running, hc, wifi_ok, mqtt_ok, rounds, wifi, mqtt, lbb_only, updates, seen>>
otadata == <<state, selected, running>>
env == <<wifi, mqtt, lbb_only, updates, seen>>

Up(w, m) == {l \in {"wifi", "mqtt"} : (l = "wifi" /\ w) \/ (l = "mqtt" /\ m)}

Images == Slots \cup {Factory}

\* A new controller: there is the factory image only.
OtaInit ==
  /\ selected = Factory /\ running = Factory
  /\ state = [s \in Images |-> IF s = Factory THEN "valid" ELSE "empty"]
  /\ hc = "none" /\ wifi_ok = FALSE /\ mqtt_ok = FALSE /\ rounds = 0
  /\ wifi = FALSE /\ mqtt = FALSE /\ lbb_only \in BOOLEAN
  /\ updates = 0 /\ seen = {}

Other(s) == CHOOSE t \in Slots : t # s

-----------------------------------------------------------------------------
(***************************************************************************)
(* A reset, with the states st and the selection sel.                      *)
(***************************************************************************)
Starts(st, sel) ==
  LET gone == [s \in Images |-> IF st[s] = "pending" THEN "aborted" ELSE st[s]]
      Starting(s) == gone[s] \in {"new", "valid"}
      s == CASE Starting(sel) -> sel [] Starting(Other(sel)) -> Other(sel) [] OTHER -> Factory
  IN  /\ running' = s /\ selected' = s
      /\ state' = [gone EXCEPT ![s] = IF @ = "new" THEN "pending" ELSE @]
      /\ hc' = "none" /\ wifi_ok' = FALSE /\ mqtt_ok' = FALSE /\ rounds' = 0
      /\ wifi' = FALSE /\ mqtt' = FALSE /\ seen' = {}
      /\ UNCHANGED lbb_only

OtaReset == Starts(state, selected) /\ UNCHANGED updates

Update ==
  /\ updates < MaxUpdates /\ updates' = updates + 1
  /\ state[running] = "valid"
  /\ Starts([state EXCEPT ![Other(running)] = "new"], Other(running))

\* WiFi and the connection to the broker come and go.  (Bound: as long as
\* there is an image on trial and a health check that looks at them.)
LinksChange ==
  /\ state[running] = "pending" /\ hc \notin {"off", "missing"}
  /\ \E w, m \in BOOLEAN :
       /\ <<w, m>> # <<wifi, mqtt>>
       /\ wifi' = w /\ mqtt' = m
       /\ seen' = seen \cup Up(w, m)
  /\ UNCHANGED <<otadata, hc, wifi_ok, mqtt_ok, rounds, lbb_only, updates>>

-----------------------------------------------------------------------------
(***************************************************************************)
(* ota_health_check_task.                                                  *)
(***************************************************************************)
mark_app_valid == state' = [state EXCEPT ![running] = "valid"] /\ UNCHANGED <<selected, running>>

\* xTaskCreate at the end of app_main; nobody looks at its result.
TaskCreated ==
  /\ hc = "none" /\ hc' \in {"start", "missing"}
  /\ UNCHANGED <<otadata, wifi_ok, mqtt_ok, rounds, env>>

\* Mutation: a valid image is checked again.
PendingOrValid == TRUE
Pending == state[running] = "pending"

HealthStarts ==
  /\ hc = "start"
  /\ \/ ~Pending /\ hc' = "off" /\ UNCHANGED <<otadata, rounds>>
     \/ Pending /\ lbb_only /\ hc' = "off" /\ mark_app_valid /\ UNCHANGED rounds
     \/ Pending /\ ~lbb_only /\ hc' = "wifi" /\ rounds' = Timeout /\ UNCHANGED otadata
  /\ UNCHANGED <<wifi_ok, mqtt_ok, env>>

Expired == rounds = 0

ChecksWifi ==
  /\ hc = "wifi" /\ ~Expired
  /\ wifi_ok' = (wifi_ok \/ wifi)
  /\ hc' = "mqtt"
  /\ UNCHANGED <<otadata, mqtt_ok, rounds, env>>

\* Mutation: the time is not counted.
ChecksForever ==
  /\ hc = "mqtt"
  /\ mqtt_ok' = (mqtt_ok \/ mqtt)
  /\ hc' = IF wifi_ok /\ mqtt_ok' THEN "decide" ELSE "wifi"
  /\ UNCHANGED <<otadata, wifi_ok, rounds, env>>
ChecksMqtt ==
  /\ hc = "mqtt"
  /\ mqtt_ok' = (mqtt_ok \/ mqtt)
  /\ IF wifi_ok /\ mqtt_ok' THEN hc' = "decide" /\ UNCHANGED rounds
     ELSE hc' = "wifi" /\ rounds' = rounds - 1
  /\ UNCHANGED <<otadata, wifi_ok, env>>

TimesOut ==
  /\ hc = "wifi" /\ Expired /\ hc' = "decide"
  /\ UNCHANGED <<otadata, wifi_ok, mqtt_ok, rounds, env>>

\* Mutation: one of the two is enough.
HealthyIfOne == wifi_ok \/ mqtt_ok
Healthy == wifi_ok /\ mqtt_ok

Passes ==
  /\ hc = "decide" /\ Healthy
  /\ mark_app_valid /\ hc' = "off"
  /\ UNCHANGED <<wifi_ok, mqtt_ok, rounds, env>>

\* esp_ota_mark_app_invalid_rollback_and_reboot "does not return": there is
\* always the factory image to go back to.
RollsBack ==
  /\ hc = "decide" /\ ~Healthy
  /\ Starts([state EXCEPT ![running] = "invalid"], Other(running))
  /\ UNCHANGED updates

HealthNext == HealthStarts \/ ChecksWifi \/ ChecksMqtt \/ TimesOut \/ Passes

-----------------------------------------------------------------------------
(***************************************************************************)
(* An image the health check has let pass has seen WiFi and MQTT up since  *)
(* it was started, both of them though not at once (main.cpp:59), or there *)
(* is no broker.                                                           *)
(***************************************************************************)
ValidWasUp ==
  [][\A s \in Images : state[s] # "valid" /\ state'[s] = "valid" =>
       lbb_only \/ seen = {"wifi", "mqtt"}]_otaVars

(***************************************************************************)
(* An image that is known to be good is not given up (main.cpp:76-82):     *)
(* once the trial is over, a controller that is started without a network, *)
(* or crashes, keeps its firmware until an update overwrites the slot.     *)
(***************************************************************************)
GoodStays ==
  [][\A s \in Images : state[s] = "valid" => state'[s] = "valid" \/ updates' > updates]_otaVars

(***************************************************************************)
(* main.cpp:64-66: an image on trial is marked valid or given up, if the   *)
(* task that does it could be created.  Otherwise the trial lasts until    *)
(* the next reset, which gives the image up.                               *)
(***************************************************************************)
TrialEnds == \A s \in Images : state[s] = "pending" ~> state[s] # "pending" \/ hc = "missing"
=============================================================================
