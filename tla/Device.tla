------------------------------- MODULE Device -------------------------------
(***************************************************************************)
(* firmware/main/main.c: app_main brings up flash, configuration, Wi-Fi,   *)
(* clock, TLS, the qnetd server and the web UI, in that order, while the   *)
(* Wi-Fi event handler runs beside it and the device may be reset.         *)
(*                                                                         *)
(* Composes Config and Wifi.                                               *)
(***************************************************************************)
EXTENDS Config, Wifi

CONSTANTS Namespaces,   \* what an operator may flash into the namespace
          MaxFaults     \* bound: resets, reflashes and flash failures

ASSUME NamespacesAssumption == Namespaces \subseteq Namespace
ASSUME MaxFaultsAssumption == MaxFaults \in Nat

VARIABLES pc,       \* where app_main is
          nvs_up,   \* did nvs_flash_init succeed?
          faults    \* faults still to come

vars == <<configVars, wifiVars, pc, nvs_up, faults>>

Init ==
    /\ ConfigInit(Namespaces)
    /\ WifiInit
    /\ pc = "nvs"
    /\ nvs_up = FALSE
    /\ faults = MaxFaults

At(step, next) == pc = step /\ pc' = next

(* Bound: each fault is one of MaxFaults. *)
Fault == faults > 0 /\ faults' = faults - 1

-----------------------------------------------------------------------------
(* init_nvs *)

NvsInit ==
    /\ At("nvs", "config")
    /\ nvs_up' = TRUE
    /\ UNCHANGED <<configVars, wifiVars, faults>>

(* No free pages or an unknown format: the whole partition is erased. *)
NvsInitErases ==
    /\ At("nvs", "config")
    /\ Fault
    /\ nvs_up' = TRUE
    /\ Replace(Erased)
    /\ UNCHANGED <<s_cfg, s_loaded, todo, wifiVars>>

(* Any other failure is logged; nvs_open will fail too. *)
NvsInitFails ==
    /\ At("nvs", "config")
    /\ Fault
    /\ UNCHANGED <<nvs_up, configVars, wifiVars>>

(* quorumesp_config_init *)

BootConfigFails ==
    /\ At("config", "wifi")
    /\ ~nvs_up
    /\ ConfigOpenFails
    /\ UNCHANGED <<nvs_up, wifiVars, faults>>

BootConfigRead ==
    /\ At("config", "config_write")
    /\ nvs_up
    /\ ConfigRead
    /\ UNCHANGED <<nvs_up, wifiVars, faults>>

BootConfigWrite ==
    /\ pc = "config_write"
    /\ ConfigWrite
    /\ UNCHANGED <<pc, nvs_up, wifiVars, faults>>

BootConfigDone ==
    /\ At("config_write", "wifi")
    /\ ConfigDone
    /\ UNCHANGED <<nvs_up, wifiVars, faults>>

(* network_wifi_connect *)

BootNoCredentials ==
    /\ At("wifi", "halted")
    /\ Credentials(s_cfg).ssid = ""
    /\ UNCHANGED <<nvs_up, configVars, wifiVars, faults>>

BootWifi ==
    /\ At("wifi", "wait")
    /\ Credentials(s_cfg).ssid # ""
    /\ WifiStart
    /\ UNCHANGED <<nvs_up, configVars, faults>>

(* The network stack or the driver cannot be set up. *)
BootWifiFails ==
    /\ At("wifi", "halted")
    /\ Credentials(s_cfg).ssid # ""
    /\ Fault
    /\ UNCHANGED <<nvs_up, configVars, wifiVars>>

BootWifiUp ==
    /\ At("wait", "time")
    /\ "GOT_IP" \in bits
    /\ UNCHANGED <<nvs_up, configVars, wifiVars, faults>>

BootWifiGaveUp ==
    /\ At("wait", "halted")
    /\ bits = {"FAIL"}
    /\ UNCHANGED <<nvs_up, configVars, wifiVars, faults>>

(* network_time_sync and network_tls_init: a failure is only logged. *)
BootTime ==
    /\ At("time", "tls")
    /\ UNCHANGED <<nvs_up, configVars, wifiVars, faults>>

BootTls ==
    /\ At("tls", "server")
    /\ UNCHANGED <<nvs_up, configVars, wifiVars, faults>>

(* qdevice_server_start: no memory for the mutex or the task ends the boot. *)
BootServer ==
    /\ At("server", "web")
    /\ UNCHANGED <<nvs_up, configVars, wifiVars, faults>>

BootServerFails ==
    /\ At("server", "halted")
    /\ Fault
    /\ UNCHANGED <<nvs_up, configVars, wifiVars>>

(* web_api_init: a failure is only logged. *)
BootWeb ==
    /\ At("web", "up")
    /\ UNCHANGED <<nvs_up, configVars, wifiVars, faults>>

AppMain ==
    \/ NvsInit \/ NvsInitErases \/ NvsInitFails
    \/ BootConfigFails \/ BootConfigRead \/ BootConfigWrite \/ BootConfigDone
    \/ BootNoCredentials \/ BootWifi \/ BootWifiFails
    \/ BootWifiUp \/ BootWifiGaveUp
    \/ BootTime \/ BootTls \/ BootServer \/ BootServerFails \/ BootWeb

-----------------------------------------------------------------------------
(* The world around the device *)

WifiEvent == Handler /\ UNCHANGED <<configVars, pc, nvs_up, faults>>

Driver ==
    /\ AttemptFails \/ Associates \/ GetsLease \/ LinkDrops \/ AccessPoint
    /\ UNCHANGED <<configVars, pc, nvs_up, faults>>

(* Power loss, brownout, watchdog or the reset button, at any point. *)
Reset ==
    /\ Fault
    /\ pc' = "nvs"
    /\ nvs_up' = FALSE
    /\ ConfigReset
    /\ WifiReset
    /\ UNCHANGED <<nvs, origin>>

(* The operator flashes a namespace over USB: the device is reset. *)
Provision(n) ==
    /\ Fault
    /\ pc' = "nvs"
    /\ nvs_up' = FALSE
    /\ ConfigReset
    /\ WifiReset
    /\ Replace(n)

(* quorumesp_config_factory_reset: s_cfg stays until the next boot. *)
FactoryReset ==
    /\ Fault
    /\ s_loaded /\ nvs_up
    /\ Replace(Erased)
    /\ UNCHANGED <<s_cfg, s_loaded, todo, wifiVars, pc, nvs_up>>

Next ==
    \/ AppMain
    \/ WifiEvent
    \/ Driver
    \/ Reset
    \/ \E n \in Namespaces : Provision(n)
    \/ FactoryReset

(* app_main and the event loop run, an attempt ends one way or the other,  *)
(* and the driver notices an access point that is gone.  Nothing makes an  *)
(* access point hand out an address.                                       *)
Step(A) == A /\ UNCHANGED <<configVars, pc, nvs_up, faults>>

Fairness ==
    /\ WF_vars(AppMain)
    /\ WF_vars(WifiEvent)
    /\ WF_vars(Step(AttemptFails \/ Associates))
    /\ WF_vars(Step(LinkDrops /\ ~ap))

Spec == Init /\ [][Next]_vars /\ Fairness

-----------------------------------------------------------------------------
TypeOK ==
    /\ ConfigTypeOK
    /\ WifiTypeOK
    /\ pc \in {"nvs", "config", "config_write", "wifi", "wait", "time", "tls",
               "server", "web", "up", "halted"}
    /\ nvs_up \in BOOLEAN
    /\ faults \in 0 .. MaxFaults

(* app_main has brought the server up or has given up, once no more faults *)
(* come: "bounded retries, then boot fails loudly" (s_boot_done, wifi.c).  *)
(* The code does not keep it: an access point that accepts the station and *)
(* gives no address keeps network_wifi_connect waiting.                    *)
BootAlwaysEnds == <>[](pc \in {"up", "halted"})

(* It does so for every access point that, once it has accepted the        *)
(* station, gives it an address or drops it again, in whatever order the   *)
(* events of the attempts come (ev_handler, network_wifi_connect).         *)
BootEnds == []<>(link # "associated") => BootAlwaysEnds

(* An access point that accepts a station that keeps trying, and gives it  *)
(* an address.                                                             *)
Willing ==
    /\ <>[]ap
    /\ SF_vars(Step(Associates))
    /\ SF_vars(Step(GetsLease))

(* If such an access point stays, a device that has had an address gets    *)
(* its link back, however often it was lost before (unbounded retries      *)
(* after the first address, ev_handler).                                   *)
Recovers == Willing => []<>(~s_boot_done \/ link = "up")
=============================================================================
