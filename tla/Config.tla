------------------------------- MODULE Config -------------------------------
(***************************************************************************)
(* firmware/config: the versioned configuration in the NVS namespace       *)
(* "qesp", how quorumesp_config_init reads, migrates and completes it, and *)
(* the writes it does on the way.                                          *)
(*                                                                         *)
(* External, from how the code uses it: an nvs_set call is durable once it *)
(* returns, whether or not nvs_commit follows, and may fail on its own;    *)
(* the code looks at none of their results.                                *)
(***************************************************************************)
EXTENDS Naturals, Sequences

CONSTANTS Texts,          \* the texts a string key may hold
          Kconfig,        \* [ssid, pass, port] built into the image
          Mac,            \* the id fill_device_id derives
          Absent,         \* the value of a key that is not set
          WritesMayFail   \* may an nvs_set call fail?

ASSUME WritesMayFailAssumption == WritesMayFail \in BOOLEAN

VARIABLES nvs,        \* the namespace in flash
          origin,     \* history: the namespace as it was last provisioned
          s_cfg,      \* the configuration in RAM
          s_loaded,   \* is s_cfg complete?
          todo        \* the nvs_set calls config_init still has to make

configVars == <<nvs, origin, s_cfg, s_loaded, todo>>

Version == 1
DefaultPort == 5403
DefaultHost == "quorumesp"

ASSUME TextsAssumption == {"", DefaultHost} \subseteq Texts
ASSUME KconfigAssumption ==
    Kconfig \in [ssid : Texts, pass : Texts, port : Nat]
ASSUME MacAssumption == Mac \in Texts /\ Mac # ""
ASSUME AbsentAssumption == Absent \notin Texts /\ Absent \notin Nat

(* "ip" stands for ip, msk, gw, dns1 and dns2: read together, never written. *)
StrKeys == {"host", "wssid", "wpass", "devid"}
NumKeys == {"ver", "netmode", "ip", "logl", "qdport"}

Namespace == [ver : Nat \cup {Absent}, host : Texts \cup {Absent},
              wssid : Texts \cup {Absent}, wpass : Texts \cup {Absent},
              netmode : Nat \cup {Absent}, ip : Nat \cup {Absent},
              devid : Texts \cup {Absent}, logl : Nat \cup {Absent},
              qdport : Nat \cup {Absent}]

Erased == [k \in StrKeys \cup NumKeys |-> Absent]

Cfg == [host : Texts, ssid : Texts, pass : Texts, static : {0, 1},
        ip : Nat, devid : Texts, logl : Nat, port : Nat]

(* s_cfg before config_init: zeroed memory. *)
ZeroCfg == [host |-> "", ssid |-> "", pass |-> "", static |-> 0, ip |-> 0,
            devid |-> "", logl |-> 0, port |-> 0]

-----------------------------------------------------------------------------
(* qesp_config_defaults *)
Defaults(ssid, pass, port) ==
    [host |-> DefaultHost, ssid |-> ssid, pass |-> pass, static |-> 0, ip |-> 0,
     devid |-> "", logl |-> 3, port |-> IF port # 0 THEN port ELSE DefaultPort]

KconfigDefaults == Defaults(Kconfig.ssid, Kconfig.pass, Kconfig.port)

(* nvs_get_str through load_str, nvs_get_u8, u16 and u32: d if not set.    *)
LoadStr(n, k) == IF n[k] = Absent THEN "" ELSE n[k]
LoadNum(n, k, d) == IF n[k] = Absent THEN d ELSE n[k]

HasVer(n) == n.ver # Absent
FromVersion(n) == LoadNum(n, "ver", 0)

FreshUnlessVersioned(n) == ~HasVer(n)

(* Only a namespace without version and credentials gets the full defaults. *)
Fresh(n) == ~HasVer(n) /\ LoadStr(n, "wssid") = "" /\ LoadStr(n, "wpass") = ""

LoadedUnchecked(n) ==
    [host   |-> LoadStr(n, "host"), ssid |-> LoadStr(n, "wssid"),
     pass   |-> LoadStr(n, "wpass"), static |-> LoadNum(n, "netmode", 0),
     ip     |-> LoadNum(n, "ip", 0), devid |-> LoadStr(n, "devid"),
     logl   |-> LoadNum(n, "logl", 3), port |-> LoadNum(n, "qdport", DefaultPort)]

LoadedNoPort(n) ==
    [host   |-> LoadStr(n, "host"), ssid |-> LoadStr(n, "wssid"),
     pass   |-> LoadStr(n, "wpass"),
     static |-> IF LoadNum(n, "netmode", 0) = 0 THEN 0 ELSE 1,
     ip     |-> LoadNum(n, "ip", 0), devid |-> LoadStr(n, "devid"),
     logl   |-> LoadNum(n, "logl", 3), port |-> LoadNum(n, "qdport", 0)]

(* Every key that config_init reads, out-of-range values replaced. *)
Loaded(n) ==
    [host   |-> LoadStr(n, "host"),
     ssid   |-> LoadStr(n, "wssid"),
     pass   |-> LoadStr(n, "wpass"),
     static |-> IF LoadNum(n, "netmode", 0) = 0 THEN 0 ELSE 1,
     ip     |-> LoadNum(n, "ip", 0),
     devid  |-> LoadStr(n, "devid"),
     logl   |-> IF LoadNum(n, "logl", 3) <= 5 THEN LoadNum(n, "logl", 3) ELSE 3,
     port   |-> IF LoadNum(n, "qdport", 0) # 0 THEN LoadNum(n, "qdport", 0)
                                               ELSE DefaultPort]

(* qesp_config_migrate: any version but 0 and the current one is refused;  *)
(* version 0 keeps the credentials and the port.                           *)
Readable(n) == FromVersion(n) \in {0, Version}

Migrated(n) ==
    LET c == Loaded(n)
    IN  IF FromVersion(n) = Version THEN c ELSE Defaults(c.ssid, c.pass, c.port)

(* fill_device_id, and the host name config_init falls back to. *)
Completed(c) ==
    [c EXCEPT !.devid = IF @ = "" THEN Mac ELSE @,
              !.host = IF @ = "" THEN DefaultHost ELSE @]

(* The configuration quorumesp_config_init arrives at from namespace n. *)
Outcome(n) ==
    IF Fresh(n) \/ ~Readable(n) THEN Completed(KconfigDefaults)
                                ELSE Completed(Migrated(n))

(* The nvs_set calls it makes for a fresh namespace, in order ... *)
FreshWrites ==
    LET c == Completed(KconfigDefaults)
    IN  << <<"ver", Version>>, <<"host", c.host>>, <<"wssid", c.ssid>>,
           <<"wpass", c.pass>>, <<"netmode", c.static>>, <<"devid", c.devid>>,
           <<"logl", c.logl>>, <<"qdport", c.port>> >>

(* ... and for one it has migrated, before the device id is filled in.     *)
MigrationWrites(n) ==
    LET c == Migrated(n)
    IN  << <<"ver", Version>>, <<"host", c.host>>, <<"netmode", c.static>>,
           <<"devid", c.devid>>, <<"logl", c.logl>>, <<"qdport", c.port>> >>

Writes(n) == IF Fresh(n) THEN FreshWrites
             ELSE IF Readable(n) /\ n.ver # Version THEN MigrationWrites(n)
             ELSE <<>>

(* quorumesp_config_get_wifi: the namespace first, then the image.  An     *)
(* empty SSID means there are no credentials.                              *)
Credentials(c) ==
    IF c.ssid # "" THEN [ssid |-> c.ssid, pass |-> c.pass]
                   ELSE [ssid |-> Kconfig.ssid, pass |-> Kconfig.pass]

(* What the rest of the firmware sees of a configuration: network_wifi_    *)
(* connect uses a static address only when one is set.                     *)
Effective(c) ==
    [host |-> c.host, devid |-> c.devid, logl |-> c.logl, port |-> c.port,
     wifi |-> Credentials(c),
     ip |-> IF c.static = 1 THEN c.ip ELSE 0]

-----------------------------------------------------------------------------
ConfigInit(namespaces) ==
    /\ nvs \in namespaces
    /\ origin = nvs
    /\ s_cfg = ZeroCfg
    /\ s_loaded = FALSE
    /\ todo = <<>>

(* quorumesp_config_init when nvs_open fails: nothing is read or written,  *)
(* and the device id stays empty.                                          *)
ConfigOpenFails ==
    /\ s_cfg' = KconfigDefaults
    /\ s_loaded' = TRUE
    /\ UNCHANGED <<nvs, origin, todo>>

(* quorumesp_config_init up to its first nvs_set. *)
ConfigRead ==
    /\ s_cfg' = Outcome(nvs)
    /\ todo' = Writes(nvs)
    /\ UNCHANGED <<nvs, origin, s_loaded>>

(* One nvs_set call. *)
ConfigWrite ==
    /\ todo # <<>>
    /\ todo' = Tail(todo)
    /\ \/ nvs' = [nvs EXCEPT ![Head(todo)[1]] = Head(todo)[2]]
       \/ WritesMayFail /\ UNCHANGED nvs
    /\ UNCHANGED <<origin, s_cfg, s_loaded>>

(* The end of quorumesp_config_init. *)
ConfigDone ==
    /\ todo = <<>>
    /\ s_loaded' = TRUE
    /\ UNCHANGED <<nvs, origin, s_cfg, todo>>

(* The namespace n is put in place of what is there: the operator flashes  *)
(* it, quorumesp_config_factory_reset or init_nvs erase it.                *)
Replace(n) == nvs' = n /\ origin' = n

(* A reset keeps the flash and nothing else. *)
ConfigReset ==
    /\ s_cfg' = ZeroCfg
    /\ s_loaded' = FALSE
    /\ todo' = <<>>

-----------------------------------------------------------------------------
ConfigTypeOK ==
    /\ nvs \in Namespace
    /\ origin \in Namespace
    /\ s_cfg \in Cfg
    /\ s_loaded \in BOOLEAN
    /\ todo \in Seq((StrKeys \X Texts) \cup (NumKeys \X Nat))

(* What a reset in the middle of config_init leaves behind makes no        *)
(* difference: the next boot arrives at the configuration that an          *)
(* undisturbed boot of the provisioned namespace gives ("reset, clean boot *)
(* (no half-state)", docs/failure-matrix.md).  The code keeps it for some  *)
(* namespaces only.                                                        *)
NoHalfState == Effective(Outcome(nvs)) = Effective(Outcome(origin))

(* Provisioned by the steps of docs/provisioning.md: credentials at most.  *)
CredentialsOnly(n) ==
    \A k \in DOMAIN n \ {"wssid", "wpass"} : n[k] = Absent

(* Written by a firmware that knows versions. *)
Versioned(n) == n.ver \notin {Absent, 0}

(* Whenever the device is reset, and whichever writes of config_init fail, *)
(* a namespace that held credentials at most, or a version, gives the      *)
(* configuration of an undisturbed first boot: no half-written             *)
(* configuration, although the version key is written before all others    *)
(* (quorumesp_config_init).                                                *)
BootsRepeatable ==
    CredentialsOnly(origin) \/ Versioned(origin) => NoHalfState

(* Credentials somebody provisioned are never touched, and a namespace of  *)
(* a newer firmware is left exactly as it is, over any number of boots,    *)
(* resets and migrations: going back to the newer image finds it again     *)
(* (quorumesp_config_init, qesp_config_migrate).                           *)
ProvisionedKept ==
    /\ origin.wssid # Absent =>
          nvs.wssid = origin.wssid /\ nvs.wpass = origin.wpass
    /\ ~Readable(origin) => nvs = origin
=============================================================================
