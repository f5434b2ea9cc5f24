---------------------------- MODULE DeviceProofs ----------------------------
(***************************************************************************)
(* Device, for any number of retries, resets and reflashes: the Wi-Fi      *)
(* handler never abandons the network and never claims an address it has   *)
(* lost; the configuration in flash survives boots that are cut short.     *)
(***************************************************************************)
EXTENDS Device, SequenceTheorems, TLAPS

-----------------------------------------------------------------------------
(* The link.  The driver posts an event only when the handler has started  *)
(* an attempt, so the queue holds what happened since: nothing, an address *)
(* not yet noticed, a loss not yet noticed, or both in this order.         *)

Early == {"nvs", "config", "config_write", "wifi"}

Kinds == {"START", "GOT_IP", "DISCONNECTED"}

Waiting(n) == events \in Seq(Kinds) /\ Len(events) = n

LinkQueue ==
    \/ /\ link \in {"connecting", "associated"} /\ ~s_ip
       /\ Waiting(0)
    \/ link = "up" /\ Waiting(0)
    \/ link = "up" /\ Waiting(1) /\ events[1] = "GOT_IP"
    \/ link = "off" /\ Waiting(0) /\ ~s_boot_done /\ ~s_ip
    \/ link = "off" /\ Waiting(1) /\ events[1] = "START" /\ ~s_boot_done /\ ~s_ip
    \/ link = "off" /\ Waiting(1) /\ events[1] = "DISCONNECTED"
    \/ /\ link = "off" /\ Waiting(2)
       /\ events[1] = "GOT_IP" /\ events[2] = "DISCONNECTED"

LinkInv ==
    /\ s_boot_done \in BOOLEAN /\ s_ip \in BOOLEAN
    /\ pc \in Early => /\ link = "off" /\ Waiting(0) /\ bits = {}
                       /\ ~s_boot_done /\ ~s_ip
    /\ LinkQueue
    /\ s_ip => s_boot_done
    /\ "GOT_IP" \in bits => s_boot_done
    /\ "FAIL" \in bits => link = "off" /\ Waiting(0) /\ "GOT_IP" \notin bits

(* What posting and handling do to a queue. *)
LEMMA Empty == <<>> \in Seq(Kinds) /\ Len(<<>>) = 0
OBVIOUS

LEMMA Posted ==
    ASSUME NEW e \in Kinds,
           events \in Seq(Kinds), Post(e)
    PROVE  /\ events' \in Seq(Kinds)
           /\ Len(events') = Len(events) + 1
           /\ events'[Len(events) + 1] = e
           /\ \A k \in 1 .. Len(events) : events'[k] = events[k]
BY AppendProperties DEF Post

LEMMA Handled ==
    ASSUME NEW e, events \in Seq(Kinds), Handle(e)
    PROVE  /\ events' \in Seq(Kinds)
           /\ Len(events) \in Nat /\ Len(events) > 0
           /\ Len(events') = Len(events) - 1
           /\ events[1] = e
           /\ \A k \in 1 .. Len(events) - 1 : events'[k] = events[k + 1]
BY HeadTailProperties DEF Handle

LEMMA LinkInit == Init => LinkInv
BY Empty DEF Init, WifiInit, LinkInv, LinkQueue, Waiting, Kinds, Early

(* Steps of the driver and of ev_handler. *)
LEMMA LinkWifi ==
    ASSUME LinkInv, WifiEvent \/ Driver
    PROVE  LinkInv'
<1> USE DEF LinkInv, LinkQueue, Waiting, Early
<1>1. events \in Seq(Kinds)
  OBVIOUS
<1>2. CASE WifiEvent
  <2>1. UNCHANGED pc
    BY <1>2 DEF WifiEvent
  <2>2. CASE HandleStart
    <3>1. Handle("START")  BY <2>2 DEF HandleStart
    <3>2. QED  BY <1>1, <2>1, <2>2, <3>1, Handled DEF HandleStart
  <2>3. CASE LinkLost
    <3>1. Handle("DISCONNECTED")  BY <2>3 DEF LinkLost
    <3>2. Len(events) = 1 /\ Len(events) > 0 /\ Waiting(0)'
      BY <1>1, <3>1, Handled
    <3>3. /\ s_boot_done /\ s_boot_done' = s_boot_done /\ s_ip' = FALSE
          /\ link' = "connecting" /\ bits' = bits
      BY <2>3 DEF LinkLost
    <3>4. "FAIL" \notin bits /\ pc \notin Early
      BY <3>2, <3>3
    <3>5. QED
      BY <2>1, <3>2, <3>3, <3>4
  <2>4. CASE BootRetry
    <3>1. Handle("DISCONNECTED")  BY <2>4 DEF BootRetry
    <3>2. QED  BY <1>1, <2>1, <2>4, <3>1, Handled DEF BootRetry
  <2>5. CASE GiveUp
    <3>1. Handle("DISCONNECTED")  BY <2>5 DEF GiveUp
    <3>2. QED  BY <1>1, <2>1, <2>5, <3>1, Handled DEF GiveUp
  <2>6. CASE GotIp
    <3>1. Handle("GOT_IP")  BY <2>6 DEF GotIp
    <3>2. Len(events) > 0 /\ "FAIL" \notin bits /\ pc \notin Early
      BY <1>1, <3>1, Handled
    <3>3. CASE link = "up" /\ Len(events) = 1
      <4>1. Waiting(0)'
        BY <1>1, <3>1, <3>3, Handled
      <4>2. QED
        BY <2>1, <2>6, <3>2, <3>3, <4>1 DEF GotIp
    <3>4. CASE link = "off" /\ Len(events) = 2 /\ events[2] = "DISCONNECTED"
      <4>1. Waiting(1)' /\ events'[1] = "DISCONNECTED"
        BY <1>1, <3>1, <3>4, Handled
      <4>2. QED
        BY <2>1, <2>6, <3>2, <3>4, <4>1 DEF GotIp
    <3>5. QED
      BY <1>1, <3>1, <3>3, <3>4, Handled
  <2>7. QED
    BY <1>2, <2>2, <2>3, <2>4, <2>5, <2>6 DEF WifiEvent, Handler
<1>3. CASE Driver
  <2>1. UNCHANGED pc
    BY <1>3 DEF Driver
  <2>2. CASE AttemptFails
    <3>1. "DISCONNECTED" \in Kinds /\ Post("DISCONNECTED")  BY <2>2 DEF Kinds, AttemptFails
    <3>2. QED  BY <1>1, <2>1, <2>2, <3>1, Posted DEF AttemptFails
  <2>3. CASE Associates
    BY <2>1, <2>3 DEF Associates
  <2>4. CASE GetsLease
    <3>1. "GOT_IP" \in Kinds /\ Post("GOT_IP")  BY <2>4 DEF Kinds, GetsLease
    <3>2. QED  BY <1>1, <2>1, <2>4, <3>1, Posted DEF GetsLease
  <2>5. CASE LinkDrops
    <3>1. "DISCONNECTED" \in Kinds /\ Post("DISCONNECTED")  BY <2>5 DEF Kinds, LinkDrops
    <3>2. CASE Len(events) = 0
      <4>1. Waiting(1)' /\ events'[1] = "DISCONNECTED"
        BY <1>1, <3>1, <3>2, Posted
      <4>2. QED
        BY <2>1, <2>5, <3>2, <4>1 DEF LinkDrops
    <3>3. CASE Len(events) = 1 /\ events[1] = "GOT_IP"
      <4>1. /\ Waiting(2)'
            /\ events'[1] = "GOT_IP" /\ events'[2] = "DISCONNECTED"
        BY <1>1, <3>1, <3>3, Posted
      <4>2. QED
        BY <2>1, <2>5, <3>3, <4>1 DEF LinkDrops
    <3>4. QED
      BY <2>5, <3>2, <3>3 DEF LinkDrops
  <2>6. CASE AccessPoint
    BY <2>1, <2>6 DEF AccessPoint
  <2>7. QED
    BY <1>3, <2>2, <2>3, <2>4, <2>5, <2>6 DEF Driver
<1>4. QED  BY <1>2, <1>3

(* app_main waits or goes on; only BootWifi touches the link. *)
LEMMA LinkAppMain ==
    ASSUME LinkInv, AppMain
    PROVE  LinkInv'
<1> USE DEF LinkInv, LinkQueue, Waiting, Early, At
<1>1. CASE BootWifi
  <2>1. "START" \in Kinds /\ Post("START") /\ events \in Seq(Kinds)
    BY <1>1 DEF Kinds, BootWifi, WifiStart
  <2>2. Len(events) = 0
    BY <1>1 DEF BootWifi
  <2>3. Waiting(1)' /\ events'[1] = "START"
    BY <2>1, <2>2, Posted
  <2>4. QED
    BY <1>1, <2>3 DEF BootWifi, WifiStart
<1>2. CASE UNCHANGED wifiVars /\ (pc' \in Early => pc \in Early)
  BY <1>2 DEF wifiVars
<1>3. QED
  BY <1>1, <1>2
  DEF AppMain, NvsInit, NvsInitErases, NvsInitFails, BootConfigFails,
      BootConfigRead, BootConfigWrite, BootConfigDone, BootNoCredentials,
      BootWifiFails, BootWifiUp, BootWifiGaveUp, BootTime, BootTls,
      BootServer, BootServerFails, BootWeb

LEMMA LinkNext == LinkInv /\ [Next]_vars => LinkInv'
<1> SUFFICES ASSUME LinkInv, [Next]_vars PROVE LinkInv'
  OBVIOUS
<1>1. CASE Reset \/ \E n \in Namespaces : Provision(n)
  BY <1>1, Empty DEF Reset, Provision, WifiReset, LinkInv, LinkQueue, Waiting, Kinds, Early
<1>2. CASE FactoryReset \/ UNCHANGED vars
  BY <1>2 DEF FactoryReset, vars, wifiVars, LinkInv, LinkQueue, Waiting, Kinds, Early
<1>3. QED
  BY <1>1, <1>2, LinkWifi, LinkAppMain DEF Next

(* A device that once had an address always has an attempt under way or an *)
(* event waiting that starts one.                                          *)
THEOREM LinkNeverAbandoned == Spec => []NeverAbandoned
<1>1. LinkInv => NeverAbandoned
  BY DEF LinkInv, LinkQueue, Waiting, NeverAbandoned, Pending
<1>2. QED  BY <1>1, LinkInit, LinkNext, PTL DEF Spec

(* The reported address is real unless its loss waits to be handled.       *)
THEOREM AddressAlwaysHonest == Spec => []AddressHonest
<1>1. LinkInv => AddressHonest
  BY DEF LinkInv, LinkQueue, Waiting, AddressHonest, Pending
<1>2. QED  BY <1>1, LinkInit, LinkNext, PTL DEF Spec

-----------------------------------------------------------------------------
(* Types *)

(* A key with a value of its type. *)
Entries == (StrKeys \X Texts) \cup (NumKeys \X Nat)

LEMMA ErasedType == Erased \in Namespace
BY DEF Erased, Namespace, StrKeys, NumKeys

(* load_str and the nvs_get calls give well-typed values for any namespace. *)
LEMMA LoadTypes ==
    ASSUME NEW n \in Namespace
    PROVE  /\ \A k \in StrKeys : LoadStr(n, k) \in Texts
           /\ \A k \in NumKeys, d \in Nat : LoadNum(n, k, d) \in Nat
<1>1. \A k \in StrKeys : n[k] \in Texts \cup {Absent}
  BY DEF Namespace, StrKeys
<1>2. \A k \in NumKeys : n[k] \in Nat \cup {Absent}
  BY DEF Namespace, NumKeys
<1>3. "" \in Texts
  BY TextsAssumption
<1>4. QED BY <1>1, <1>2, <1>3, Zenon DEF LoadStr, LoadNum

LEMMA LoadedType ==
    ASSUME NEW n \in Namespace
    PROVE  Loaded(n) \in Cfg
<1> DEFINE mode == LoadNum(n, "netmode", 0)
           level == LoadNum(n, "logl", 3)
           port == LoadNum(n, "qdport", 0)
<1>1. /\ LoadStr(n, "host") \in Texts /\ LoadStr(n, "wssid") \in Texts
      /\ LoadStr(n, "wpass") \in Texts /\ LoadStr(n, "devid") \in Texts
      /\ LoadNum(n, "ip", 0) \in Nat /\ level \in Nat /\ port \in Nat
  BY LoadTypes DEF StrKeys, NumKeys
<1>2. /\ (IF mode = 0 THEN 0 ELSE 1) \in {0, 1}
      /\ (IF level <= 5 THEN level ELSE 3) \in Nat
      /\ (IF port # 0 THEN port ELSE DefaultPort) \in Nat
  BY <1>1 DEF DefaultPort
<1> HIDE DEF mode, level, port
<1>3. Loaded(n) = [host |-> LoadStr(n, "host"), ssid |-> LoadStr(n, "wssid"),
                   pass |-> LoadStr(n, "wpass"),
                   static |-> IF mode = 0 THEN 0 ELSE 1,
                   ip |-> LoadNum(n, "ip", 0), devid |-> LoadStr(n, "devid"),
                   logl |-> IF level <= 5 THEN level ELSE 3,
                   port |-> IF port # 0 THEN port ELSE DefaultPort]
  BY Zenon DEF Loaded, mode, level, port
<1>4. \A h, s, p, d \in Texts, st \in {0, 1}, ip, l, po \in Nat :
        [host |-> h, ssid |-> s, pass |-> p, static |-> st, ip |-> ip,
         devid |-> d, logl |-> l, port |-> po] \in Cfg
  BY DEF Cfg
<1>5. QED BY <1>1, <1>2, <1>3, <1>4

LEMMA DefaultsType ==
    ASSUME NEW ssid \in Texts, NEW pass \in Texts, NEW port \in Nat
    PROVE  Defaults(ssid, pass, port) \in Cfg
<1>1. (IF port # 0 THEN port ELSE DefaultPort) \in Nat
  BY DEF DefaultPort
<1>2. DefaultHost \in Texts /\ "" \in Texts
  BY TextsAssumption
<1>3. 0 \in {0, 1} /\ 0 \in Nat /\ 3 \in Nat
  OBVIOUS
<1>4. QED BY <1>1, <1>2, <1>3, Zenon DEF Defaults, Cfg

LEMMA CompletedType ==
    ASSUME NEW c \in Cfg
    PROVE  Completed(c) \in Cfg
BY MacAssumption, TextsAssumption DEF Completed, Cfg

LEMMA OutcomeType ==
    ASSUME NEW n \in Namespace
    PROVE  Migrated(n) \in Cfg /\ Outcome(n) \in Cfg
<1>1. KconfigDefaults \in Cfg
  BY KconfigAssumption, DefaultsType DEF KconfigDefaults
<1>2. Loaded(n) \in Cfg
  BY LoadedType
<1>3. /\ Loaded(n).ssid \in Texts /\ Loaded(n).pass \in Texts
      /\ Loaded(n).port \in Nat
  BY <1>2 DEF Cfg
<1>4. Migrated(n) \in Cfg
  BY <1>2, <1>3, DefaultsType DEF Migrated
<1>5. QED BY <1>1, <1>4, CompletedType DEF Outcome

LEMMA WritesType ==
    ASSUME NEW n \in Namespace
    PROVE  Writes(n) \in Seq(Entries)
<1>1. ASSUME NEW c \in Cfg
      PROVE  /\ <<"host", c.host>> \in Entries /\ <<"wssid", c.ssid>> \in Entries
             /\ <<"wpass", c.pass>> \in Entries /\ <<"netmode", c.static>> \in Entries
             /\ <<"devid", c.devid>> \in Entries /\ <<"logl", c.logl>> \in Entries
             /\ <<"qdport", c.port>> \in Entries
  BY DEF Cfg, Entries, StrKeys, NumKeys
<1>2. <<"ver", Version>> \in Entries
  BY DEF Version, Entries, NumKeys
<1>3. Completed(KconfigDefaults) \in Cfg /\ Migrated(n) \in Cfg
  BY OutcomeType, CompletedType, KconfigAssumption, DefaultsType
  DEF KconfigDefaults
<1> HIDE DEF Entries
<1>4. /\ \A a, b, c, d, e, f, g, h \in Entries :
           <<a, b, c, d, e, f, g, h>> \in Seq(Entries)
      /\ \A a, b, c, d, e, f \in Entries : <<a, b, c, d, e, f>> \in Seq(Entries)
      /\ <<>> \in Seq(Entries)
  OBVIOUS
<1>5. FreshWrites \in Seq(Entries)
  BY <1>1, <1>2, <1>3, <1>4, Zenon DEF FreshWrites
<1>6. MigrationWrites(n) \in Seq(Entries)
  BY <1>1, <1>2, <1>3, <1>4, Zenon DEF MigrationWrites
<1>7. QED BY <1>4, <1>5, <1>6 DEF Writes

(* Everything a step can do to the configuration. *)
ConfigStep ==
    \/ UNCHANGED configVars
    \/ ConfigOpenFails \/ ConfigRead \/ ConfigWrite \/ ConfigDone
    \/ ConfigReset /\ UNCHANGED <<nvs, origin>>
    \/ \E n \in Namespaces : ConfigReset /\ Replace(n)
    \/ Replace(Erased) /\ UNCHANGED <<s_cfg, s_loaded, todo>>

(* Every step of the device is one of these. *)
LEMMA EveryConfigStep ==
    ASSUME [Next]_vars
    PROVE  ConfigStep
BY DEF ConfigStep, Next, AppMain, NvsInit, NvsInitErases, NvsInitFails,
   BootConfigFails, BootConfigRead, BootConfigWrite, BootConfigDone,
   BootNoCredentials, BootWifi, BootWifiFails, BootWifiUp, BootWifiGaveUp,
   BootTime, BootTls, BootServer, BootServerFails, BootWeb, WifiEvent, Driver,
   Reset, Provision, FactoryReset, vars, configVars

(* One nvs_set call. *)
LEMMA WriteFacts ==
    ASSUME todo \in Seq(Entries), ConfigWrite
    PROVE  /\ 1 \in 1 .. Len(todo) /\ todo[1] \in Entries
           /\ nvs' \in {nvs, [nvs EXCEPT ![todo[1][1]] = todo[1][2]]}
           /\ todo' \in Seq(Entries)
           /\ \A k \in 1 .. Len(todo') : \E l \in 1 .. Len(todo) :
                todo'[k] = todo[l]
<1>1. todo # <<>> /\ todo' = Tail(todo)
  BY DEF ConfigWrite
<1>2. /\ Head(todo) = todo[1] /\ Head(todo) \in Entries
      /\ todo' \in Seq(Entries) /\ Len(todo') = Len(todo) - 1
      /\ \A k \in 1 .. Len(todo') : todo'[k] = todo[k + 1]
  BY <1>1, HeadTailProperties
<1>3. Len(todo) \in Nat \ {0}
  BY <1>1, EmptySeq, LenProperties
<1>4. \A k \in 1 .. Len(todo') : k + 1 \in 1 .. Len(todo)
  BY <1>2, <1>3
<1>5. nvs' \in {nvs, [nvs EXCEPT ![Head(todo)[1]] = Head(todo)[2]]}
  BY DEF ConfigWrite
<1>6. 1 \in 1 .. Len(todo)
  BY <1>3
<1>7. QED BY <1>2, <1>4, <1>5, <1>6

LEMMA ConfigTypes ==
    ASSUME ConfigTypeOK, ConfigStep
    PROVE  ConfigTypeOK'
<1>0. /\ nvs \in Namespace /\ origin \in Namespace /\ s_cfg \in Cfg
      /\ s_loaded \in BOOLEAN /\ todo \in Seq(Entries)
  BY DEF ConfigTypeOK, Entries
<1>1. KconfigDefaults \in Cfg
  BY KconfigAssumption, DefaultsType DEF KconfigDefaults
<1>2. ZeroCfg \in Cfg
  BY TextsAssumption DEF ZeroCfg, Cfg
<1>3. <<>> \in Seq(Entries)
  OBVIOUS
<1> SUFFICES /\ nvs' \in Namespace /\ origin' \in Namespace /\ s_cfg' \in Cfg
             /\ s_loaded' \in BOOLEAN /\ todo' \in Seq(Entries)
  BY DEF ConfigTypeOK, Entries
<1>4. CASE UNCHANGED configVars
  BY <1>0, <1>4 DEF configVars
<1>5. CASE ConfigOpenFails \/ ConfigDone
  BY <1>0, <1>1, <1>5 DEF ConfigOpenFails, ConfigDone
<1>6. CASE ConfigRead
  BY <1>0, <1>6, OutcomeType, WritesType DEF ConfigRead
<1>7. CASE ConfigWrite
  <2>1. ASSUME NEW e \in Entries
        PROVE  [nvs EXCEPT ![e[1]] = e[2]] \in Namespace
    <3>1. CASE e \in StrKeys \X Texts
      BY <1>0, <3>1 DEF Namespace, StrKeys
    <3>2. CASE e \in NumKeys \X Nat
      BY <1>0, <3>2 DEF Namespace, NumKeys
    <3>3. QED BY <3>1, <3>2 DEF Entries
  <2>2. nvs' \in Namespace /\ todo' \in Seq(Entries)
    BY <1>0, <1>7, <2>1, WriteFacts
  <2>3. QED BY <1>0, <1>7, <2>2 DEF ConfigWrite
<1>8. CASE ConfigReset /\ UNCHANGED <<nvs, origin>>
  BY <1>0, <1>2, <1>3, <1>8 DEF ConfigReset
<1>9. CASE \E n \in Namespaces : ConfigReset /\ Replace(n)
  BY <1>2, <1>3, <1>9, NamespacesAssumption DEF ConfigReset, Replace
<1>10. CASE Replace(Erased) /\ UNCHANGED <<s_cfg, s_loaded, todo>>
  BY <1>0, <1>10, ErasedType DEF Replace
<1>11. QED
  BY <1>4, <1>5, <1>6, <1>7, <1>8, <1>9, <1>10 DEF ConfigStep

(* The driver and the handler keep the Wi-Fi state well typed. *)
LEMMA WifiTypes ==
    ASSUME WifiTypeOK,
           \/ UNCHANGED wifiVars \/ WifiStart \/ Handler \/ WifiReset
           \/ AttemptFails \/ Associates \/ GetsLease \/ LinkDrops
           \/ AccessPoint
    PROVE  WifiTypeOK'
<1> DEFINE K == {"START", "DISCONNECTED", "GOT_IP"}
<1>1. \A e \in K : Post(e) => events' \in Seq(K)
  <2>1. events \in Seq(K)
    BY DEF WifiTypeOK
  <2>2. QED BY <2>1, AppendProperties DEF Post
<1>2. \A e : Handle(e) => events' \in Seq(K)
  <2>1. events \in Seq(K)
    BY DEF WifiTypeOK
  <2>2. QED BY <2>1, HeadTailProperties DEF Handle
<1>3. <<>> \in Seq(K)
  OBVIOUS
<1>4. WifiTypeOK => events \in Seq(K)
  BY DEF WifiTypeOK
<1>5. ASSUME /\ link' \in {"off", "connecting", "associated", "up"}
             /\ events' \in Seq(K) /\ s_retry' \in 0 .. MaxRetry + 1
             /\ s_boot_done' \in BOOLEAN /\ s_ip' \in BOOLEAN
             /\ bits' \subseteq {"GOT_IP", "FAIL"} /\ ap' \in BOOLEAN
      PROVE  WifiTypeOK'
  BY <1>5 DEF WifiTypeOK
<1>6. CASE UNCHANGED wifiVars
  BY <1>6 DEF wifiVars, WifiTypeOK
<1>7. CASE WifiStart
  <2>1. events' \in Seq(K)
    BY <1>1, <1>7 DEF WifiStart
  <2> HIDE DEF K
  <2>2. QED BY <1>5, <1>7, <2>1 DEF WifiStart, WifiTypeOK
<1>8. CASE AttemptFails \/ GetsLease \/ LinkDrops
  <2>1. events' \in Seq(K)
    BY <1>1, <1>8 DEF AttemptFails, GetsLease, LinkDrops
  <2> HIDE DEF K
  <2>2. QED BY <1>5, <1>8, <2>1 DEF AttemptFails, GetsLease, LinkDrops, WifiTypeOK
<1>9. CASE Associates \/ AccessPoint
  <2>1. events' \in Seq(K)
    BY <1>4, <1>9 DEF Associates, AccessPoint
  <2> HIDE DEF K
  <2>2. QED BY <1>5, <1>9, <2>1 DEF Associates, AccessPoint, WifiTypeOK
<1>10. CASE WifiReset
  <2>1. events' \in Seq(K)
    BY <1>3, <1>10 DEF WifiReset
  <2> HIDE DEF K
  <2>2. 0 \in 0 .. MaxRetry + 1
    BY MaxRetryAssumption
  <2>3. QED BY <1>5, <1>10, <2>1, <2>2, Zenon DEF WifiReset, WifiTypeOK
<1>11. CASE Handler
  <2>1. events' \in Seq(K)
    BY <1>2, <1>11 DEF Handler, HandleStart, LinkLost, BootRetry, GiveUp, GotIp
  <2> HIDE DEF K
  <2>2. CASE HandleStart \/ GiveUp \/ GotIp
    <3>1. 0 \in 0 .. MaxRetry + 1
      BY MaxRetryAssumption
    <3>2. /\ s_retry' \in {0, s_retry} /\ bits' \subseteq {"GOT_IP", "FAIL"}
          /\ link' \in {link, "connecting"}
      BY <2>2 DEF HandleStart, GiveUp, GotIp, WifiTypeOK
    <3>3. s_boot_done' \in BOOLEAN /\ s_ip' \in BOOLEAN /\ ap' = ap
      BY <2>2, Zenon DEF HandleStart, GiveUp, GotIp, WifiTypeOK
    <3>4. QED BY <1>5, <2>1, <3>1, <3>2, <3>3 DEF WifiTypeOK
  <2>3. CASE LinkLost \/ BootRetry
    <3>1. s_retry' \in 0 .. MaxRetry + 1
      BY <2>3, MaxRetryAssumption DEF LinkLost, BootRetry, Counted, WifiTypeOK
    <3>2. QED BY <1>5, <2>1, <2>3, <3>1 DEF LinkLost, BootRetry, WifiTypeOK
  <2>4. QED BY <1>11, <2>2, <2>3 DEF Handler
<1>12. QED BY <1>6, <1>7, <1>8, <1>9, <1>10, <1>11

(* The device is well typed, through any number of boots and resets. *)
THEOREM DeviceTypes == Spec => []TypeOK
<1> DEFINE Places == {"nvs", "config", "config_write", "wifi", "wait", "time",
                      "tls", "server", "web", "up", "halted"}
<1>1. Init => TypeOK
  <2>1. ZeroCfg \in Cfg
    BY TextsAssumption DEF ZeroCfg, Cfg
  <2> SUFFICES ASSUME Init PROVE TypeOK
    OBVIOUS
  <2>2. ConfigTypeOK
    <3>1. nvs \in Namespace /\ origin \in Namespace
      BY NamespacesAssumption DEF Init, ConfigInit
    <3>2. todo \in Seq((StrKeys \X Texts) \cup (NumKeys \X Nat))
      BY DEF Init, ConfigInit
    <3>3. s_cfg \in Cfg /\ s_loaded \in BOOLEAN
      BY <2>1, Zenon DEF Init, ConfigInit
    <3>4. QED BY <3>1, <3>2, <3>3 DEF ConfigTypeOK
  <2>3. WifiTypeOK
    <3>1. s_retry \in 0 .. MaxRetry + 1
      BY MaxRetryAssumption DEF Init, WifiInit
    <3>2. events \in Seq({"START", "DISCONNECTED", "GOT_IP"})
      BY DEF Init, WifiInit
    <3>3. /\ s_boot_done \in BOOLEAN /\ s_ip \in BOOLEAN /\ ap \in BOOLEAN
      BY Zenon DEF Init, WifiInit
    <3>4. QED BY <3>1, <3>2, <3>3 DEF Init, WifiInit, WifiTypeOK
  <2>4. faults \in 0 .. MaxFaults
    BY MaxFaultsAssumption DEF Init
  <2>5. nvs_up \in BOOLEAN /\ pc = "nvs"
    BY Zenon DEF Init
  <2>6. QED BY <2>2, <2>3, <2>4, <2>5 DEF TypeOK
<1>2. TypeOK /\ [Next]_vars => TypeOK'
  <2> SUFFICES ASSUME TypeOK, [Next]_vars PROVE TypeOK'
    OBVIOUS
  <2>1. ConfigTypeOK'
    BY EveryConfigStep, ConfigTypes DEF TypeOK
  <2>2. \/ UNCHANGED wifiVars \/ WifiStart \/ Handler \/ WifiReset
        \/ AttemptFails \/ Associates \/ GetsLease \/ LinkDrops
        \/ AccessPoint
    BY DEF Next, AppMain, NvsInit, NvsInitErases, NvsInitFails,
       BootConfigFails, BootConfigRead, BootConfigWrite, BootConfigDone,
       BootNoCredentials, BootWifi, BootWifiFails, BootWifiUp,
       BootWifiGaveUp, BootTime, BootTls, BootServer, BootServerFails,
       BootWeb, WifiEvent, Driver, Reset, Provision, FactoryReset, vars
  <2>3. WifiTypeOK'
    BY <2>2, WifiTypes DEF TypeOK
  <2>4. pc' \in Places /\ nvs_up' \in BOOLEAN /\ faults' \in 0 .. MaxFaults
    <3>1. pc \in Places /\ nvs_up \in BOOLEAN /\ faults \in 0 .. MaxFaults
      BY DEF TypeOK
    <3>2. Fault \/ faults' = faults
      BY DEF Next, AppMain, NvsInit, NvsInitErases, NvsInitFails,
         BootConfigFails, BootConfigRead, BootConfigWrite, BootConfigDone,
         BootNoCredentials, BootWifi, BootWifiFails, BootWifiUp,
         BootWifiGaveUp, BootTime, BootTls, BootServer, BootServerFails,
         BootWeb, WifiEvent, Driver, Reset, Provision, FactoryReset, vars
    <3>3. faults' \in 0 .. MaxFaults
      BY <3>1, <3>2, MaxFaultsAssumption DEF Fault
    <3>4. nvs_up' \in {TRUE, FALSE, nvs_up}
      BY DEF Next, AppMain, NvsInit, NvsInitErases, NvsInitFails,
         BootConfigFails, BootConfigRead, BootConfigWrite, BootConfigDone,
         BootNoCredentials, BootWifi, BootWifiFails, BootWifiUp,
         BootWifiGaveUp, BootTime, BootTls, BootServer, BootServerFails,
         BootWeb, WifiEvent, Driver, Reset, Provision, FactoryReset, vars
    <3>5. pc' \in Places
      BY <3>1 DEF Next, AppMain, NvsInit, NvsInitErases, NvsInitFails,
         BootConfigFails, BootConfigRead, BootConfigWrite, BootConfigDone,
         BootNoCredentials, BootWifi, BootWifiFails, BootWifiUp,
         BootWifiGaveUp, BootTime, BootTls, BootServer, BootServerFails,
         BootWeb, WifiEvent, Driver, Reset, Provision, FactoryReset, vars, At
    <3>6. QED BY <3>1, <3>3, <3>4, <3>5
  <2>5. QED BY <2>1, <2>3, <2>4 DEF TypeOK
<1>3. QED BY <1>1, <1>2, PTL DEF Spec

-----------------------------------------------------------------------------
(* What is in flash *)

(* config_init writes while it runs and at no other time; nobody erases    *)
(* the namespace meanwhile.                                                *)
TodoInv ==
    /\ todo # <<>> => pc = "config_write"
    /\ s_loaded => pc \notin {"nvs", "config", "config_write"}

LEMMA TodoStep ==
    ASSUME TodoInv, [Next]_vars
    PROVE  TodoInv'
<1> USE DEF TodoInv
<1>1. CASE AppMain
  <2>1. CASE \/ NvsInit \/ NvsInitErases \/ NvsInitFails
             \/ BootNoCredentials \/ BootWifi \/ BootWifiFails
             \/ BootWifiUp \/ BootWifiGaveUp \/ BootTime \/ BootTls
             \/ BootServer \/ BootServerFails \/ BootWeb
    <3>1. UNCHANGED <<todo, s_loaded>>
      BY <2>1 DEF NvsInit, NvsInitErases, NvsInitFails, BootNoCredentials,
         BootWifi, BootWifiFails, BootWifiUp, BootWifiGaveUp, BootTime,
         BootTls, BootServer, BootServerFails, BootWeb, configVars
    <3>2. \/ pc = "nvs"
          \/ /\ pc \notin {"nvs", "config", "config_write"}
             /\ pc' \notin {"nvs", "config", "config_write"}
      BY <2>1 DEF NvsInit, NvsInitErases, NvsInitFails, BootNoCredentials,
         BootWifi, BootWifiFails, BootWifiUp, BootWifiGaveUp, BootTime,
         BootTls, BootServer, BootServerFails, BootWeb, At
    <3>3. QED BY <3>1, <3>2
  <2>2. CASE BootConfigFails \/ BootConfigRead
    BY <2>2 DEF BootConfigFails, BootConfigRead, At, ConfigOpenFails, ConfigRead
  <2>3. CASE BootConfigWrite \/ BootConfigDone
    BY <2>3 DEF BootConfigWrite, BootConfigDone, At, ConfigWrite, ConfigDone
  <2>4. QED BY <1>1, <2>1, <2>2, <2>3 DEF AppMain
<1>2. CASE WifiEvent \/ Driver \/ UNCHANGED vars
  BY <1>2 DEF WifiEvent, Driver, vars, configVars
<1>3. CASE Reset \/ \E n \in Namespaces : Provision(n)
  BY <1>3 DEF Reset, Provision, ConfigReset
<1>4. CASE FactoryReset
  BY <1>4 DEF FactoryReset
<1>5. QED BY <1>1, <1>2, <1>3, <1>4 DEF Next

(* So an erased namespace has no writes coming. *)
LEMMA EraseIsQuiet ==
    ASSUME TodoInv, [Next]_vars
    PROVE  \/ nvs' = nvs /\ origin' = origin /\ todo' \in {todo, <<>>}
           \/ ConfigRead \/ ConfigWrite
           \/ \E n \in Namespaces \cup {Erased} :
                nvs' = n /\ origin' = n /\ todo' = <<>>
<1>1. CASE NvsInitErases \/ FactoryReset
  BY <1>1 DEF NvsInitErases, FactoryReset, TodoInv, At, Replace
<1>2. CASE AppMain /\ ~NvsInitErases
  <2>1. UNCHANGED configVars \/ ConfigOpenFails \/ ConfigRead \/ ConfigWrite
        \/ ConfigDone
    BY <1>2 DEF AppMain, NvsInit, NvsInitFails, BootConfigFails,
       BootConfigRead, BootConfigWrite, BootConfigDone, BootNoCredentials,
       BootWifi, BootWifiFails, BootWifiUp, BootWifiGaveUp, BootTime, BootTls,
       BootServer, BootServerFails, BootWeb
  <2>2. QED BY <2>1 DEF configVars, ConfigOpenFails, ConfigDone
<1>3. CASE WifiEvent \/ Driver \/ UNCHANGED vars
  BY <1>3 DEF WifiEvent, Driver, vars, configVars
<1>4. CASE Reset
  BY <1>4 DEF Reset, ConfigReset
<1>5. CASE \E n \in Namespaces : Provision(n)
  BY <1>5 DEF Provision, ConfigReset, Replace
<1>6. QED BY <1>1, <1>2, <1>3, <1>4, <1>5 DEF Next

LEMMA ErasedKeys ==
    /\ Erased.ver = Absent /\ Erased.host = Absent /\ Erased.wssid = Absent
    /\ Erased.wpass = Absent /\ Erased.netmode = Absent /\ Erased.ip = Absent
    /\ Erased.devid = Absent /\ Erased.logl = Absent /\ Erased.qdport = Absent
BY DEF Erased, StrKeys, NumKeys

CredentialKeys == {"wssid", "wpass"}

(* No write that is still to come touches the credentials. *)
Spares(writes) ==
    \A k \in 1 .. Len(writes) : writes[k][1] \notin CredentialKeys

(* Inductive: what has been provisioned is kept, and nothing that          *)
(* config_init still writes touches it.                                    *)
KeptInv ==
    /\ origin.wssid # ""
    /\ origin.wssid # Absent => /\ nvs.wssid = origin.wssid
                                /\ nvs.wpass = origin.wpass
                                /\ Spares(todo)
    /\ ~Readable(origin) => nvs = origin /\ todo = <<>>

(* A migration writes neither credential. *)
LEMMA MigrationSpares ==
    ASSUME NEW n
    PROVE  Spares(MigrationWrites(n)) /\ Spares(<<>>)
<1> DEFINE c == Migrated(n)
<1>1. MigrationWrites(n)
        = << <<"ver", Version>>, <<"host", c.host>>, <<"netmode", c.static>>,
             <<"devid", c.devid>>, <<"logl", c.logl>>, <<"qdport", c.port>> >>
  BY Zenon DEF MigrationWrites
<1> HIDE DEF c
<1>2. Spares(MigrationWrites(n))
  BY <1>1 DEF Spares, CredentialKeys
<1>3. Len(<<>>) = 0
  OBVIOUS
<1>4. QED BY <1>2, <1>3 DEF Spares

LEMMA KeptStep ==
    ASSUME \A n \in Namespaces : n.wssid # "", TypeOK, TodoInv, KeptInv,
           [Next]_vars
    PROVE  KeptInv'
<1>0. /\ nvs \in Namespace /\ origin \in Namespace /\ todo \in Seq(Entries)
  BY DEF TypeOK, ConfigTypeOK, Entries
<1>1. CASE nvs' = nvs /\ origin' = origin /\ todo' \in {todo, <<>>}
  BY <1>1, MigrationSpares DEF KeptInv
<1>2. CASE ConfigRead
  <2>1. nvs' = nvs /\ origin' = origin /\ todo' = Writes(nvs)
    BY <1>2 DEF ConfigRead
  <2>2. ASSUME origin.wssid # Absent PROVE Spares(todo')
    <3>1. nvs.wssid # "" /\ nvs.wssid # Absent
      BY <2>2 DEF KeptInv
    <3>2. ~Fresh(nvs)
      BY <3>1 DEF Fresh, LoadStr
    <3>3. todo' \in {MigrationWrites(nvs), <<>>}
      BY <2>1, <3>2 DEF Writes
    <3>4. QED BY <3>3, MigrationSpares
  <2>3. ASSUME ~Readable(origin) PROVE todo' = <<>>
    <3>1. ~Readable(nvs)
      BY <2>3 DEF KeptInv
    <3>2. ~Fresh(nvs)
      BY <3>1 DEF Readable, Fresh, HasVer, FromVersion, LoadNum
    <3>3. QED BY <2>1, <3>1, <3>2 DEF Writes
  <2>4. QED BY <2>1, <2>2, <2>3 DEF KeptInv
<1>3. CASE ConfigWrite
  <2>1. /\ 1 \in 1 .. Len(todo) /\ todo[1] \in Entries
        /\ nvs' \in {nvs, [nvs EXCEPT ![todo[1][1]] = todo[1][2]]}
        /\ \A k \in 1 .. Len(todo') : \E l \in 1 .. Len(todo) :
             todo'[k] = todo[l]
    BY <1>0, <1>3, WriteFacts
  <2>2. todo # <<>> /\ origin' = origin
    BY <1>3 DEF ConfigWrite
  <2>3. ASSUME origin.wssid # Absent
        PROVE  nvs'.wssid = nvs.wssid /\ nvs'.wpass = nvs.wpass
    <3>1. todo[1][1] \notin {"wssid", "wpass"}
      BY <2>1, <2>3 DEF KeptInv, Spares, CredentialKeys
    <3>2. QED BY <1>0, <2>1, <3>1 DEF Namespace
  <2>4. ASSUME Spares(todo) PROVE Spares(todo')
    BY <2>1, <2>4 DEF Spares
  <2>5. QED BY <2>2, <2>3, <2>4 DEF KeptInv
<1>4. ASSUME NEW n \in Namespaces \cup {Erased},
             nvs' = n /\ origin' = n /\ todo' = <<>>
      PROVE  KeptInv'
  <2>1. n.wssid # ""
    BY ErasedKeys, AbsentAssumption, TextsAssumption
  <2>2. Spares(todo')
    BY <1>4, MigrationSpares
  <2>3. QED BY <1>4, <2>1, <2>2 DEF KeptInv
<1>5. QED BY <1>1, <1>2, <1>3, <1>4, EraseIsQuiet

(* Provided nobody provisions an empty network name: credentials in flash  *)
(* stay as they were provisioned, and a namespace of another firmware      *)
(* version is never written to, through any sequence of boots, resets and  *)
(* failing writes (quorumesp_config_init).                                 *)
THEOREM ProvisioningIsKept ==
    ASSUME \A n \in Namespaces : n.wssid # ""
    PROVE  Spec => []ProvisionedKept
<1>1. Init => TodoInv /\ KeptInv
  BY MigrationSpares DEF Init, ConfigInit, TodoInv, KeptInv
<1>2. TodoInv /\ [Next]_vars => TodoInv'
  BY TodoStep
<1>3. TypeOK /\ TodoInv /\ KeptInv /\ [Next]_vars => KeptInv'
  BY KeptStep
<1>4. KeptInv => ProvisionedKept
  BY DEF KeptInv, ProvisionedKept
<1>5. QED BY <1>1, <1>2, <1>3, <1>4, DeviceTypes, PTL DEF Spec

-----------------------------------------------------------------------------
(* No half-written configuration *)

(* Every key but the credentials is unset or has the value a first boot    *)
(* of a release image gives it.                                            *)
Plain(n) ==
    /\ n.ver \in {Absent, Version} /\ n.host \in {Absent, DefaultHost}
    /\ n.netmode \in {Absent, 0} /\ n.ip = Absent
    /\ n.devid \in {Absent, "", Mac} /\ n.logl \in {Absent, 3}
    /\ n.qdport \in {Absent, DefaultPort}

(* n holds the network of o; without a network the password is not used.   *)
SameNetwork(n, o) ==
    /\ LoadStr(n, "wssid") = LoadStr(o, "wssid")
    /\ LoadStr(o, "wssid") # "" => LoadStr(n, "wpass") = LoadStr(o, "wpass")

PlainWrites ==
    ({"ver"} \X {Version}) \cup ({"host"} \X {DefaultHost})
    \cup ({"netmode"} \X {0}) \cup ({"devid"} \X {"", Mac})
    \cup ({"logl"} \X {3}) \cup ({"qdport"} \X {DefaultPort})

NoNetworkWrites == ({"wssid"} \X {""}) \cup ({"wpass"} \X {Kconfig.pass})

(* The writes to come leave the namespace plain and the network of o.      *)
Harmless(writes, o) ==
    \A k \in 1 .. Len(writes) :
      \/ writes[k] \in PlainWrites
      \/ LoadStr(o, "wssid") = "" /\ writes[k] \in NoNetworkWrites

(* Inductive: a versioned namespace is not written to; one that held       *)
(* credentials at most stays plain, whichever of the writes have been made.*)
HalfInv ==
    \/ ~CredentialsOnly(origin) /\ ~Versioned(origin)
    \/ Versioned(origin) /\ nvs = origin /\ todo = <<>>
    \/ /\ Plain(origin) /\ Plain(nvs)
       /\ SameNetwork(nvs, origin)
       /\ Harmless(todo, origin)

(* What a boot makes of a plain namespace: the release defaults and the    *)
(* network in flash, whichever of the other keys are set already.          *)
PlainResult(n) ==
    [host |-> DefaultHost, devid |-> Mac, logl |-> 3, port |-> DefaultPort,
     wifi |-> IF LoadStr(n, "wssid") # ""
              THEN [ssid |-> LoadStr(n, "wssid"), pass |-> LoadStr(n, "wpass")]
              ELSE [ssid |-> Kconfig.ssid, pass |-> Kconfig.pass],
     ip |-> 0]

(* The image has no network of its own and the standard port. *)
PlainImage == Kconfig.ssid = "" /\ Kconfig.port \in {0, DefaultPort}

(* What config_init reads from a plain namespace. *)
LEMMA PlainLoads ==
    ASSUME NEW n, Plain(n)
    PROVE  /\ LoadStr(n, "host") \in {"", DefaultHost}
           /\ LoadStr(n, "devid") \in {"", Mac}
           /\ LoadNum(n, "netmode", 0) = 0 /\ LoadNum(n, "logl", 3) = 3
           /\ LoadNum(n, "qdport", 0) \in {0, DefaultPort}
           /\ LoadNum(n, "ip", 0) = 0
           /\ HasVer(n) => n.ver = Version /\ FromVersion(n) = Version
           /\ ~HasVer(n) => n.ver # Version /\ FromVersion(n) = 0
           /\ Readable(n)
<1>1. Version # Absent /\ Version # 0
  BY AbsentAssumption DEF Version
<1>2. QED BY <1>1, Zenon
  DEF Plain, LoadStr, LoadNum, FromVersion, HasVer, Readable

(* A configuration with the defaults of a release image. *)
PlainCfg(host, ssid, pass, devid) ==
    [host |-> host, ssid |-> ssid, pass |-> pass, static |-> 0, ip |-> 0,
     devid |-> devid, logl |-> 3, port |-> DefaultPort]

(* The configuration before and after a migration, and the one built in. *)
LEMMA PlainConfig ==
    ASSUME PlainImage, NEW n, Plain(n)
    PROVE  /\ ~HasVer(n) => Migrated(n) = PlainCfg(DefaultHost,
                 LoadStr(n, "wssid"), LoadStr(n, "wpass"), "")
           /\ HasVer(n) => Migrated(n) = PlainCfg(LoadStr(n, "host"),
                 LoadStr(n, "wssid"), LoadStr(n, "wpass"), LoadStr(n, "devid"))
           /\ KconfigDefaults = PlainCfg(DefaultHost, "", Kconfig.pass, "")
<1>1. 3 <= 5 /\ DefaultPort # 0
  BY DEF DefaultPort
<1>2. Loaded(n) = PlainCfg(LoadStr(n, "host"), LoadStr(n, "wssid"),
                           LoadStr(n, "wpass"), LoadStr(n, "devid"))
  <2>1. /\ (IF LoadNum(n, "netmode", 0) = 0 THEN 0 ELSE 1) = 0
        /\ (IF LoadNum(n, "logl", 3) <= 5 THEN LoadNum(n, "logl", 3) ELSE 3) = 3
        /\ (IF LoadNum(n, "qdport", 0) # 0 THEN LoadNum(n, "qdport", 0)
                                            ELSE DefaultPort) = DefaultPort
        /\ LoadNum(n, "ip", 0) = 0
    BY <1>1, PlainLoads, Zenon
  <2>2. QED BY <2>1, Zenon DEF Loaded, PlainCfg
<1>3. \A s, p : \A port \in {0, DefaultPort} :
        Defaults(s, p, port) = PlainCfg(DefaultHost, s, p, "")
  <2>1. \A port \in {0, DefaultPort} :
          (IF port # 0 THEN port ELSE DefaultPort) = DefaultPort
    BY <1>1
  <2>2. QED BY <2>1, Zenon DEF Defaults, PlainCfg
<1>4. KconfigDefaults = PlainCfg(DefaultHost, "", Kconfig.pass, "")
  BY <1>3, Zenon DEF KconfigDefaults, PlainImage
<1>5. /\ Loaded(n).ssid = LoadStr(n, "wssid")
      /\ Loaded(n).pass = LoadStr(n, "wpass")
      /\ Loaded(n).port = DefaultPort
  BY <1>2 DEF PlainCfg
<1>6. FromVersion(n) = Version => Migrated(n) = Loaded(n)
  BY Zenon DEF Migrated
<1>7. FromVersion(n) # Version =>
        Migrated(n) = Defaults(Loaded(n).ssid, Loaded(n).pass, Loaded(n).port)
  BY Zenon DEF Migrated
<1>8. Version # 0
  BY DEF Version
<1>9. DefaultPort \in {0, DefaultPort}
  OBVIOUS
<1>10. CASE HasVer(n)
  <2>1. FromVersion(n) = Version
    BY <1>10, PlainLoads
  <2>2. QED BY <1>2, <1>4, <1>6, <1>10, <2>1, Zenon
<1>11. CASE ~HasVer(n)
  <2>1. FromVersion(n) # Version
    BY <1>8, <1>11, PlainLoads
  <2>2. QED BY <1>3, <1>4, <1>5, <1>7, <1>9, <1>11, <2>1, Zenon
<1>12. QED BY <1>10, <1>11

(* The result of a boot with the defaults of a release image. *)
Standard(c, ssid, pass) ==
    /\ c.host = DefaultHost /\ c.ssid = ssid /\ c.pass = pass /\ c.static = 0
    /\ c.devid = Mac /\ c.logl = 3 /\ c.port = DefaultPort

(* Host name and device id end up the same, set or not. *)
LEMMA PlainCompleted ==
    ASSUME NEW h \in {"", DefaultHost}, NEW d \in {"", Mac}, NEW s, NEW p,
           PlainCfg(h, s, p, d) \in Cfg
    PROVE  Standard(Completed(PlainCfg(h, s, p, d)), s, p)
<1>1. DefaultHost # "" /\ Mac # ""
  BY MacAssumption DEF DefaultHost
<1>2. /\ (IF h = "" THEN DefaultHost ELSE h) = DefaultHost
      /\ (IF d = "" THEN Mac ELSE d) = Mac
  BY <1>1, Zenon
<1> DEFINE c == PlainCfg(h, s, p, d)
<1>3. /\ c.host = h /\ c.ssid = s /\ c.pass = p /\ c.static = 0
      /\ c.devid = d /\ c.logl = 3 /\ c.port = DefaultPort
  BY DEF PlainCfg
<1> HIDE DEF c
<1>4. /\ Completed(c).host = IF c.host = "" THEN DefaultHost ELSE c.host
      /\ Completed(c).devid = IF c.devid = "" THEN Mac ELSE c.devid
      /\ Completed(c).ssid = c.ssid /\ Completed(c).pass = c.pass
      /\ Completed(c).static = c.static /\ Completed(c).logl = c.logl
      /\ Completed(c).port = c.port
  <2>1. c \in Cfg
    BY DEF c
  <2>2. QED BY <2>1 DEF Completed, Cfg
<1>5. Standard(Completed(c), s, p)
  BY <1>2, <1>3, <1>4, Zenon DEF Standard
<1>6. QED BY <1>5 DEF c

LEMMA PlainOutcome ==
    ASSUME PlainImage, NEW n \in Namespace, Plain(n)
    PROVE  Effective(Outcome(n)) = PlainResult(n)
<1>1. ASSUME NEW c, NEW s, NEW p, Standard(c, s, p)
      PROVE  Effective(c) =
        [host |-> DefaultHost, devid |-> Mac, logl |-> 3, port |-> DefaultPort,
         wifi |-> IF s # "" THEN [ssid |-> s, pass |-> p]
                  ELSE [ssid |-> Kconfig.ssid, pass |-> Kconfig.pass],
         ip |-> 0]
  <2>1. 0 # 1
    OBVIOUS
  <2>2. QED BY <1>1, <2>1, Zenon DEF Effective, Credentials, Standard
<1>2. DefaultHost \in {"", DefaultHost} /\ "" \in {"", Mac}
  OBVIOUS
<1>3. KconfigDefaults \in Cfg /\ Migrated(n) \in Cfg
  BY OutcomeType, KconfigAssumption, DefaultsType DEF KconfigDefaults
<1>4. CASE Fresh(n)
  <2>1. Outcome(n) = Completed(KconfigDefaults)
    BY <1>4, Zenon DEF Outcome
  <2>2. KconfigDefaults = PlainCfg(DefaultHost, "", Kconfig.pass, "")
    BY PlainConfig
  <2>3. Standard(Outcome(n), "", Kconfig.pass)
    BY <1>2, <1>3, <2>1, <2>2, PlainCompleted, Zenon
  <2>4. LoadStr(n, "wssid") = ""
    BY <1>4, Zenon DEF Fresh
  <2>5. QED BY <1>1, <2>3, <2>4, Zenon DEF PlainResult
<1>5. CASE ~Fresh(n)
  <2>1. Outcome(n) = Completed(Migrated(n))
    BY <1>5, PlainLoads, Zenon DEF Outcome
  <2>2. PICK h \in {"", DefaultHost}, d \in {"", Mac} :
          Migrated(n) = PlainCfg(h, LoadStr(n, "wssid"), LoadStr(n, "wpass"), d)
    BY <1>2, PlainConfig, PlainLoads
  <2>3. Standard(Outcome(n), LoadStr(n, "wssid"), LoadStr(n, "wpass"))
    BY <1>3, <2>1, <2>2, PlainCompleted, Zenon
  <2>4. QED BY <1>1, <2>3, Zenon DEF PlainResult
<1>6. QED BY <1>4, <1>5

(* What config_init decides to write for a plain namespace is harmless ... *)
LEMMA PlainWritesHarmless ==
    ASSUME PlainImage, NEW n, NEW o, Plain(n), SameNetwork(n, o)
    PROVE  Harmless(Writes(n), o) /\ Harmless(<<>>, o)
<1>0. \A k \in 1 .. Len(<<>>) : FALSE
  OBVIOUS
<1>1. Harmless(<<>>, o)
  BY <1>0, Zenon DEF Harmless
<1>2. CASE Fresh(n)
  <2> DEFINE c == Completed(KconfigDefaults)
  <2>1. LoadStr(o, "wssid") = ""
    BY <1>2, Zenon DEF Fresh, SameNetwork
  <2>2. DefaultHost \in {"", DefaultHost} /\ "" \in {"", Mac}
    OBVIOUS
  <2>3. KconfigDefaults \in Cfg
    BY KconfigAssumption, DefaultsType DEF KconfigDefaults
  <2>4. Standard(c, "", Kconfig.pass)
    <3>1. KconfigDefaults = PlainCfg(DefaultHost, "", Kconfig.pass, "")
      BY PlainConfig
    <3>2. QED BY <2>2, <2>3, <3>1, PlainCompleted, Zenon
  <2> HIDE DEF c
  <2>5. Writes(n) = << <<"ver", Version>>, <<"host", DefaultHost>>, <<"wssid", "">>,
           <<"wpass", Kconfig.pass>>, <<"netmode", 0>>, <<"devid", Mac>>,
           <<"logl", 3>>, <<"qdport", DefaultPort>> >>
    BY <1>2, <2>4, Zenon DEF Writes, FreshWrites, Standard, c
  <2>6. \A k \in 1 .. Len(Writes(n)) :
          Writes(n)[k] \in PlainWrites \cup NoNetworkWrites
    <3>1. /\ <<"ver", Version>> \in PlainWrites
          /\ <<"host", DefaultHost>> \in PlainWrites
          /\ <<"wssid", "">> \in NoNetworkWrites
          /\ <<"wpass", Kconfig.pass>> \in NoNetworkWrites
          /\ <<"netmode", 0>> \in PlainWrites /\ <<"devid", Mac>> \in PlainWrites
          /\ <<"logl", 3>> \in PlainWrites
          /\ <<"qdport", DefaultPort>> \in PlainWrites
      BY DEF PlainWrites, NoNetworkWrites
    <3> DEFINE S == PlainWrites \cup NoNetworkWrites
    <3>2. /\ \A a, b, i, d, e, f, g, h \in S :
                <<a, b, i, d, e, f, g, h>> \in Seq(S)
          /\ \A q \in Seq(S) : \A k \in 1 .. Len(q) : q[k] \in S
      OBVIOUS
    <3>3. Writes(n) \in Seq(S)
      BY <2>5, <3>1, <3>2, Zenon
    <3>4. QED BY <3>2, <3>3
  <2>7. QED BY <1>1, <2>1, <2>6, Zenon DEF Harmless
<1>3. CASE ~Fresh(n) /\ ~HasVer(n)
  <2> DEFINE c == Migrated(n)
  <2>1. Writes(n) = MigrationWrites(n)
    BY <1>3, PlainLoads, Zenon DEF Writes
  <2>2. /\ c.host = DefaultHost /\ c.static = 0 /\ c.devid = "" /\ c.logl = 3
        /\ c.port = DefaultPort
    <3>1. c = PlainCfg(DefaultHost, LoadStr(n, "wssid"), LoadStr(n, "wpass"), "")
      BY <1>3, PlainConfig
    <3> HIDE DEF c
    <3>2. QED BY <3>1 DEF PlainCfg
  <2> HIDE DEF c
  <2>3. MigrationWrites(n) = << <<"ver", Version>>, <<"host", DefaultHost>>,
           <<"netmode", 0>>, <<"devid", "">>, <<"logl", 3>>,
           <<"qdport", DefaultPort>> >>
    BY <2>2, Zenon DEF MigrationWrites, c
  <2>4. \A k \in 1 .. Len(MigrationWrites(n)) :
          MigrationWrites(n)[k] \in PlainWrites
    <3>1. /\ <<"ver", Version>> \in PlainWrites
          /\ <<"host", DefaultHost>> \in PlainWrites
          /\ <<"netmode", 0>> \in PlainWrites /\ <<"devid", "">> \in PlainWrites
          /\ <<"logl", 3>> \in PlainWrites
          /\ <<"qdport", DefaultPort>> \in PlainWrites
      BY DEF PlainWrites
    <3>2. ASSUME NEW S, NEW a \in S, NEW b \in S, NEW d \in S, NEW e \in S,
                 NEW f \in S, NEW g \in S
          PROVE  \A k \in 1 .. Len(<<a, b, d, e, f, g>>) :
                   <<a, b, d, e, f, g>>[k] \in S
      OBVIOUS
    <3>3. QED BY <2>3, <3>1, <3>2, Zenon
  <2>5. QED BY <1>1, <2>1, <2>4, Zenon DEF Harmless
<1>4. CASE HasVer(n)
  <2>1. ~Fresh(n) /\ n.ver = Version
    BY <1>4, PlainLoads, Zenon DEF Fresh
  <2>2. Writes(n) = <<>>
    BY <2>1, Zenon DEF Writes
  <2>3. QED BY <1>1, <2>2
<1>5. QED BY <1>2, <1>3, <1>4

(* ... and a harmless write keeps it plain. *)
LEMMA PlainWrite ==
    ASSUME NEW n \in Namespace, NEW o, Plain(n), SameNetwork(n, o),
           NEW w, \/ w \in PlainWrites
                  \/ LoadStr(o, "wssid") = "" /\ w \in NoNetworkWrites
    PROVE  LET m == [n EXCEPT ![w[1]] = w[2]]
           IN  Plain(m) /\ SameNetwork(m, o)
<1> DEFINE m == [n EXCEPT ![w[1]] = w[2]]
           Keys == StrKeys \cup NumKeys
<1>1. \A k \in Keys : m[k] = IF k = w[1] THEN w[2] ELSE n[k]
  BY DEF Namespace, StrKeys, NumKeys
<1>2. {"ver", "host", "netmode", "ip", "devid", "logl", "qdport", "wssid",
       "wpass"} = Keys
  BY DEF StrKeys, NumKeys
<1> HIDE DEF m, Keys
<1>3. /\ m.ver = IF "ver" = w[1] THEN w[2] ELSE n.ver
      /\ m.host = IF "host" = w[1] THEN w[2] ELSE n.host
      /\ m.netmode = IF "netmode" = w[1] THEN w[2] ELSE n.netmode
      /\ m.ip = IF "ip" = w[1] THEN w[2] ELSE n.ip
      /\ m.devid = IF "devid" = w[1] THEN w[2] ELSE n.devid
      /\ m.logl = IF "logl" = w[1] THEN w[2] ELSE n.logl
      /\ m.qdport = IF "qdport" = w[1] THEN w[2] ELSE n.qdport
      /\ m.wssid = IF "wssid" = w[1] THEN w[2] ELSE n.wssid
      /\ m.wpass = IF "wpass" = w[1] THEN w[2] ELSE n.wpass
  BY <1>1, <1>2
<1>4. CASE w \in PlainWrites
  <2>1. /\ w[1] \in {"ver", "host", "netmode", "devid", "logl", "qdport"}
        /\ w[1] = "ver" => w[2] = Version
        /\ w[1] = "host" => w[2] = DefaultHost
        /\ w[1] = "netmode" => w[2] = 0
        /\ w[1] = "devid" => w[2] \in {"", Mac}
        /\ w[1] = "logl" => w[2] = 3
        /\ w[1] = "qdport" => w[2] = DefaultPort
    BY <1>4 DEF PlainWrites
  <2>2. Plain(m)
    BY <1>3, <2>1 DEF Plain
  <2>3. m.wssid = n.wssid /\ m.wpass = n.wpass
    BY <1>3, <2>1
  <2>4. QED BY <2>2, <2>3, Zenon DEF SameNetwork, LoadStr, m
<1>5. CASE LoadStr(o, "wssid") = "" /\ w \in NoNetworkWrites
  <2>1. w[1] \in {"wssid", "wpass"} /\ (w[1] = "wssid" => w[2] = "")
    BY <1>5 DEF NoNetworkWrites
  <2>2. Plain(m)
    BY <1>3, <2>1 DEF Plain
  <2>3. m.wssid \in {n.wssid, ""}
    BY <1>3, <2>1
  <2>4. SameNetwork(m, o)
    BY <1>5, <2>3 DEF SameNetwork, LoadStr
  <2>5. QED BY <2>2, <2>4 DEF m
<1>6. QED BY <1>4, <1>5

LEMMA CredentialsArePlain ==
    ASSUME NEW n \in Namespace, CredentialsOnly(n)
    PROVE  Plain(n)
BY DEF CredentialsOnly, Plain, Namespace

(* A namespace that is put in place, before anything is written to it. *)
LEMMA HalfStart ==
    ASSUME PlainImage, NEW n \in Namespace,
           nvs = n, origin = n, todo = <<>>
    PROVE  HalfInv
<1>1. SameNetwork(n, n)
  BY DEF SameNetwork
<1>2. Plain(n) => Harmless(<<>>, n)
  BY <1>1, PlainWritesHarmless
<1>3. QED BY <1>1, <1>2, CredentialsArePlain DEF HalfInv

LEMMA HalfStep ==
    ASSUME PlainImage, TypeOK, TodoInv, HalfInv, [Next]_vars
    PROVE  HalfInv'
<1>0. /\ nvs \in Namespace /\ origin \in Namespace /\ todo \in Seq(Entries)
  BY DEF TypeOK, ConfigTypeOK, Entries
<1>1. CASE nvs' = nvs /\ origin' = origin /\ todo' \in {todo, <<>>}
  <2>1. CASE todo' = <<>>
    <3>1. Plain(nvs) /\ SameNetwork(nvs, origin) => Harmless(<<>>, origin)
      BY PlainWritesHarmless
    <3>2. QED BY <1>1, <2>1, <3>1 DEF HalfInv
  <2>2. QED BY <1>1, <2>1 DEF HalfInv
<1>2. CASE ConfigRead
  <2>1. nvs' = nvs /\ origin' = origin /\ todo' = Writes(nvs)
    BY <1>2 DEF ConfigRead
  <2>2. CASE Versioned(origin) /\ nvs = origin /\ todo = <<>>
    <3>1. ~Fresh(nvs) /\ (Readable(nvs) => nvs.ver = Version)
      BY <2>2 DEF Versioned, Fresh, HasVer, Readable, FromVersion, LoadNum
    <3>2. QED BY <2>1, <2>2, <3>1 DEF Writes, HalfInv
  <2>3. CASE Plain(origin) /\ Plain(nvs) /\ SameNetwork(nvs, origin)
    BY <2>1, <2>3, PlainWritesHarmless DEF HalfInv
  <2>4. QED BY <2>1, <2>2, <2>3 DEF HalfInv
<1>3. CASE ConfigWrite
  <2>1. /\ 1 \in 1 .. Len(todo) /\ todo[1] \in Entries
        /\ nvs' \in {nvs, [nvs EXCEPT ![todo[1][1]] = todo[1][2]]}
        /\ \A k \in 1 .. Len(todo') : \E l \in 1 .. Len(todo) :
             todo'[k] = todo[l]
    BY <1>0, <1>3, WriteFacts
  <2>2. todo # <<>> /\ origin' = origin
    BY <1>3 DEF ConfigWrite
  <2> SUFFICES ASSUME CredentialsOnly(origin) \/ Versioned(origin)
               PROVE  HalfInv'
    BY <2>2 DEF HalfInv
  <2>3. /\ Plain(origin) /\ Plain(nvs) /\ SameNetwork(nvs, origin)
        /\ Harmless(todo, origin)
    BY <2>2 DEF HalfInv
  <2>4. Plain(nvs') /\ SameNetwork(nvs', origin)
    <3>1. \/ todo[1] \in PlainWrites
          \/ LoadStr(origin, "wssid") = "" /\ todo[1] \in NoNetworkWrites
      BY <2>1, <2>3 DEF Harmless
    <3>2. LET m == [nvs EXCEPT ![todo[1][1]] = todo[1][2]]
          IN  Plain(m) /\ SameNetwork(m, origin)
      BY <1>0, <2>3, <3>1, PlainWrite
    <3>3. QED BY <2>1, <2>3, <3>2
  <2>5. Harmless(todo', origin)
    BY <2>1, <2>3 DEF Harmless
  <2>6. QED BY <2>2, <2>3, <2>4, <2>5 DEF HalfInv
<1>4. ASSUME NEW n \in Namespaces \cup {Erased},
             nvs' = n /\ origin' = n /\ todo' = <<>>
      PROVE  HalfInv'
  <2>1. n \in Namespace
    BY NamespacesAssumption, ErasedType
  <2>2. SameNetwork(n, n)
    BY DEF SameNetwork
  <2>3. Plain(n) => Harmless(<<>>, n)
    BY <2>2, PlainWritesHarmless
  <2>4. QED BY <1>4, <2>1, <2>2, <2>3, CredentialsArePlain DEF HalfInv
<1>5. QED BY <1>1, <1>2, <1>3, <1>4, EraseIsQuiet

(* A release image, whatever is flashed: a boot cut short at any write,    *)
(* with any of the writes lost, leaves a namespace the next boot reads as  *)
(* if nothing had happened, if the namespace held credentials at most, as  *)
(* the provisioning steps make it, or was written by a versioned firmware  *)
(* (quorumesp_config_init).                                                *)
THEOREM BootsAreRepeatable ==
    ASSUME PlainImage
    PROVE  Spec => []BootsRepeatable
<1>1. Init => TodoInv /\ HalfInv
  <2> SUFFICES ASSUME Init PROVE TodoInv /\ HalfInv
    OBVIOUS
  <2>1. TodoInv
    BY DEF Init, ConfigInit, TodoInv
  <2>2. nvs \in Namespace /\ origin = nvs /\ todo = <<>>
    BY NamespacesAssumption DEF Init, ConfigInit
  <2>3. QED BY <2>1, <2>2, HalfStart
<1>2. TodoInv /\ [Next]_vars => TodoInv'
  BY TodoStep
<1>3. TypeOK /\ TodoInv /\ HalfInv /\ [Next]_vars => HalfInv'
  BY HalfStep
<1>4. TypeOK /\ HalfInv => BootsRepeatable
  <2> SUFFICES ASSUME TypeOK, HalfInv,
                      CredentialsOnly(origin) \/ Versioned(origin)
               PROVE  NoHalfState
    BY DEF BootsRepeatable
  <2>1. CASE nvs = origin
    BY <2>1 DEF NoHalfState
  <2>2. CASE Plain(origin) /\ Plain(nvs) /\ SameNetwork(nvs, origin)
    <3>1. PlainResult(nvs) = PlainResult(origin)
      BY <2>2 DEF SameNetwork, PlainResult
    <3>2. QED BY <2>2, <3>1, PlainOutcome DEF NoHalfState, TypeOK, ConfigTypeOK
  <2>3. QED BY <2>1, <2>2 DEF HalfInv
<1>5. QED BY <1>1, <1>2, <1>3, <1>4, DeviceTypes, PTL DEF Spec
=============================================================================
