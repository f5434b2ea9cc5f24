-------------------------------- MODULE Wifi --------------------------------
(***************************************************************************)
(* firmware/network/wifi.c: the station's event handler, which keeps the   *)
(* link up, and the bits network_wifi_connect waits for.                   *)
(*                                                                         *)
(* External, from how the handler uses it: the driver.  esp_wifi_connect   *)
(* starts an attempt that ends in an event, the driver posts its events in *)
(* order, and they are handled one at a time and possibly late.            *)
(***************************************************************************)
EXTENDS Naturals, Sequences

CONSTANT MaxRetry    \* WIFI_MAX_RETRY

ASSUME MaxRetryAssumption == MaxRetry \in Nat

VARIABLES link,         \* what the driver is doing
          events,       \* posted and not handled yet
          s_retry, s_boot_done,
          s_ip,         \* is s_ip_be set?
          bits,         \* the event group
          ap            \* is the access point there and willing?

wifiVars == <<link, events, s_retry, s_boot_done, s_ip, bits, ap>>

Post(e) == events' = Append(events, e)

WifiInit ==
    /\ link = "off"
    /\ events = <<>>
    /\ s_retry = 0
    /\ s_boot_done = FALSE
    /\ s_ip = FALSE
    /\ bits = {}
    /\ ap \in BOOLEAN

WifiReset ==
    /\ link' = "off"
    /\ events' = <<>>
    /\ s_retry' = 0
    /\ s_boot_done' = FALSE
    /\ s_ip' = FALSE
    /\ bits' = {}
    /\ UNCHANGED ap

(* network_wifi_connect, up to esp_wifi_start and the wait. *)
WifiStart ==
    /\ Post("START")
    /\ UNCHANGED <<link, s_retry, s_boot_done, s_ip, bits, ap>>

-----------------------------------------------------------------------------
(* The driver *)

(* An attempt ends without a link: no such network, wrong password, ...    *)
AttemptFails ==
    /\ link = "connecting"
    /\ link' = "off"
    /\ Post("DISCONNECTED")
    /\ UNCHANGED <<s_retry, s_boot_done, s_ip, bits, ap>>

Associates ==
    /\ link = "connecting" /\ ap
    /\ link' = "associated"
    /\ UNCHANGED <<events, s_retry, s_boot_done, s_ip, bits, ap>>

GetsLease ==
    /\ link = "associated" /\ ap
    /\ link' = "up"
    /\ Post("GOT_IP")
    /\ UNCHANGED <<s_retry, s_boot_done, s_ip, bits, ap>>

LinkDrops ==
    /\ link \in {"associated", "up"}
    /\ link' = "off"
    /\ Post("DISCONNECTED")
    /\ UNCHANGED <<s_retry, s_boot_done, s_ip, bits, ap>>

AccessPoint ==
    /\ ap' = ~ap
    /\ UNCHANGED <<link, events, s_retry, s_boot_done, s_ip, bits>>

-----------------------------------------------------------------------------
(* ev_handler *)

Handle(e) == events # <<>> /\ Head(events) = e /\ events' = Tail(events)

HandleStart ==
    /\ Handle("START")
    /\ link' = "connecting"
    /\ UNCHANGED <<s_retry, s_boot_done, s_ip, bits, ap>>

(* After boot s_retry only appears in a log line; it stops at MaxRetry + 1. *)
Counted(n) == IF n <= MaxRetry THEN n + 1 ELSE n

LinkLostBounded ==
    /\ Handle("DISCONNECTED") /\ s_boot_done
    /\ s_retry' = Counted(s_retry)
    /\ s_ip' = FALSE
    /\ link' = IF s_retry < MaxRetry THEN "connecting" ELSE link
    /\ UNCHANGED <<s_boot_done, bits, ap>>

LinkLostSilently ==
    /\ Handle("DISCONNECTED") /\ s_boot_done
    /\ s_retry' = Counted(s_retry)
    /\ link' = "connecting"
    /\ UNCHANGED <<s_boot_done, s_ip, bits, ap>>

(* After the first address: a lost link is retried for ever. *)
LinkLost ==
    /\ Handle("DISCONNECTED") /\ s_boot_done
    /\ s_retry' = Counted(s_retry)
    /\ s_ip' = FALSE
    /\ link' = "connecting"
    /\ UNCHANGED <<s_boot_done, bits, ap>>

BootRetry ==
    /\ Handle("DISCONNECTED") /\ ~s_boot_done /\ s_retry < MaxRetry
    /\ s_retry' = s_retry + 1
    /\ link' = "connecting"
    /\ UNCHANGED <<s_boot_done, s_ip, bits, ap>>

GiveUpQuietly ==
    /\ Handle("DISCONNECTED") /\ ~s_boot_done /\ s_retry >= MaxRetry
    /\ UNCHANGED <<link, s_retry, s_boot_done, s_ip, bits, ap>>

GiveUp ==
    /\ Handle("DISCONNECTED") /\ ~s_boot_done /\ s_retry >= MaxRetry
    /\ bits' = bits \cup {"FAIL"}
    /\ UNCHANGED <<link, s_retry, s_boot_done, s_ip, ap>>

GotIp ==
    /\ Handle("GOT_IP")
    /\ s_ip' = TRUE
    /\ s_boot_done' = TRUE
    /\ s_retry' = 0
    /\ bits' = bits \cup {"GOT_IP"}
    /\ UNCHANGED <<link, ap>>

Handler == HandleStart \/ LinkLost \/ BootRetry \/ GiveUp \/ GotIp

-----------------------------------------------------------------------------
WifiTypeOK ==
    /\ link \in {"off", "connecting", "associated", "up"}
    /\ events \in Seq({"START", "DISCONNECTED", "GOT_IP"})
    /\ s_retry \in 0 .. MaxRetry + 1
    /\ s_boot_done \in BOOLEAN
    /\ s_ip \in BOOLEAN
    /\ bits \subseteq {"GOT_IP", "FAIL"}
    /\ ap \in BOOLEAN

Pending(e) == \E k \in 1 .. Len(events) : events[k] = e

(* Once the device has had an address it never stops trying: whenever the  *)
(* link is down, an attempt is under way or an event that starts one is    *)
(* posted, in whatever order late events are handled ("a silent offline    *)
(* box that only a power cycle revives", ev_handler).                      *)
NeverAbandoned ==
    (s_boot_done /\ link = "off") => Pending("DISCONNECTED")

(* The address the device reports is one it has, unless the loss of the    *)
(* link is still to be handled; and network_wifi_connect is never told     *)
(* both that it has the network and that it has not (ev_handler).          *)
AddressHonest ==
    /\ s_ip => link = "up" \/ Pending("DISCONNECTED")
    /\ bits # {"GOT_IP", "FAIL"}
=============================================================================
