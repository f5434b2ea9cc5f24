------------------------------ MODULE DeviceMC ------------------------------
(***************************************************************************)
(* Small instances of Device: images and what is flashed into NVS.         *)
(***************************************************************************)
EXTENDS Device

(* Every text that occurs: the device's own and the ones flashed below. *)
AllTexts == {"", DefaultHost, "qesp-010203", "home", "secret", "cafe", "qd"}

(* sdkconfig.release: no credentials, the default port. *)
ReleaseImage == [ssid |-> "", pass |-> "", port |-> 5403]

Provisioned == [Erased EXCEPT !.wssid = "home", !.wpass = "secret"]
OpenNetwork == [Erased EXCEPT !.wssid = "cafe"]
Current ==
    [Provisioned EXCEPT !.ver = 1, !.host = "qd", !.netmode = 2, !.ip = 7,
                        !.logl = 9, !.qdport = 6000]
Newer == [Current EXCEPT !.ver = 2]

(* Provisioned by hand with the other keys of docs/provisioning.md. *)
HandWritten ==
    [Provisioned EXCEPT !.host = "qd", !.netmode = 1, !.ip = 7, !.logl = 5,
                        !.qdport = 6000]

AllNamespaces == {Erased, Provisioned, OpenNetwork, HandWritten, Current, Newer}
=============================================================================
