--------------------------- MODULE QnetServerLive ---------------------------
(***************************************************************************)
(* FFSplit convergence: at some point the clients go quiet, that is they   *)
(* stay connected and report nothing more, and only deliveries remain.     *)
(***************************************************************************)
EXTENDS QnetServerMC

VARIABLE quiet

liveVars == <<vars, quiet>>

LiveInit == Init /\ quiet = FALSE

GoQuiet == ~quiet /\ quiet' = TRUE /\ UNCHANGED vars

LiveNext ==
    \/ ~quiet /\ Next /\ UNCHANGED quiet
    \/ GoQuiet
    \/ quiet /\ Delivery /\ UNCHANGED quiet

(* While a vote or an answer is on its way, one of them arrives: clients   *)
(* read their sockets, and a session task whose socket is readable gets    *)
(* s_mux, which every turn releases within the receive timeout.            *)
LiveSpec ==
    LiveInit /\ [][LiveNext]_liveVars /\ WF_liveVars(Delivery /\ UNCHANGED quiet)

(* FFSplit: once the clients have settled and are quiet, each of them ends *)
(* up with the vote of the last decision; no ACK stays stuck behind a NACK *)
(* whose answer was discarded (recompute, on_vote_info_reply).             *)
Converges == (quiet /\ Settled) ~> (Settled /\ Agreed)
=============================================================================
