------------------------------ MODULE Framing ------------------------------
(***************************************************************************)
(* One session of firmware/qdevice/server.c reading its byte stream: how   *)
(* tp_recv, recv_frame and the receive loop of session_task cut the stream *)
(* into frames, and what a timeout in the middle of one does.              *)
(*                                                                         *)
(* A byte is abstracted to the frame length and the offset it has in the   *)
(* frame it was sent in: a header that is read from offset 0 declares its  *)
(* frame's length, any other run of bytes read as a header declares        *)
(* anything.  Time is abstracted: a timeout may come whenever no byte is   *)
(* waiting.  A byte written behind the stash lands in other variables of   *)
(* the firmware: what happens then is not modelled, the session stays in   *)
(* UNDEFINED.  What a frame means is QnetServer.                           *)
(***************************************************************************)
EXTENDS Integers, Sequences

CONSTANTS HeaderLen,     \* QESP_MSG_HEADER_LEN
          Cap,           \* QESP_RX_SIZE, the size of the stash s_rx
          SizeMod,       \* 2^w for the w bits of size_t
          Lengths,       \* values of the 32-bit length field
          MaxInFlight    \* bound: bytes sent and not yet read

ASSUME SizesAssumption ==
    /\ HeaderLen \in Nat \ {0}
    /\ Cap \in Nat /\ HeaderLen <= Cap
    /\ SizeMod \in Nat /\ Cap < SizeMod
    /\ Lengths \subseteq 0 .. SizeMod - 1
ASSUME MaxInFlightAssumption == MaxInFlight \in Nat

VARIABLES out,    \* the byte the peer sends next
          wire,   \* bytes sent and not yet read
          rx,     \* bytes of the current frame in the stash
          want,   \* bytes still asked for by the tp_recv that is running
          pc,     \* reading the header or the body, in on_frame, closed,
                  \* past the end of the stash
          st      \* state of the session

vars == <<out, wire, rx, want, pc, st>>

Byte == [len : Lengths, off : Nat]

Init ==
    /\ out \in [len : Lengths, off : {0}]
    /\ wire = <<>>
    /\ rx = <<>>
    /\ want = HeaderLen
    /\ pc = "HEADER"
    /\ st = "CONNECTED"

-----------------------------------------------------------------------------
(* The peer sends whole frames, one byte at a time and as slowly as it     *)
(* likes.                                                                  *)

PeerSend ==
    /\ Len(wire) < MaxInFlight
    /\ wire' = Append(wire, out)
    /\ out' \in IF out.off + 1 < HeaderLen + out.len
                THEN {[out EXCEPT !.off = @ + 1]}
                ELSE [len : Lengths, off : {0}]
    /\ UNCHANGED <<rx, want, pc, st>>

-----------------------------------------------------------------------------
(* session_task *)

Reading == pc \in {"HEADER", "BODY"} /\ want > 0

(* tp_recv, network_tls_read *)
Recv ==
    /\ Reading
    /\ wire # <<>>
    /\ Len(rx) < Cap
    /\ rx' = Append(rx, Head(wire))
    /\ wire' = Tail(wire)
    /\ want' = want - 1
    /\ UNCHANGED <<out, pc, st>>

(* tp_recv, asked for more than the stash holds: the byte is written       *)
(* behind it.                                                              *)
Overrun ==
    /\ Reading
    /\ wire # <<>>
    /\ Len(rx) = Cap
    /\ pc' = "UNDEFINED"
    /\ UNCHANGED <<out, wire, rx, want, st>>

(* The bytes are those of one frame, from its first. *)
FromFrameStart(bytes) ==
    \A i \in 1 .. Len(bytes) :
        bytes[i].off = i - 1 /\ bytes[i].len = bytes[1].len

(* The lengths a header in the stash may declare. *)
Declared == IF FromFrameStart(rx) THEN {rx[1].len} ELSE Lengths

FitsUnchecked(l) == TRUE

(* qesp_msg_check_header: the sum is of type size_t. *)
Fits(l) == (HeaderLen + l) % SizeMod <= Cap

HeaderAccepted ==
    /\ pc = "HEADER"
    /\ want = 0
    /\ \E l \in Declared : Fits(l) /\ want' = l
    /\ pc' = "BODY"
    /\ UNCHANGED <<out, wire, rx, st>>

(* Too long, or no known message type: bytes out of place may be neither. *)
HeaderRejected ==
    /\ pc = "HEADER"
    /\ want = 0
    /\ FromFrameStart(rx) => \E l \in Declared : ~Fits(l)
    /\ pc' = "CLOSED"
    /\ UNCHANGED <<out, wire, rx, want, st>>

FrameComplete ==
    /\ pc = "BODY"
    /\ want = 0
    /\ pc' = "FRAME"
    /\ UNCHANGED <<out, wire, rx, want, st>>

(* The next turn reads a header into an empty stash. *)
NextTurn ==
    /\ pc' = "HEADER"
    /\ rx' = <<>>
    /\ want' = HeaderLen

(* on_frame moves the session on or leaves it where it is. *)
OnFrame ==
    /\ pc = "FRAME"
    /\ NextTurn
    /\ st' \in {st, CASE st = "CONNECTED" -> "PREINIT_DONE"
                      [] st # "CONNECTED" -> "ACTIVE"}
    /\ UNCHANGED <<out, wire>>

(* on_frame refuses, or its reply cannot be sent. *)
OnFrameFails ==
    /\ pc = "FRAME"
    /\ pc' = "CLOSED"
    /\ UNCHANGED <<out, wire, rx, want, st>>

AnyStateWaits == TRUE

(* A session that outlives a timeout. *)
WaitsOn == st = "ACTIVE"

(* No byte came in time.  What was read of the frame is forgotten. *)
Timeout ==
    /\ Reading
    /\ wire = <<>>
    /\ WaitsOn
    /\ NextTurn
    /\ UNCHANGED <<out, wire, st>>

(* The peer closed or is dead, or the handshake was not prompt. *)
Dead ==
    /\ Reading
    /\ wire = <<>>
    /\ pc' = "CLOSED"
    /\ UNCHANGED <<out, wire, rx, want, st>>

Next ==
    \/ PeerSend
    \/ Recv \/ Overrun
    \/ HeaderAccepted \/ HeaderRejected
    \/ FrameComplete
    \/ OnFrame \/ OnFrameFails
    \/ Timeout \/ Dead

Spec == Init /\ [][Next]_vars

-----------------------------------------------------------------------------
(* Properties *)

TypeOK ==
    /\ out \in Byte
    /\ wire \in Seq(Byte)
    /\ rx \in Seq(Byte)
    /\ want \in Nat
    /\ pc \in {"HEADER", "BODY", "FRAME", "CLOSED", "UNDEFINED"}
    /\ st \in {"CONNECTED", "PREINIT_DONE", "ACTIVE"}

(* What has been read and is still asked for fits the stash, or the sum of *)
(* header length and length field has wrapped: no frame between the size   *)
(* of the stash and the width of size_t is let in, also when the stream is *)
(* read from the wrong place and the length is taken from the middle of a  *)
(* frame (recv_frame, qesp_msg_check_header).                              *)
FitsUnlessWrapped == Len(rx) + want <= Cap \/ Len(rx) + want >= SizeMod

(* What has been read and is still asked for fits the stash: "the header   *)
(* is validated for type/size", "oversize frames are drained and answered" *)
(* (recv_frame).  The code does not keep it for the largest lengths: their *)
(* sum with the header length wraps in the 32 bits of size_t.              *)
FitsStash == Len(rx) + want <= Cap

(* A frame that is too long does not end the session: "drain, answer       *)
(* MESSAGE_TOO_LONG, stay connected" (session_task).  The code does not    *)
(* keep it: recv_frame returns -2 for every header it refuses.             *)
OversizeKeepsSession ==
    [][(pc = "HEADER" /\ want = 0 /\ FromFrameStart(rx)) => pc' # "CLOSED"]_vars

(* Until a session is ACTIVE it reads the peer's frames from their first   *)
(* byte: whichever way the handshake is delayed, INIT is never read out of *)
(* the middle of another frame (session_task's timeout).  Past an overrun  *)
(* nothing is said.                                                        *)
HandshakeInSync ==
    (st # "ACTIVE" /\ pc # "UNDEFINED") => FromFrameStart(rx)
=============================================================================
