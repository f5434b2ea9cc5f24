--------------------------- MODULE FramingProofs ---------------------------
(***************************************************************************)
(* Framing, for any header length, stash, width of size_t, set of lengths  *)
(* and amount of data in flight.                                           *)
(***************************************************************************)
EXTENDS Framing, TLAPS

(* The initial states are well typed. *)
LEMMA TypeInit == Init => TypeOK
BY SizesAssumption DEF Init, TypeOK, Byte

(* A step of the peer leaves a byte as the next one to send. *)
LEMMA NextOut ==
    ASSUME TypeOK, PeerSend
    PROVE  out' \in Byte
<1>1. CASE out.off + 1 < HeaderLen + out.len
  <2>1. out' = [out EXCEPT !.off = @ + 1]
    BY <1>1 DEF PeerSend
  <2>2. out \in Byte
    BY DEF TypeOK
  <2>3. QED BY <2>1, <2>2 DEF Byte
<1>2. CASE ~(out.off + 1 < HeaderLen + out.len)
  <2>1. out' \in [len : Lengths, off : {0}]
    BY <1>2 DEF PeerSend
  <2>2. QED BY <2>1 DEF Byte
<1>3. QED BY <1>1, <1>2

(* A read moves the first byte of the wire to the stash. *)
LEMMA ReadByte ==
    ASSUME TypeOK, Recv
    PROVE  /\ Len(wire) \in Nat /\ Len(wire) > 0
           /\ wire[1] \in Byte
           /\ rx' = Append(rx, wire[1])
           /\ Len(rx) \in Nat
           /\ rx' \in Seq(Byte)
           /\ wire' = Tail(wire)
           /\ wire' \in Seq(Byte)
           /\ Len(wire') = Len(wire) - 1
           /\ \A i \in 1 .. Len(wire') : wire'[i] = wire[i + 1]
<1> USE DEF TypeOK, Recv
<1>1. Len(wire) \in Nat /\ Len(wire) > 0 /\ wire[1] \in Byte /\ Head(wire) = wire[1]
  OBVIOUS
<1>2. rx' = Append(rx, wire[1]) /\ rx' \in Seq(Byte) /\ Len(rx) \in Nat
  BY <1>1
<1>3. /\ wire' = Tail(wire)
      /\ wire' \in Seq(Byte)
      /\ Len(wire') = Len(wire) - 1
      /\ \A i \in 1 .. Len(wire') : wire'[i] = wire[i + 1]
  BY <1>1
<1>4. QED BY <1>1, <1>2, <1>3

(* A declared length is one of the lengths. *)
LEMMA DeclaredLength ==
    ASSUME TypeOK, pc = "HEADER", rx # <<>>, NEW l \in Declared
    PROVE  l \in Lengths /\ l \in Nat
<1>1. Lengths \subseteq Nat
  BY SizesAssumption
<1>2. rx[1] \in Byte
  BY DEF TypeOK
<1>3. QED BY <1>1, <1>2 DEF Declared, Byte

(* Where the reader is within the frame it believes to read. *)
Filled ==
    /\ pc = "HEADER" => Len(rx) + want = HeaderLen
    /\ pc \in {"BODY", "FRAME"} => Len(rx) >= HeaderLen

(* Every action keeps the types and the reader's place. *)
LEMMA TypeStep ==
    ASSUME TypeOK, Filled, [Next]_vars
    PROVE  TypeOK' /\ Filled'
<1> USE SizesAssumption DEF TypeOK, Filled
<1>1. CASE PeerSend
  <2>1. out' \in Byte BY <1>1, NextOut
  <2>2. wire' \in Seq(Byte) BY <1>1 DEF PeerSend
  <2>3. QED BY <1>1, <2>1, <2>2 DEF PeerSend
<1>2. CASE Recv
  <2>1. rx' \in Seq(Byte) /\ wire' \in Seq(Byte) /\ Len(rx') = Len(rx) + 1
    BY <1>2, ReadByte
  <2>2. Len(rx) \in Nat /\ want' = want - 1 /\ want > 0
    BY <1>2 DEF Recv, Reading
  <2>3. UNCHANGED <<out, pc, st>>
    BY <1>2 DEF Recv
  <2>4. want' \in Nat /\ Len(rx') + want' = Len(rx) + want
    BY <2>1, <2>2
  <2>5. TypeOK'
    BY <2>1, <2>3, <2>4
  <2>6. pc' = "HEADER" => Len(rx') + want' = HeaderLen
    BY <2>3, <2>4
  <2>7. pc' \in {"BODY", "FRAME"} => Len(rx') >= HeaderLen
    <3>1. SUFFICES ASSUME pc \in {"BODY", "FRAME"} PROVE Len(rx) + 1 >= HeaderLen
      BY <2>1, <2>3
    <3>2. Len(rx) >= HeaderLen
      BY <3>1
    <3>3. QED BY <2>2, <3>2
  <2>8. QED BY <2>5, <2>6, <2>7
<1>3. CASE HeaderAccepted
  <2>1. rx # <<>> /\ Len(rx) = HeaderLen
    BY <1>3 DEF HeaderAccepted
  <2>2. want' \in Nat
    BY <1>3, <2>1, DeclaredLength DEF HeaderAccepted
  <2>3. QED BY <1>3, <2>1, <2>2 DEF HeaderAccepted
<1>4. CASE HeaderRejected
  BY <1>4 DEF HeaderRejected
<1>5. CASE FrameComplete
  BY <1>5 DEF FrameComplete
<1>6. CASE OnFrame
  BY <1>6 DEF OnFrame, NextTurn
<1>7. CASE OnFrameFails
  BY <1>7 DEF OnFrameFails
<1>8. CASE Timeout
  BY <1>8 DEF Timeout, NextTurn
<1>9. CASE Dead
  BY <1>9 DEF Dead
<1>10. CASE Overrun
  BY <1>10 DEF Overrun
<1>11. CASE UNCHANGED vars
  BY <1>11 DEF vars
<1>12. QED BY <1>1, <1>2, <1>3, <1>4, <1>5, <1>6, <1>7, <1>8, <1>9, <1>10, <1>11
           DEF Next

LEMMA FilledInit == Init => Filled
BY SizesAssumption DEF Init, Filled

-----------------------------------------------------------------------------
(* The stash *)

(* Every action keeps the frame within the stash or beyond size_t. *)
LEMMA StashStep ==
    ASSUME TypeOK, Filled, FitsUnlessWrapped, [Next]_vars
    PROVE  FitsUnlessWrapped'
<1> USE SizesAssumption DEF TypeOK, Filled, FitsUnlessWrapped
<1>1. CASE PeerSend
  BY <1>1 DEF PeerSend
<1>2. CASE Recv
  <2>1. Len(rx') = Len(rx) + 1 /\ Len(rx) \in Nat
    BY <1>2, ReadByte
  <2>2. QED BY <1>2, <2>1 DEF Recv
<1>3. CASE HeaderAccepted
  <2>1. rx # <<>> /\ Len(rx) = HeaderLen
    BY <1>3 DEF HeaderAccepted
  <2>2. PICK l \in Declared : Fits(l) /\ want' = l
    BY <1>3 DEF HeaderAccepted
  <2>3. l \in Lengths /\ l \in Nat
    BY <1>3, <2>1, DeclaredLength DEF HeaderAccepted
  <2>4. CASE HeaderLen + l < SizeMod
    <3>1. (HeaderLen + l) % SizeMod = HeaderLen + l
      BY <2>3, <2>4
    <3>2. HeaderLen + l <= Cap
      BY <2>2, <3>1 DEF Fits
    <3>3. QED BY <1>3, <2>1, <2>2, <3>2 DEF HeaderAccepted
  <2>5. CASE HeaderLen + l >= SizeMod
    BY <1>3, <2>1, <2>2, <2>5 DEF HeaderAccepted
  <2>6. QED BY <2>3, <2>4, <2>5
<1>4. CASE OnFrame \/ Timeout
  BY <1>4 DEF OnFrame, Timeout, NextTurn
<1>5. CASE \/ HeaderRejected \/ FrameComplete \/ OnFrameFails \/ Dead \/ Overrun
           \/ UNCHANGED vars
  BY <1>5 DEF HeaderRejected, FrameComplete, OnFrameFails, Dead, Overrun, vars
<1>6. QED BY <1>1, <1>2, <1>3, <1>4, <1>5 DEF Next

(* What is read fits the stash, wherever in the stream the reader believes *)
(* a frame to begin, unless the length it was told wraps the sum of        *)
(* size_t: the wrap is the only way past the check (recv_frame,            *)
(* qesp_msg_check_header).                                                 *)
THEOREM StashSafety == Spec => []FitsUnlessWrapped
<1>1. Init => FitsUnlessWrapped
  BY SizesAssumption DEF Init, FitsUnlessWrapped
<1>2. QED BY <1>1, StashStep, TypeInit, FilledInit, TypeStep, PTL DEF Spec
-----------------------------------------------------------------------------
(* The handshake *)

(* b can be the byte after a. *)
Follows(a, b) ==
    IF a.off + 1 < HeaderLen + a.len
    THEN b.len = a.len /\ b.off = a.off + 1
    ELSE b.off = 0

(* The byte after the i-th on the wire, and the one read next. *)
After(i) == IF i < Len(wire) THEN wire[i + 1] ELSE out
NextByte == After(0)

(* The peer sends frames without gaps. *)
Gapless == \A i \in 1 .. Len(wire) : Follows(wire[i], After(i))

(* While the handshake lasts, the stash holds the beginning of one frame   *)
(* and the byte read next is the one that follows.                         *)
InSync ==
    st # "ACTIVE" =>
        /\ FromFrameStart(rx)
        /\ pc \notin {"CLOSED", "UNDEFINED"} =>
             IF rx = <<>> THEN NextByte.off = 0
                          ELSE Follows(rx[Len(rx)], NextByte)
        /\ pc = "BODY" => Len(rx) + want = HeaderLen + rx[1].len
        /\ pc = "FRAME" => Len(rx) = HeaderLen + rx[1].len

LEMMA GaplessStep ==
    ASSUME TypeOK, Gapless, [Next]_vars
    PROVE  Gapless'
<1>1. CASE PeerSend
  <2>1. /\ Len(wire) \in Nat
        /\ Len(wire') = Len(wire) + 1
        /\ \A i \in 1 .. Len(wire) : wire'[i] = wire[i]
        /\ wire'[Len(wire) + 1] = out
    BY <1>1 DEF PeerSend, TypeOK
  <2>2. Follows(out, out')
    <3>1. CASE out.off + 1 < HeaderLen + out.len
      <4>1. out' = [out EXCEPT !.off = @ + 1]
        BY <1>1, <3>1 DEF PeerSend
      <4>2. QED BY <3>1, <4>1 DEF Follows, TypeOK, Byte
    <3>2. CASE ~(out.off + 1 < HeaderLen + out.len)
      <4>1. out' \in [len : Lengths, off : {0}]
        BY <1>1, <3>2 DEF PeerSend
      <4>2. QED BY <3>2, <4>1 DEF Follows
    <3>3. QED BY <3>1, <3>2
  <2>3. ASSUME NEW i \in 1 .. Len(wire')
        PROVE  Follows(wire[i], After(i))'
    <3>1. CASE i = Len(wire) + 1
      BY <2>1, <2>2, <3>1 DEF After, Follows
    <3>2. CASE i # Len(wire) + 1
      <4>1. i \in 1 .. Len(wire)
        BY <2>1, <3>2
      <4>2. Follows(wire[i], After(i))
        BY <4>1 DEF Gapless
      <4>3. wire'[i] = wire[i]
        BY <2>1, <4>1
      <4>4. After(i)' = After(i)
        BY <2>1, <4>1 DEF After
      <4>5. QED BY <4>2, <4>3, <4>4 DEF Follows
    <3>3. QED BY <3>1, <3>2
  <2>4. QED BY <2>3 DEF Gapless
<1>2. CASE Recv
  <2>1. /\ Len(wire) \in Nat
        /\ Len(wire') = Len(wire) - 1
        /\ \A i \in 1 .. Len(wire') : wire'[i] = wire[i + 1]
        /\ out' = out
    BY <1>2, ReadByte DEF Recv
  <2>2. ASSUME NEW i \in 1 .. Len(wire')
        PROVE  Follows(wire[i], After(i))'
    <3>1. i + 1 \in 1 .. Len(wire)
      BY <2>1
    <3>2. Follows(wire[i + 1], After(i + 1))
      BY <3>1 DEF Gapless
    <3>3. wire'[i] = wire[i + 1]
      BY <2>1
    <3>4. After(i)' = After(i + 1)
      BY <2>1, <3>1 DEF After
    <3>5. QED BY <3>2, <3>3, <3>4 DEF Follows
  <2>3. QED BY <2>2 DEF Gapless
<1>3. ASSUME UNCHANGED <<out, wire>>
      PROVE  Gapless'
  BY <1>3 DEF Gapless, Follows, After
<1>4. QED
  BY <1>1, <1>2, <1>3
  DEF Next, HeaderAccepted, HeaderRejected, FrameComplete, OnFrame, OnFrameFails,
      Timeout, Dead, Overrun, vars

(* A byte appended to the wire is not the one read next. *)
LEMMA NextByteStays ==
    ASSUME TypeOK, PeerSend
    PROVE  NextByte' = NextByte
<1>1. /\ Len(wire) \in Nat
      /\ wire' = Append(wire, out)
  BY DEF PeerSend, TypeOK
<1>2. CASE Len(wire) = 0
  <2>1. Len(wire') = 1 /\ wire'[1] = out
    BY <1>1, <1>2 DEF TypeOK
  <2>2. QED BY <1>2, <2>1 DEF NextByte, After
<1>3. CASE Len(wire) > 0
  <2>1. Len(wire') > 0 /\ wire'[1] = wire[1]
    BY <1>1, <1>3 DEF TypeOK
  <2>2. QED BY <1>3, <2>1 DEF NextByte, After
<1>4. QED BY <1>1, <1>2, <1>3

(* Every action keeps the handshake in step with the stream. *)
LEMMA SyncStep ==
    ASSUME TypeOK, Filled, Gapless, InSync, [Next]_vars
    PROVE  InSync'
<1>0. SUFFICES ASSUME st' # "ACTIVE" PROVE InSync'
  BY DEF InSync
<1>1. CASE PeerSend
  <2>1. NextByte' = NextByte
    BY <1>1, NextByteStays
  <2>2. QED BY <1>0, <1>1, <2>1 DEF PeerSend, InSync, FromFrameStart, Follows
<1>2. CASE Recv
  <2>1. /\ Len(wire) \in Nat /\ Len(wire) > 0
        /\ rx' = Append(rx, wire[1])
        /\ rx \in Seq(Byte) /\ Len(rx) \in Nat
        /\ wire[1] \in Byte
        /\ Len(wire') = Len(wire) - 1
        /\ \A i \in 1 .. Len(wire') : wire'[i] = wire[i + 1]
        /\ UNCHANGED <<out, pc, st>>
        /\ pc \in {"HEADER", "BODY"} /\ want > 0 /\ want' = want - 1
    BY <1>2, ReadByte DEF Recv, TypeOK, Reading
  <2>2. NextByte = wire[1]
    BY <2>1 DEF NextByte, After
  <2>3. /\ FromFrameStart(rx)
        /\ IF rx = <<>> THEN wire[1].off = 0 ELSE Follows(rx[Len(rx)], wire[1])
        /\ pc = "BODY" => Len(rx) + want = HeaderLen + rx[1].len
    BY <1>0, <2>1, <2>2 DEF InSync
  <2>4. /\ Len(rx') = Len(rx) + 1
        /\ \A i \in 1 .. Len(rx) : rx'[i] = rx[i]
        /\ rx'[Len(rx) + 1] = wire[1]
        /\ rx' # <<>>
    BY <2>1
  <2>5. NextByte' = After(1)
    BY <2>1 DEF NextByte, After
  <2>6. Follows(rx'[Len(rx')], NextByte')
    BY <2>1, <2>4, <2>5 DEF Gapless
  <2>7. wire[1].off = Len(rx) /\ (rx # <<>> => wire[1].len = rx[1].len)
    <3>1. CASE rx = <<>>
      BY <2>3, <3>1
    <3>2. CASE rx # <<>>
      <4>1. Len(rx) \in 1 .. Len(rx)
        BY <2>1, <3>2
      <4>2. rx[Len(rx)].off = Len(rx) - 1 /\ rx[Len(rx)].len = rx[1].len
        BY <2>3, <4>1 DEF FromFrameStart
      <4>3. rx[1].len \in Nat /\ want \in Nat
        <5>1. rx[1] \in Byte
          BY <2>1, <4>1
        <5>2. rx[1].len \in Lengths
          BY <5>1 DEF Byte
        <5>3. Lengths \subseteq Nat
          BY SizesAssumption
        <5>4. QED BY <5>2, <5>3 DEF TypeOK
      <4>4. Len(rx) < HeaderLen + rx[1].len
        <5>1. CASE pc = "HEADER"
          BY <2>1, <4>3, <5>1, SizesAssumption DEF Filled
        <5>2. CASE pc = "BODY"
          BY <2>1, <2>3, <4>3, <5>2, SizesAssumption
        <5>3. QED BY <2>1, <5>1, <5>2
      <4>5. QED BY <2>1, <2>3, <3>2, <4>2, <4>4 DEF Follows
    <3>3. QED BY <3>1, <3>2
  <2>8. FromFrameStart(rx)' /\ (rx # <<>> => rx'[1].len = rx[1].len)
    <3>1. ASSUME NEW i \in 1 .. Len(rx')
          PROVE  rx'[i].off = i - 1 /\ rx'[i].len = rx'[1].len
      <4>1. CASE i = Len(rx) + 1
        BY <2>1, <2>4, <2>7, <4>1
      <4>2. CASE i \in 1 .. Len(rx)
        BY <2>1, <2>3, <2>4, <4>2 DEF FromFrameStart
      <4>3. QED BY <2>1, <2>4, <4>1, <4>2
    <3>2. QED BY <2>1, <2>4, <3>1 DEF FromFrameStart
  <2>9. pc' = "BODY" => Len(rx') + want' = HeaderLen + rx'[1].len
    <3>1. SUFFICES ASSUME pc = "BODY" PROVE Len(rx') + want' = HeaderLen + rx'[1].len
      BY <2>1
    <3>2. rx # <<>> /\ want \in Nat
      BY <2>1, <3>1, SizesAssumption DEF Filled, TypeOK
    <3>3. QED BY <2>1, <2>3, <2>4, <2>8, <3>1, <3>2
  <2>10. QED BY <2>1, <2>4, <2>6, <2>8, <2>9 DEF InSync
<1>3. CASE HeaderAccepted
  <2>1. /\ UNCHANGED <<out, wire, rx, st>> /\ pc = "HEADER" /\ want = 0
        /\ pc' = "BODY"
    BY <1>3 DEF HeaderAccepted
  <2>2. FromFrameStart(rx) /\ rx # <<>> /\ Len(rx) = HeaderLen
    BY <1>0, <2>1, SizesAssumption DEF InSync, Filled, TypeOK
  <2>3. want' = rx[1].len
    BY <1>3, <2>2 DEF HeaderAccepted, Declared
  <2>4. NextByte' = NextByte
    BY <2>1 DEF NextByte, After
  <2>5. QED BY <1>0, <2>1, <2>2, <2>3, <2>4 DEF InSync, FromFrameStart, Follows
<1>4. CASE FrameComplete
  <2>1. /\ UNCHANGED <<out, wire, rx, st>> /\ pc = "BODY" /\ want = 0
        /\ pc' = "FRAME"
    BY <1>4 DEF FrameComplete
  <2>2. NextByte' = NextByte
    BY <2>1 DEF NextByte, After
  <2>3. Len(rx) \in Nat
    BY DEF TypeOK
  <2>4. QED BY <1>0, <2>1, <2>2, <2>3 DEF InSync, FromFrameStart, Follows
<1>5. CASE OnFrame
  <2>1. /\ UNCHANGED <<out, wire>> /\ pc = "FRAME" /\ rx' = <<>>
        /\ pc' = "HEADER" /\ st # "ACTIVE"
    BY <1>0, <1>5 DEF OnFrame, NextTurn, TypeOK
  <2>2. NextByte' = NextByte
    BY <2>1 DEF NextByte, After
  <2>3. Len(rx) \in 1 .. Len(rx) /\ rx # <<>>
    BY <2>1, SizesAssumption DEF Filled, TypeOK
  <2>4. rx[Len(rx)].off = Len(rx) - 1 /\ rx[Len(rx)].len = rx[1].len
    BY <2>1, <2>3 DEF InSync, FromFrameStart
  <2>5. Len(rx) = HeaderLen + rx[1].len /\ Follows(rx[Len(rx)], NextByte)
    BY <2>1, <2>3 DEF InSync
  <2>6. NextByte.off = 0
    BY <2>3, <2>4, <2>5 DEF Follows
  <2>7. FromFrameStart(rx)'
    BY <2>1 DEF FromFrameStart
  <2>8. QED BY <2>1, <2>2, <2>6, <2>7 DEF InSync
<1>6. CASE Timeout
  BY <1>0, <1>6 DEF Timeout, WaitsOn
<1>7. CASE HeaderRejected \/ OnFrameFails \/ Dead \/ Overrun
  BY <1>0, <1>7 DEF HeaderRejected, OnFrameFails, Dead, Overrun, InSync,
                    FromFrameStart
<1>8. CASE UNCHANGED vars
  BY <1>0, <1>8 DEF vars, InSync, FromFrameStart, Follows, NextByte, After
<1>9. QED BY <1>1, <1>2, <1>3, <1>4, <1>5, <1>6, <1>7, <1>8 DEF Next

(* However the peer pauses and however the reads are cut, a session that   *)
(* is not ACTIVE reads the peer's frames from their first byte: a timeout  *)
(* ends it rather than leave it in the middle of a frame.                  *)
THEOREM HandshakeSafety == Spec => []HandshakeInSync
<1>1. Init => Gapless /\ InSync
  <2>1. SUFFICES ASSUME Init PROVE Gapless /\ InSync
    OBVIOUS
  <2>2. Len(wire) = 0 /\ Len(rx) = 0 /\ rx = <<>> /\ out.off = 0 /\ pc = "HEADER"
    <3>1. out \in [len : Lengths, off : {0}]
      BY <2>1 DEF Init
    <3>2. out.off = 0
      BY <3>1
    <3>3. QED BY <2>1, <3>2 DEF Init
  <2>3. QED BY <2>2 DEF Gapless, InSync, FromFrameStart, NextByte, After
<1>2. InSync => HandshakeInSync
  BY DEF InSync, HandshakeInSync
<1>3. QED
  BY <1>1, <1>2, TypeInit, FilledInit, TypeStep, GaplessStep, SyncStep, PTL DEF Spec
=============================================================================
