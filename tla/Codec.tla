------------------------------- MODULE Codec -------------------------------
(***************************************************************************)
(* The message codec: firmware/qdevice/tlv.c (options) and msg.c (header,  *)
(* builders, decoder), and the stash it decodes from.                      *)
(*                                                                         *)
(* Bytes are cells of base Base (256 in the code), so that every multi-    *)
(* byte field is really split and put together again and still fits TLC's  *)
(* integers.  A message is its type, a function from the names of its      *)
(* options to their values, and its nodes.  Error codes are not told       *)
(* apart: all that on_frame asks is whether the frame was decoded.         *)
(*                                                                         *)
(* The stash s_rx is shared by all sessions: behind the frame that is      *)
(* decoded lie the bytes of an earlier one.                                *)
(***************************************************************************)
EXTENDS Naturals, Sequences, FiniteSets, SequencesExt

CONSTANTS Base,        \* 256
          SizeMod,     \* 2^w for the w bits of size_t
          RxSize,      \* QESP_RX_SIZE
          MaxNodes,    \* QESP_MAX_NODES
          MaxList,     \* QESP_MAX_MSG_LIST, _OPT_LIST, _ALGO_LIST
          ListRoom,    \* numbers of a list that a builder stages
          Messages,    \* what peers send
          Caps,        \* room a builder is given
          Earlier,     \* messages whose bytes an earlier turn left behind
          Unknown,     \* options of a newer protocol: code and value
          Noise        \* cells a faulty sender puts in the place of others

(* Two cells hold every code, and a limit is a number. *)
ASSUME SizesAssumption ==
    /\ Base \in Nat /\ Base > 4
    /\ MaxNodes \in Nat /\ MaxList \in Nat /\ ListRoom \in Nat
    /\ Caps \subseteq Nat

(* The stash is smaller than what size_t and a length of 32 bits can hold. *)
ASSUME StashAssumption ==
    /\ RxSize \in Nat /\ SizeMod \in Nat
    /\ 6 <= RxSize /\ RxSize < SizeMod /\ RxSize <= Base * Base * (Base * Base)

Rejected == [type |-> "NONE", opts |-> <<>>, nodes |-> <<>>]

VARIABLES sent,    \* the message the sender means
          how,     \* what became of it on the way
          stash,   \* s_rx
          flen,    \* how much of it is the frame
          got      \* what qesp_msg_decode returned

vars == <<sent, how, stash, flen, got>>

-----------------------------------------------------------------------------
(* Options: the codes of qesp_defs.h, and the form of the value of each *)

Code ==
    [MSG_SEQ_NUMBER |-> 0, CLUSTER_NAME |-> 1, TLS_SUPPORTED |-> 2,
     TLS_CLIENT_CERT_REQUIRED |-> 3, SUPPORTED_MESSAGES |-> 4,
     SUPPORTED_OPTIONS |-> 5, REPLY_ERROR_CODE |-> 6,
     SERVER_MAXIMUM_REQUEST_SIZE |-> 7, SERVER_MAXIMUM_REPLY_SIZE |-> 8,
     NODE_ID |-> 9, SUPPORTED_DECISION_ALGORITHMS |-> 10,
     DECISION_ALGORITHM |-> 11, HEARTBEAT_INTERVAL |-> 12, RING_ID |-> 13,
     CONFIG_VERSION |-> 14, DATA_CENTER_ID |-> 15, NODE_STATE |-> 16,
     NODE_INFO |-> 17, NODE_LIST_TYPE |-> 18, VOTE |-> 19, QUORATE |-> 20,
     TIE_BREAKER |-> 21, HEURISTICS |-> 22, KEEP_ACTIVE_PARTITION_TB |-> 23]

Name(code) == CHOOSE o \in DOMAIN Code : Code[o] = code

(* The values the decoder takes; the other numbers are taken as they are. *)
Allowed ==
    [TLS_SUPPORTED |-> 0 .. 2, NODE_STATE |-> 1 .. 3, NODE_LIST_TYPE |-> 0 .. 3,
     VOTE |-> 1 .. 5, QUORATE |-> 0 .. 1, HEURISTICS |-> 1 .. 2,
     KEEP_ACTIVE_PARTITION_TB |-> 0 .. 1]

Lists == {"SUPPORTED_MESSAGES", "SUPPORTED_OPTIONS",
          "SUPPORTED_DECISION_ALGORITHMS"}

(* How many cells a number has. *)
Width(o) ==
    CASE o \in DOMAIN Allowed \cup {"TLS_CLIENT_CERT_REQUIRED"} -> 1
      [] o \in {"REPLY_ERROR_CODE", "DECISION_ALGORITHM"} -> 2
      [] o = "CONFIG_VERSION" -> 8
      [] OTHER -> 4

TieModes == 1 .. 3      \* LOWEST, HIGHEST, NODE_ID

-----------------------------------------------------------------------------
(* Numbers, big-endian: put_u16, put_u32, put_u64 and get_u16 ... *)

Cell == 0 .. Base - 1
Base2 == Base * Base
Base4 == Base2 * Base2

PutU16(v) == <<(v \div Base) % Base, v % Base>>
PutU32(v) == PutU16(v \div Base2) \o PutU16(v % Base2)

Put(w, v) ==
    CASE w = 1 -> <<v % Base>>
      [] w = 2 -> PutU16(v)
      [] w = 4 -> PutU32(v)
      [] w = 8 -> PutU32(v \div Base4) \o PutU32(v % Base4)

GetU16(s, at) == s[at + 1] * Base + s[at + 2]
GetU32(s, at) == GetU16(s, at) * Base2 + GetU16(s, at + 2)

Get(s, at, w) ==
    CASE w = 1 -> s[at + 1]
      [] w = 2 -> GetU16(s, at)
      [] w = 4 -> GetU32(s, at)
      [] w = 8 -> GetU32(s, at) * Base4 + GetU32(s, at + 4)

-----------------------------------------------------------------------------
(* Builders *)

(* The value of an option, as cells. *)
Cells(o, v) ==
    CASE o = "CLUSTER_NAME" -> v
      [] o \in Lists -> FlattenSeq([i \in DOMAIN v |-> Put(2, v[i])])
      [] o = "RING_ID" -> Put(4, v.node) \o Put(8, v.seq)
      [] o = "TIE_BREAKER" ->
           Put(1, v.mode) \o Put(4, IF v.mode = 3 THEN v.node ELSE 0)
      [] OTHER -> Put(Width(o), v)

Tlv(code, cells) == Put(2, code) \o Put(2, Len(cells)) \o cells

(* The elements of s at the places in I. *)
Pick(s, I) ==
    LET pick[i \in 0 .. Len(s)] ==
            IF i = 0 THEN <<>>
            ELSE IF i \in I THEN Append(pick[i - 1], s[i]) ELSE pick[i - 1]
    IN  pick[Len(s)]

(* The options of f, in this order. *)
Present(order, f) == Pick(order, {i \in DOMAIN order : order[i] \in DOMAIN f})
Options(order, f) ==
    LET there == Present(order, f)
    IN  [i \in DOMAIN there |-> Tlv(Code[there[i]], Cells(there[i], f[there[i]]))]

(* qesp_tlv_add_node_info *)
NodeLayout == <<"NODE_ID", "DATA_CENTER_ID", "NODE_STATE">>
NodeInfo(n) == Tlv(Code["NODE_INFO"], FlattenSeq(Options(NodeLayout, n)))

(* The order in which the builders add options: the handshake ... *)
HandshakeLayout ==
    [PREINIT |-> <<"MSG_SEQ_NUMBER", "CLUSTER_NAME">>,
     PREINIT_REPLY |-> <<"MSG_SEQ_NUMBER", "TLS_SUPPORTED",
                         "TLS_CLIENT_CERT_REQUIRED">>,
     STARTTLS |-> <<"MSG_SEQ_NUMBER">>,
     INIT |-> <<"MSG_SEQ_NUMBER", "SUPPORTED_MESSAGES", "SUPPORTED_OPTIONS",
                "NODE_ID", "DECISION_ALGORITHM", "HEARTBEAT_INTERVAL",
                "TIE_BREAKER", "RING_ID">>,
     INIT_REPLY |-> <<"REPLY_ERROR_CODE", "SUPPORTED_MESSAGES",
                      "SUPPORTED_OPTIONS", "MSG_SEQ_NUMBER",
                      "SERVER_MAXIMUM_REQUEST_SIZE", "SERVER_MAXIMUM_REPLY_SIZE",
                      "SUPPORTED_DECISION_ALGORITHMS">>,
     SERVER_ERROR |-> <<"MSG_SEQ_NUMBER", "REPLY_ERROR_CODE">>,
     ECHO_REQUEST |-> <<"MSG_SEQ_NUMBER">>]

(* ... and the rest.  NODE_LIST has its nodes before the last option. *)
VoteLayout ==
    [NODE_LIST |-> <<"MSG_SEQ_NUMBER", "NODE_LIST_TYPE", "RING_ID",
                     "CONFIG_VERSION", "QUORATE">>,
     NODE_LIST_REPLY |-> <<"MSG_SEQ_NUMBER", "NODE_LIST_TYPE", "RING_ID", "VOTE">>,
     ASK_FOR_VOTE |-> <<"MSG_SEQ_NUMBER">>,
     ASK_FOR_VOTE_REPLY |-> <<"MSG_SEQ_NUMBER", "VOTE", "RING_ID">>,
     VOTE_INFO |-> <<"MSG_SEQ_NUMBER", "VOTE", "RING_ID">>,
     VOTE_INFO_REPLY |-> <<"MSG_SEQ_NUMBER">>,
     HEURISTICS_CHANGE |-> <<"MSG_SEQ_NUMBER", "HEURISTICS">>,
     HEURISTICS_CHANGE_REPLY |-> <<"MSG_SEQ_NUMBER", "VOTE", "RING_ID",
                                   "HEURISTICS">>]

OptionLayout ==
    [SET_OPTION |-> <<"MSG_SEQ_NUMBER", "HEARTBEAT_INTERVAL",
                      "KEEP_ACTIVE_PARTITION_TB">>,
     SET_OPTION_REPLY |-> <<"MSG_SEQ_NUMBER", "HEARTBEAT_INTERVAL",
                            "KEEP_ACTIVE_PARTITION_TB">>]

TypeCode ==
    [PREINIT |-> 0, PREINIT_REPLY |-> 1, STARTTLS |-> 2, INIT |-> 3,
     INIT_REPLY |-> 4, SERVER_ERROR |-> 5, SET_OPTION |-> 6,
     SET_OPTION_REPLY |-> 7, ECHO_REQUEST |-> 8, ECHO_REPLY |-> 9,
     NODE_LIST |-> 10, NODE_LIST_REPLY |-> 11, ASK_FOR_VOTE |-> 12,
     ASK_FOR_VOTE_REPLY |-> 13, VOTE_INFO |-> 14, VOTE_INFO_REPLY |-> 15,
     HEURISTICS_CHANGE |-> 16, HEURISTICS_CHANGE_REPLY |-> 17]

TypeName(code) == CHOOSE t \in DOMAIN TypeCode : TypeCode[t] = code

(* qesp_msg_node_list: an undefined heuristics result is left out. *)
NodeList(m) ==
    Options(VoteLayout["NODE_LIST"], m.opts)
    \o [i \in DOMAIN m.nodes |-> NodeInfo(m.nodes[i])]
    \o IF "HEURISTICS" \in DOMAIN m.opts /\ m.opts["HEURISTICS"] # 0
       THEN Options(<<"HEURISTICS">>, m.opts) ELSE <<>>

Layout(t) ==
    IF t \in DOMAIN HandshakeLayout THEN HandshakeLayout[t]
    ELSE IF t \in DOMAIN OptionLayout THEN OptionLayout[t] ELSE VoteLayout[t]

(* The options each builder adds, one after the other. *)
Parts(m) ==
    IF m.type = "NODE_LIST" THEN NodeList(m)
    ELSE Options(Layout(m.type), m.opts)

(* qesp_msg_begin, qesp_msg_end *)
Frame(code, payload) == Put(2, code) \o Put(4, Len(payload)) \o payload

AddIfRoom(b, tlv, cap) ==
    IF Len(b.buf) + Len(tlv) <= cap THEN [b EXCEPT !.buf = @ \o tlv] ELSE b

(* qesp_tlv_add, and the CALL_OR_RETURN around it. *)
Add(b, tlv, cap) ==
    IF b.ok /\ Len(b.buf) + Len(tlv) <= cap
    THEN [b EXCEPT !.buf = @ \o tlv]
    ELSE [b EXCEPT !.ok = FALSE]

(* What builders refuse: a node 0, a tie-breaker of no known mode, a list  *)
(* that is too long to be staged.                                          *)
Refused(m) ==
    \/ \E i \in DOMAIN m.nodes : m.nodes[i]["NODE_ID"] = 0
    \/ m.type = "INIT" /\ m.opts["TIE_BREAKER"].mode \notin TieModes
    \/ \E o \in DOMAIN m.opts \cap Lists : Len(m.opts[o]) > ListRoom

(* A builder, given room for cap cells: whether it succeeds, the payload. *)
Build(m, cap) ==
    LET parts == Parts(m)
        built[i \in 0 .. Len(parts)] ==
            IF i = 0 THEN [ok |-> cap >= 6 /\ ~Refused(m), buf |-> <<>>]
            ELSE Add(built[i - 1], parts[i], cap - 6)
    IN  built[Len(parts)]

-----------------------------------------------------------------------------
(* The decoder.  It reads from stash s, at offsets that count from 0. *)

Broken == [code |-> 0, at |-> 0, len |-> 0, bad |-> TRUE]

Nearly(p, end) == p + 4 > end

(* Nothing remains. *)
AtEnd(p, end) == p = end

(* The option at offset p, and where the next one is. *)
TlvAt(s, p) == [code |-> Get(s, p, 2), at |-> p + 4,
                len |-> Get(s, p + 2, 2), bad |-> FALSE]
After(s, p) == p + 4 + Get(s, p + 2, 2)

(* qesp_tlv_iter_next, again and again: the options from each offset on. *)
Iter(s, end) ==
    LET next[p \in Nat] ==
            IF AtEnd(p, end) THEN <<>>
            ELSE IF p + 4 > end \/ After(s, p) > end THEN <<Broken>>
            ELSE <<TlvAt(s, p)>> \o next[After(s, p)]
    IN  next

Tlvs(s, at, plen) == Iter(s, at + plen)[at]

IsNode(t) == ~t.bad /\ t.code = Code["NODE_INFO"]

(* qesp_tlv_val_u8, ...: the value of an option other than NODE_INFO. *)
Value(s, t) ==
    LET o == Name(t.code)
    IN  CASE o = "CLUSTER_NAME" -> SubSeq(s, t.at + 1, t.at + t.len)
          [] o \in Lists -> [i \in 1 .. t.len \div 2 |-> Get(s, t.at + 2 * (i - 1), 2)]
          [] o = "RING_ID" -> [node |-> Get(s, t.at, 4), seq |-> Get(s, t.at + 4, 8)]
          [] o = "TIE_BREAKER" ->
               LET mode == Get(s, t.at, 1)
               IN  [mode |-> mode,
                    node |-> IF mode = 3 THEN Get(s, t.at + 1, 4) ELSE 0]
          [] OTHER -> Get(s, t.at, Width(o))

(* The length a value of each form must have. *)
LengthOK(o, len) ==
    CASE o = "CLUSTER_NAME" -> TRUE
      [] o \in Lists -> len % 2 = 0 /\ len \div 2 <= MaxList
      [] o = "RING_ID" -> len = 12
      [] o = "TIE_BREAKER" -> len = 5
      [] OTHER -> len = Width(o)

ValueAsIs(o, v) == TRUE

(* decode_range, and the modes of a tie-breaker. *)
ValueOK(o, v) ==
    /\ o \in DOMAIN Allowed => v \in Allowed[o]
    /\ o = "TIE_BREAKER" => v.mode \in TieModes

(* Options that are not known are passed over. *)
WellFormed(s, t, known) ==
    /\ ~t.bad
    /\ t.code \in {Code[o] : o \in known} =>
         LengthOK(Name(t.code), t.len) /\ ValueOK(Name(t.code), Value(s, t))

(* The options that were there; of a repeated one the last. *)
LastOf(s, ts, known) ==
    [o \in {o \in known : \E i \in DOMAIN ts : ts[i].code = Code[o]} |->
        Value(s, ts[CHOOSE i \in DOMAIN ts :
                      /\ ts[i].code = Code[o]
                      /\ \A j \in DOMAIN ts : ts[j].code = Code[o] => j <= i])]

NodeFields == {"NODE_ID", "DATA_CENTER_ID", "NODE_STATE"}
NodeTlvs(s, t) == Tlvs(s, t.at, t.len)

(* decode_node_info *)
NodeOK(s, t) ==
    LET ts == NodeTlvs(s, t)
    IN  /\ \A i \in DOMAIN ts : WellFormed(s, ts[i], NodeFields)
        /\ \E i \in DOMAIN ts : ts[i].code = Code["NODE_ID"]
        /\ LastOf(s, ts, NodeFields)["NODE_ID"] # 0

(* A NODE_STATE outside of a NODE_INFO is checked and dropped. *)
TopLevel == DOMAIN Code \ {"NODE_INFO", "NODE_STATE"}

CheckHeaderOnly(s, len, max) ==
    /\ len >= 6
    /\ Get(s, 0, 2) \in {TypeCode[t] : t \in DOMAIN TypeCode}
    /\ (6 + Get(s, 2, 4)) % SizeMod <= max

(* qesp_msg_check, with the header at the front of the stash.  Sums are of *)
(* type size_t.                                                            *)
CheckFrame(s, len, max) ==
    /\ len >= 6
    /\ Get(s, 0, 2) \in {TypeCode[t] : t \in DOMAIN TypeCode}
    /\ (6 + Get(s, 2, 4)) % SizeMod <= max
    /\ (6 + Get(s, 2, 4)) % SizeMod <= len

TooMany(nodes) == Len(nodes) > MaxNodes

(* qesp_msg_decode *)
Decode(s, len, max) ==
    IF ~CheckFrame(s, len, max) THEN Rejected
    ELSE LET ts == Tlvs(s, 6, Get(s, 2, 4))
             nodes == Pick(ts, {i \in DOMAIN ts : IsNode(ts[i])})
         IN  IF \/ \E i \in DOMAIN ts :
                     ~WellFormed(s, ts[i], TopLevel \cup {"NODE_STATE"})
                \/ TooMany(nodes)
                \/ \E i \in DOMAIN nodes : ~NodeOK(s, nodes[i])
             THEN Rejected
             ELSE [type |-> TypeName(Get(s, 0, 2)),
                   opts |-> LastOf(s, ts, TopLevel),
                   nodes |-> [i \in DOMAIN nodes |->
                                LastOf(s, NodeTlvs(s, nodes[i]), NodeFields)]]
-----------------------------------------------------------------------------
(* What builders are given: values of the C types of their parameters.     *)

Limit(w) == CASE w = 1 -> Base [] w = 2 -> Base2 [] w = 4 -> Base4
              [] w = 8 -> Base4 * Base4
Number(w) == 0 .. Limit(w) - 1

Fits(o, v) ==
    CASE o = "CLUSTER_NAME" -> v \in Seq(Cell) /\ Len(v) < Base2
      [] o \in Lists -> v \in Seq(Number(2)) /\ 2 * Len(v) < Base2
      [] o = "RING_ID" -> v \in [node : Number(4), seq : Number(8)]
      [] o = "TIE_BREAKER" -> v \in [mode : Number(1), node : Number(4)]
      [] OTHER -> v \in Number(Width(o))

(* A function from some of these options to values that fit. *)
Filled(f, options) ==
    /\ f = [o \in DOMAIN f |-> f[o]]
    /\ DOMAIN f \subseteq options
    /\ \A o \in DOMAIN f : Fits(o, f[o])

IsMessage(m) ==
    /\ m = [type |-> m.type, opts |-> m.opts, nodes |-> m.nodes]
    /\ m.type \in DOMAIN TypeCode \ {"ECHO_REPLY"}
    /\ Filled(m.opts, ToSet(Layout(m.type)) \cup
                     IF m.type = "NODE_LIST" THEN {"HEURISTICS"} ELSE {})
    /\ m.type = "INIT" => "TIE_BREAKER" \in DOMAIN m.opts
    /\ m.nodes = [i \in 1 .. Len(m.nodes) |-> m.nodes[i]] /\ Len(m.nodes) \in Nat
    /\ \A i \in 1 .. Len(m.nodes) :
         Filled(m.nodes[i], NodeFields) /\ "NODE_ID" \in DOMAIN m.nodes[i]
    /\ m.type # "NODE_LIST" => m.nodes = <<>>

ASSUME MessagesAssumption ==
    /\ \A m \in Messages \cup Earlier : IsMessage(m)
    /\ \A m \in Earlier : 6 + Len(FlattenSeq(Parts(m))) <= RxSize

ASSUME UnknownAssumption ==
    /\ \A u \in Unknown :
         /\ u.code \in Number(2) /\ \A o \in DOMAIN Code : u.code # Code[o]
         /\ u.val \in Seq(Cell) /\ Len(u.val) < Base2
    /\ Noise \subseteq Cell

-----------------------------------------------------------------------------
Payload(m) == FlattenSeq(Parts(m))
Blank == [i \in 1 .. RxSize |-> 0]

(* A frame is read to the front of s. *)
Over(s, f) == f \o SubSeq(s, Len(f) + 1, RxSize)

Init ==
    /\ sent = Rejected
    /\ how = "IDLE"
    /\ stash \in {Blank} \cup
                {Over(Blank, Frame(TypeCode[m.type], Payload(m))) : m \in Earlier}
    /\ flen = 0
    /\ got = Rejected

(* Frame f is meant as m; its first n cells are there when it is decoded. *)
Receive(m, f, n, what) ==
    /\ Len(f) <= RxSize
    /\ sent' = m
    /\ how' = what
    /\ stash' = Over(stash, SubSeq(f, 1, n))
    /\ flen' = n
    /\ got' = Decode(Over(stash, SubSeq(f, 1, n)), n, RxSize)

Whole(m, payload, what) ==
    LET f == Frame(TypeCode[m.type], payload) IN Receive(m, f, Len(f), what)

(* The sender builds m in a buffer of cap cells. *)
Send(m, cap) ==
    /\ how = "IDLE"
    /\ Build(m, cap).ok
    /\ Whole(m, Build(m, cap).buf, "WHOLE")

SendFails(m, cap) ==
    /\ how = "IDLE"
    /\ ~Build(m, cap).ok
    /\ sent' = m
    /\ how' = "REFUSED"
    /\ UNCHANGED <<stash, flen, got>>

(* A newer peer adds an option this code does not know. *)
SendNewer(m, i, u) ==
    /\ how = "IDLE"
    /\ Whole(m, FlattenSeq(InsertAt(Parts(m), i, Tlv(u.code, u.val))), "NEWER")

(* A faulty peer ends the payload early, and says so in the header. *)
SendCut(m, k) ==
    /\ how = "IDLE"
    /\ Whole(m, SubSeq(Payload(m), 1, k), "CUT")

(* A faulty peer: one cell of the payload is something else. *)
SendNoisy(m, i, c) ==
    /\ how = "IDLE"
    /\ Whole(m, [Payload(m) EXCEPT ![i] = c], "NOISY")

(* The decoder is called before all of the frame is there. *)
DecodeEarly(m, n) ==
    /\ how = "IDLE"
    /\ Receive(m, Frame(TypeCode[m.type], Payload(m)), n, "EARLY")

(* qesp_msg_echo_reply_from: the request, with another type. *)
EchoReply(f) == Put(2, TypeCode["ECHO_REPLY"]) \o SubSeq(f, 3, Len(f))

Echoed ==
    /\ how \in {"WHOLE", "NEWER"}
    /\ got # Rejected /\ sent.type = "ECHO_REQUEST"
    /\ CheckFrame(stash, flen, flen)

Echo(cap) ==
    /\ Echoed
    /\ flen <= cap
    /\ Receive([sent EXCEPT !.type = "ECHO_REPLY"],
               EchoReply(SubSeq(stash, 1, flen)), flen, "ECHOED")

(* The stash holds a longer request than the buffer for replies: on_frame  *)
(* drops the connection.                                                   *)
EchoFails(cap) ==
    /\ Echoed
    /\ flen > cap
    /\ sent' = [sent EXCEPT !.type = "ECHO_REPLY"]
    /\ how' = "REFUSED"
    /\ got' = Rejected
    /\ UNCHANGED <<stash, flen>>

Next ==
    \/ \E m \in Messages, cap \in Caps : Send(m, cap) \/ SendFails(m, cap)
    \/ \E m \in Messages, u \in Unknown :
         \E i \in 1 .. Len(Parts(m)) + 1 : SendNewer(m, i, u)
    \/ \E m \in Messages : \E k \in 0 .. Len(Payload(m)) - 1 : SendCut(m, k)
    \/ \E m \in Messages, c \in Noise :
         \E i \in 1 .. Len(Payload(m)) : SendNoisy(m, i, c)
    \/ \E m \in Messages : \E n \in 0 .. 5 + Len(Payload(m)) : DecodeEarly(m, n)
    \/ \E cap \in Caps : Echo(cap) \/ EchoFails(cap)

Spec == Init /\ [][Next]_vars

-----------------------------------------------------------------------------
(* Properties *)

Valid(o, v) ==
    /\ o \in DOMAIN Allowed => v \in Allowed[o]
    /\ o = "TIE_BREAKER" => v.mode \in TieModes

ValidNode(n) == n["NODE_ID"] # 0 /\ \A o \in DOMAIN n : Valid(o, n[o])

(* What m means to its receiver: a tie-breaker names a node only in its    *)
(* third mode, a node list leaves an undefined heuristics result out.      *)
Meaning(m) ==
    LET kept == {o \in DOMAIN m.opts :
                   ~(o = "HEURISTICS" /\ m.type = "NODE_LIST" /\ m.opts[o] = 0)}
    IN  [m EXCEPT !.opts =
          [o \in kept |-> IF o = "TIE_BREAKER" /\ m.opts[o].mode # 3
                          THEN [m.opts[o] EXCEPT !.node = 0] ELSE m.opts[o]]]

Decodable(m) ==
    /\ Len(m.nodes) <= MaxNodes
    /\ \A o \in DOMAIN Meaning(m).opts : Valid(o, m.opts[o])
    /\ \A o \in DOMAIN m.opts \cap Lists : Len(m.opts[o]) <= MaxList
    /\ \A i \in DOMAIN m.nodes : ValidNode(m.nodes[i])

(* A message a builder completes in whatever room it is given is decoded   *)
(* to what it means, or rejected if a value of it is out of range;         *)
(* unknown options change nothing wherever they stand; an echo carries     *)
(* what the request carried (msg.c builders, qesp_msg_decode,              *)
(* qesp_msg_echo_reply_from).                                              *)
RoundTrip ==
    how \in {"WHOLE", "NEWER", "ECHOED"} =>
        got = IF Decodable(sent) THEN Meaning(sent) ELSE Rejected

Restriction(f, g) == DOMAIN f \subseteq DOMAIN g /\ \A o \in DOMAIN f : f[o] = g[o]

(* A payload that ends early is accepted only if it ends between two       *)
(* options, and then nothing is decoded that was not sent                  *)
(* (qesp_tlv_iter_next, decode_node_info).                                 *)
CutBetweenOptions ==
    how = "CUT" /\ got # Rejected =>
        /\ \E i \in 0 .. Len(Parts(sent)) :
             flen = 6 + Len(FlattenSeq(SubSeq(Parts(sent), 1, i)))
        /\ Restriction(got.opts, Meaning(sent).opts)
        /\ IsPrefix(got.nodes, sent.nodes)

(* What is decoded depends on the frame alone, never on what an earlier    *)
(* turn, of this or of another session, left behind it in the shared stash *)
(* (qesp_msg_check, qesp_tlv_iter_next, qesp_tlv_val_u8 and the like).     *)
OnlyTheFrame ==
    how \notin {"IDLE", "REFUSED"} =>
        got = Decode(Over(Blank, SubSeq(stash, 1, flen)), flen, RxSize)

InRange(m) ==
    /\ \A o \in DOMAIN m.opts : Valid(o, m.opts[o])
    /\ Len(m.nodes) <= MaxNodes
    /\ \A i \in DOMAIN m.nodes : ValidNode(m.nodes[i])
    /\ \A o \in DOMAIN m.opts \cap Lists : Len(m.opts[o]) <= MaxList

(* Whatever arrives, a decoded message has enum values the handlers know,  *)
(* nodes that are not 0, and no more of them than the tables behind the    *)
(* decoder hold (decode_range, decode_node_info, QESP_MAX_NODES).          *)
DecodedInRange == got # Rejected => InRange(got)
=============================================================================
