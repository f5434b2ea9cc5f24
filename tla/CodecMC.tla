------------------------------ MODULE CodecMC ------------------------------
(***************************************************************************)
(* Codec, with every message type, every option and values that use more   *)
(* than one cell, at and beyond the limits of the decoder.                 *)
(***************************************************************************)
EXTENDS Codec

None == [o \in {} |-> 0]
SupMsgs == <<0, 17>>
SupOpts == <<23>>

Msg(t, f) == [type |-> t, opts |-> f, nodes |-> <<>>]
Seqd(f) == [MSG_SEQ_NUMBER |-> 515] @@ f
Ring == [RING_ID |-> [node |-> 9, seq |-> 70]]
Nodes == <<[NODE_ID |-> 1, NODE_STATE |-> 1],
           [NODE_ID |-> 66, DATA_CENTER_ID |-> 7, NODE_STATE |-> 3],
           [NODE_ID |-> 2]>>

InitMsg(tie) ==
    Msg("INIT", Seqd(Ring @@ [SUPPORTED_MESSAGES |-> SupMsgs,
                              SUPPORTED_OPTIONS |-> SupOpts,
                              NODE_ID |-> 66, DECISION_ALGORITHM |-> 1,
                              HEARTBEAT_INTERVAL |-> 1000, TIE_BREAKER |-> tie]))

InitReply(f) ==
    Msg("INIT_REPLY", f @@ [REPLY_ERROR_CODE |-> 16,
                            SUPPORTED_MESSAGES |-> SupMsgs,
                            SUPPORTED_OPTIONS |-> SupOpts,
                            SERVER_MAXIMUM_REQUEST_SIZE |-> 4000,
                            SERVER_MAXIMUM_REPLY_SIZE |-> 129,
                            SUPPORTED_DECISION_ALGORITHMS |-> <<1, 3>>])

ListMsg(f, nodes) ==
    [type |-> "NODE_LIST", opts |-> Seqd(f @@ [NODE_LIST_TYPE |-> 2]),
     nodes |-> nodes]

Full == ListMsg(Ring @@ [CONFIG_VERSION |-> 99, QUORATE |-> 1, HEURISTICS |-> 2],
                SubSeq(Nodes, 1, 2))

MCMessages ==
    {Msg("PREINIT", f @@ [CLUSTER_NAME |-> n]) :
        f \in {None, Seqd(None)}, n \in {<<>>, <<5, 3, 7>>}}
    \cup {Msg("PREINIT_REPLY", Seqd([TLS_SUPPORTED |-> t,
                                     TLS_CLIENT_CERT_REQUIRED |-> 1])) : t \in {2, 3}}
    \cup {Msg(t, f) : t \in {"STARTTLS", "ECHO_REQUEST"}, f \in {None, Seqd(None)}}
    \cup {InitMsg([mode |-> k, node |-> 66]) : k \in {0, 1, 3}}
    \cup {InitReply(None), InitReply(Seqd(None)),
          InitReply([SUPPORTED_DECISION_ALGORITHMS |-> <<1, 2, 3>>]),
          InitReply([SUPPORTED_DECISION_ALGORITHMS |-> <<1, 2, 3, 4>>])}
    \cup {Msg("SERVER_ERROR", Seqd([REPLY_ERROR_CODE |-> 9]))}
    \cup {ListMsg(f, SubSeq(Nodes, 1, k)) : f \in {None, [HEURISTICS |-> 0]}, k \in 0 .. 3}
    \cup {Full, ListMsg(None, <<[NODE_ID |-> 0]>>),
          ListMsg(None, <<[NODE_ID |-> 1, NODE_STATE |-> 0]>>)}
    \cup {Msg("NODE_LIST_REPLY", Seqd(Ring @@ [NODE_LIST_TYPE |-> 2, VOTE |-> 4]))}
    \cup {Msg(t, Seqd(None)) : t \in {"ASK_FOR_VOTE", "VOTE_INFO_REPLY"}}
    \cup {Msg(t, Seqd(Ring @@ [VOTE |-> v])) :
            t \in {"ASK_FOR_VOTE_REPLY", "VOTE_INFO"}, v \in {0, 5, 6}}
    \cup {Msg("HEURISTICS_CHANGE", Seqd([HEURISTICS |-> h])) : h \in {0, 1}}
    \cup {Msg("HEURISTICS_CHANGE_REPLY", Seqd(Ring @@ [VOTE |-> 1, HEURISTICS |-> 1]))}
    \cup {Msg(t, f) : t \in {"SET_OPTION", "SET_OPTION_REPLY"},
                      f \in {None, Seqd([HEARTBEAT_INTERVAL |-> 4095]),
                             [KEEP_ACTIVE_PARTITION_TB |-> 1]}}

(* Their bytes stay behind: a long node list, and an INIT. *)
MCEarlier == {Full, InitMsg([mode |-> 3, node |-> 5])}

MCUnknown == {[code |-> 24, val |-> <<>>], [code |-> 63, val |-> <<0, 1, 0>>]}
=============================================================================
