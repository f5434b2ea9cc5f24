# QuorumESP: a verification project

QuorumESP is a corosync quorum device ("qnetd") on an ESP32: the nodes of one
cluster connect to it over TCP or TLS, report what they see of the cluster, and
are told by it whether they hold its vote. The firmware is C on FreeRTOS
(`firmware/`); a JavaScript harness (`host/`) speaks the same protocol for
tests. This directory models the part that decides and delivers votes, the
sessions, sockets, frames and messages it rests on, and the device around it:
configuration, Wi-Fi, start-up and the status page.

## Inventory

| Component | State | Operations | What is hard | What makes it correct |
|---|---|---|---|---|
| FFSplit core, `quorum/ffsplit.c` | vote table `s_ff.clients`, last choice `quorate` | slot, remove, stable, better/select, decide | selection by one pass in slot order, unsigned score, decision that reads its own last result | the choice depends on the partitions, not on the slots; the ACKed clients share one partition; no flapping |
| LMS core, `quorum/lms.c` | saved result per slot | decide | newcomer rule, which exits save their vote | nobody waits who could be decided; no newcomer takes the vote from a holder |
| Sessions and votes, `qdevice/server.c` | `sess_t` per task, `s_cluster`, `s_algo`, per-slot push state, sequence number, transport and LMS result, `s_phase` | one handler per message type, push of votes, answer matching, session epilogue | tasks interleave under one mutex; votes are pushed to other sessions' sockets; answers arrive late; sessions overlap on reconnect; sends fail | see *Runs* |
| Admission, `server.c` (`server_task`) | `s_nsessions`, `s_nsocks`, free heap | accept, refuse, end | counters and real sockets drift apart when a start or an upgrade fails; numbers are reused between a close and its count | counts are exact, the ceiling holds, nobody closes another's socket |
| Framing, `server.c` (`recv_frame`), `msg.c` | position in the byte stream, the stash `s_rx` | receive, check the header | a timeout in mid-frame, an oversize frame, a length that wraps | what is read fits the stash; no frame is read from the wrong place |
| Codec, `tlv.c`, `msg.c` | the stash `s_rx`, shared by all sessions | build, iterate, decode, echo | limits of lists and lengths, options cut short, bytes of an earlier frame behind this one | what is decoded is what was built, from the frame alone |
| TLS transport, `network/tls.c` | descriptor and TLS context | upgrade, send, receive, close | who owns the descriptor when an upgrade fails | each descriptor is closed once |
| Configuration, `config/*.c` | NVS keys, version, `s_cfg` | load, check, migrate, complete, write, factory reset | a reset or a failed write between any two `nvs_set` calls | a reboot finds the configuration that was provisioned |
| Wi-Fi, `wifi.c` | link, `s_retry`, `s_boot_done`, `s_ip_be`, event group | event handler | events are handled late; retries bounded before and unbounded after the first address | never gives up once on line; reports no address it lacks |
| Start-up, `main.c`, time | where `app_main` is | one call after the other | failures that end the boot beside failures that are logged | boot ends, one way or the other |
| Session timing, `server.c` (`session_task`), `watchdog.c` | `last_rx_us`, `hb_ms`, `s_mux`, the task watchdog | turn, TLS handshake, receive timeout, dead-peer check, epilogue, feeding | a session waits for `s_mux` while its own clock runs; handshakes and TLS writes have no deadline | live peers stay, dead ones go |
| Web, `web/api.c` | rate table, log ring, the one httpd task | gate, event stream, log hook | counts over time, a ring that is written while it is read | a budget of wrong passwords; an event shows the last lines |
| Host harness, `host/src` | client session | client side of the protocol | | |

Interaction. `server_task` accepts connections and starts one `session_task`
per connection. A session task takes `s_mux` for a whole turn: it waits at most
250 ms for a frame, runs `on_frame` (which may change the vote table, decide, and
*send votes on other sessions' transports*), sends its reply and releases
`s_mux`; only the TLS handshake runs without it. When the receive loop is left,
an epilogue under `s_mux` gives the slot back and decides again for the clients
that remain. The decision cores are pure functions of the vote table and the last
result. Everything two sessions share is protected by `s_mux`, so the interleaving
that matters is that of whole turns with each other, with the network, and with
the clients' answers.

## Modules

| Module | Models |
|---|---|
| `FFSplit` | the vote table (`qesp_ff_client_t`, `qesp_ff_slot`, `qesp_ff_remove`) and the FFSplit decision (`stats`, `preferred_in_memb`, `qesp_ff_better`, `qesp_ff_select`, `qesp_ff_stable`, `qesp_ff_decide`), as operators |
| `LMS` | `rings_match`, `make_partitions`, `qesp_lms_decide`, as operators; vote and saved result are two operators because one exit does not save |
| `QnetServer` | `server.c`: the state machine |
| `Decision` | a vote table that is decided on again and again, a slot-free reference for the selection, and the properties of a decision |
| `FFSplitMC` | enumerated four-node tables for `Decision` |
| `QnetServerMC` | instances of `QnetServer`: names, views, configurations, the view and the symmetry of the runs |
| `QnetServerLive` | `QnetServer` with a moment after which the clients are quiet, for liveness |
| `Admission` | `server_task`, the life of `session_task` around its turns, and the descriptor through `network_tls_upgrade` and `tp_close` |
| `AdmissionMC` | the instance of `Admission` and its symmetry |
| `Framing` | one session's reading of its byte stream: `tp_recv`, `recv_frame`, `qesp_msg_check_header`, the timeouts of `session_task` |
| `QnetServerProofs` | lemmas about the table and its types; the selection pass: what it ends at, and that it is the documented ranking; of the server: types, slots, sessions, the algorithm binding, LMS, the incumbent, how much can be in flight |
| `QnetVoteProofs` | order of the votes, what an ACK rests on, who holds one, the refinement of `VoteService` |
| `AdmissionProofs` | counts and descriptors |
| `FramingProofs` | the stash and the handshake's place in the stream |
| `VoteService` | abstract: one vote, given to the nodes of one partition; `QnetServer` says how it implements it (`ImplementsVoteService`) |
| `SessionTurns` | `session_task` in time: who holds `s_mux` and for how long, the TLS handshake without it, the receive timeout, the dead-peer check, the handshake timeout, the epilogue, and the task watchdog |
| `TurnsProofs` | live clients are kept |
| `Codec`, `CodecMC` | `tlv.c` and `msg.c`: builders, iterator, decoder, echo; the messages of the run |
| `CodecProofs` | numbers, options and messages are read back as they were written; the decoder looks at the frame alone and keeps its limits |
| `Config` | `config.c`, `config_logic.c`: what a namespace is read as, and the writes on the way |
| `Wifi` | `wifi.c`: the event handler, and the driver as it is used |
| `Device`, `DeviceMC` | `main.c`: `app_main` with `Config` and `Wifi` composed, resets and reflashes; images and namespaces of the run |
| `DeviceProofs` | types; the link is never abandoned, the address is honest; what resets leave in flash |
| `Web` | `api.c`: the login gate, the event stream, the log ring |
| `WebProofs` | types; the ring and the events built from it; the budget of wrong passwords |

`Admission` and `Framing` refine what `QnetServer` takes as free choices: when a
session may begin and end (`Connect`, `Break`), and when a frame reaches
`on_frame`. `SessionTurns` says when in time a session may end, `Codec` what a
frame that reaches `on_frame` means. They share no variable, so they are checked
apart. `Device` is a composition proper: `app_main` reads what `Config` and
`Wifi` write, and a reset strikes all three at once.

### Data that is abstracted

* Node lists are sets: corosync lists name no node twice and no code path
  depends on the order. A ring id (`ring_node`, `ring_seq`, `has_ring`) is one
  value, 0 when unreported.
* A vote in flight is a record of kind, sequence number and vote. Message ids,
  echoes, heartbeat values and reply codes without a vote are left out: an action
  whose only effect is such a reply is a stuttering step.
* Cluster names are short sequences of characters, because `strncmp` with the
  length of one of them is part of what is modelled.
* `size_t` differences wrap modulo `SizeMod`, sequence numbers modulo `SeqMod`.

### Actions of `QnetServer` and the code

`Connect` is the start of `session_task`; `Preinit`, `PreinitRefused`, `InitMsg`,
`ConfigList`, `MembershipList`, `LmsMembershipList`, `LmsQuorumList`,
`HeuristicsChange`, `AskForVote`, `SetOption` and `VoteInfoReply` are the cases of
`on_frame` that change state; `Break` is every exit of the receive loop (peer
closed, bad frame, dead-peer timer, slow handshake, failed reply, failed TLS
upgrade); `LeaveHandshake`, `LeaveLast`, `LeaveFFSplit` and `LeaveLms` are the
epilogue. `Recompute` (with `RecomputeStable`/`RecomputeUnstable`) is
`recompute` with `drain_nacks` and `drain_acks`; `AdvancePhase` is the tail of
`on_vote_info_reply`; `Refresh` is `lms_refresh_others`. Each action is the whole
turn, the pushes it makes to other sessions included.

### Actions of `Admission` and `Framing`

`Accept`, `AcceptFails`, `Admit`, `Refuse`, `Spawn` and `SpawnFails` are the
body of the accept loop; the heap check and the allocations may go either way.
`Drop` closes the descriptor of a connection that was turned down, `Dropped`
counts it. `Advance`, `StartTls`, `Upgraded`, `UpgradeFails`, `UpgradeRefused` and
`Break` are what a turn may do to the session's descriptor; `UpgradeFails` is every
failure after the TLS session is allocated, where the descriptor is closed,
`UpgradeRefused` the early returns before it, where it is not. Both leave the task
waiting for `s_mux`; `UpgradeFailed` is what it does once it has it: forget the
descriptor and count it closed. `Epilogue` gives the place under the ceiling back,
`TpClose` closes the transport after it, `TaskEnds` counts that. Between a close
and its count the number may be given to a new connection.

In `Framing` a byte is the length of the frame it was sent in and its offset
there. `Recv` is one byte of `tp_recv` or `network_tls_read`;
`HeaderAccepted`/`HeaderRejected` the header check; `FrameComplete`, `OnFrame`
and `OnFrameFails` the rest of the turn; `Overrun` a byte written behind the stash,
after which nothing is modelled; `Timeout` the turn of an ACTIVE
session that ends without a frame; `Dead` every other end. `drain_frame` has no
action: `recv_frame` never returns the -3 that would call it.

### Actions of the other modules

`SessionTurns`: `BeginTurn` takes `s_mux`; `HandshakeFrame`, `InitFrame`,
`SetOptionFrame`, `WorkFrame` and `BadFrame` are what `recv_frame` may return, and
each holds `s_mux` through `on_frame`, its pushes and its reply, for as long as these
take, until `EndTurn` (`BadFrame` does not decode: it is answered and leaves
`last_rx_us` alone). `StartTlsFrame` gives `s_mux` and begins the TLS handshake, which
ends in `Upgraded` or `UpgradeFails` after any time, or never. `DeadPeer`, `IdleTurn`
and `SlowHandshake` are the three exits of a receive timeout, `Leave` every other
end; `Epilogue` and `Close` are what follows the loop, under `s_mux` again. `Feed` is
the call at the top of the loop; a session that has not come by for `Wdt` ticks is
`Expired`, and `Reset` is the panic that follows. `Start`, `ClientSend` and `Die` are
the clients, `Tick` is time: it waits for tasks that can run, for live clients whose
heartbeat is due and for the watchdog.

`Codec`: `Send` and `SendFails` run a builder in a buffer of some size;
`SendNewer`, `SendCut`, `SendNoisy` and `DecodeEarly` are frames a builder would
not make: an unknown option, a payload that ends early, one other byte, a decoder
called too soon. Each ends with the decoder run on the stash. `Echo` and `EchoFails`
are `qesp_msg_echo_reply_from`, which refuses a request longer than its buffer.

`Device`: `NvsInit...` is `init_nvs`, `BootConfig...` `quorumesp_config_init` with
one step per `nvs_set`, `BootWifi...` `network_wifi_connect`, and so on through
`app_main`; `WifiEvent` is `ev_handler`, `Driver` the driver and the access point.
`Reset` is any reset, `Provision` a new namespace flashed over USB,
`FactoryReset` `quorumesp_config_factory_reset`.

`Web`: `Visit` is a request that does not open a stream (`gate`, `check_auth`,
`h_root`), `OpenEvents` one that does; `Snapshot`, `ReadLine` and `SendEvent` are
`build_event` and the loop of `h_events`, `ViewerGone` its failed send; `Log` is
`web_log_hook` in any task.

External, modelled from how `server.c` uses them: a connection delivers its
messages in order (`down`, `up`), and a client applies a vote before it answers
`VOTE_INFO` (`ClientRecv`).

## Bounds

`Conns`, `NodeIds`, `Rings`, `Names`, `Configs`, `Views`, `Heurs`, `Kaps`: small
sets; two nodes suffice for a split, a heal, a departure and a return, the only
ways a two-way vote changes hands. `MaxClients`: number of slots. `SeqMod`: 2^32
in the code, 1 to 4 here so that numbers wrap and old answers meet new numbers.
`SizeMod`: 2^32 in the code, 65536 here because TLC's integers are 32 bits wide;
any value above twice the number of nodes behaves the same. `MaxInFlight`:
clients connect and report only while no connection holds more than this many
votes and answers; 1 lets a report overtake an answer, 0 makes the votes of one
turn arrive before the next report. Reports without a ring are in no run; the
theorems about `QnetServer` have them. `SendMayFail`: may a push fail.
`AllowOverlap`: may a node have two sessions at once.

`Admission`: `MaxSessions` 2 with three `Tasks` and four `Fds`, so that a session
past its epilogue overlaps with its successor, a refused connection exists beside
both, and descriptor numbers are reused. `Framing`: `HeaderLen` 2, `Cap` 4 and
`Lengths` from an empty body to one that is too long by one, and 14, whose sum with
the header wraps at `SizeMod` 16; `MaxInFlight` 3 bytes, more than a header, so that
a pause can fall at every byte.

`SessionTurns`: two sessions, a receive timeout of 2 ticks, sends and TLS
handshakes that take as long as the watchdog lets them (`Wdt` 3), a heartbeat
interval of 2 and, after SET_OPTION, of 3, the limit of one and a half times that of
INIT, so that a session can wait for `s_mux` longer than its client stays silent;
clients go on with their handshake at once (`Rtt` 0); `MaxRx` 1 frame in a socket (a
second would be received the same way), `Cap` 4, just past one and a half intervals.
`Codec`: `Base` 8, so that a byte overflows at 8 and every field of two, four or eight
bytes is really split; `RxSize` 130; `MaxNodes` and `MaxList` 2
with messages of up to three; `ListRoom` 3, one more than the decoder takes, with a
list of four that the builder refuses (128 and at most 32 in the code, where the two
limits are apart in the same way); `Caps` below a header, at it, in the middle of
messages and above them. `Device`: a few texts (`Texts`), six namespaces (erased,
credentials only, open network, hand-written with all keys but the version,
current, newer), `MaxRetry` 2, `MaxFaults` 3 resets, reflashes or flash failures,
enough for a reset in the boot that repairs the first reset and one more.
`Web`: one slot and two addresses, `MaxFail` 2, `Block` and `Stream` 2 ticks, a ring of
3 lines of which 2 are shown and 6 lines in all, so that the ring goes round while an
event is built.

The `VIEW` of the runs leaves out what a free slot still holds, which INIT resets
before it is read again, and the name of the cluster served, since no name of a run
is a prefix of another; the symmetry permutes connections, which are compared
only for equality (it is not used for liveness).

## Runs

Passing:

| Run | Instance | Shows |
|---|---|---|
| `ffsplit_splits` | five of the fifteen splits of four nodes (`Splits`: whole, 1 + 3, two of 2 + 2, 2 + 1 + 1), every connected subset, all heuristics, three slot orders, three earlier choices, and the same with one late report | the one-pass selection is the documented ranking (`SelectMatchesReference`), deciding twice moves nothing (`NoFlapping`), ACKed clients agree (`AckedShareOnePartition`) |
| `ffsplit_push` | two nodes, one session each, one answer may lag, disagreeing configurations, heuristics that pass, keep-active | `NacksBeforeAcks`, `AckHoldersChosen` (outside the NACK phase nobody outside the choice holds an ACK), `AckNeedsMembership`, `SessionsIndependent`, `TypeOK`; `IncumbentKeeps`: the vote leaves a reported partition only for a majority or a better half; `ImplementsVoteService`: the whole server is a vote service |
| `ffsplit_live` | two nodes that report a split and heuristics, fair delivery | `Converges`: settled, quiet clients end up with the vote of the last decision |
| `slots_overlap` | overlapping sessions, failing pushes, both algorithms, a second cluster that is turned away | `SlotsAccounted`, `NodeIdsUnique`, `AlgoBoundWhileUsed`, `NoAckInNackPhase`; `NoStalledWaiter` of LMS |
| `admission` | two sessions, three tasks, four descriptors | `SessionsCounted`; `SocketsCounted`: `s_nsocks` is what the tasks own or have seen closed and not counted yet; `NoStrayClose` |
| `framing` | frames below, at and above the stash and one whose size wraps; the peer may pause at every byte | `FitsUnlessWrapped`, also out of step; `HandshakeInSync` |
| `turns` | two sessions in time, sends and TLS handshakes that take any time or hang, `s_mux` for anybody, silent deaths, the longest interval that is safe to grant | `NoFalseDeath`: no client that keeps its heartbeat, at most one and a half times its INIT interval, is closed as dead, or as slow in the handshake; `SilentPeersEnd`: the session of a dead client ends, at the latest with the watchdog's reset |
| `codec` | every message type, whole, extended, cut, altered in one byte, early, echoed into buffers of several sizes | `RoundTrip`; `CutBetweenOptions`: a cut payload is accepted only where an option ends; `OnlyTheFrame`: bytes behind the frame do not matter; `DecodedInRange` |
| `device` | a release image, six namespaces, three faults, an access point that comes and goes | `BootsRepeatable`: on a namespace with credentials at most or a version, a boot after any reset and any failed write arrives at the configuration that was provisioned; `ProvisionedKept`; `NeverAbandoned`, `AddressHonest`; `BootEnds`, `Recovers` |
| `web` | one slot, two addresses, a ring of three lines | `LoginBudget`: at most `MaxFail` wrong passwords looked at in any `Block` seconds; `EventFaithful`: an event shows the last lines, in order, or later ones; `SilenceEnds`, `StreamEnds` |

Violations, statements of the repository that the code does not keep:

| Run | Statement | What happens |
|---|---|---|
| `viol_reconnect` | sessions are independent (`docs/failure-matrix.md:18`) | a reconnecting node is given its old session's slot, and the old session's epilogue frees it under the new one |
| `viol_wrap` | a frame is checked for its size before it is read (`server.c:707`, `docs/protocol.md:188`) | the sum at `msg.c:62` wraps in 32 bits for the largest lengths: `FitsStash` |

Disagreements that have no run of their own. For the first eight a definition states
what the repository says, and TLC finds it violated in the instance named:

* *Newcomers.* `docs/lms.md:14` has a newcomer that never voted answered NACK while
  another partition holds ACK, "KHÔNG lưu — lần sau vẫn là newcomer" (`lms.h:9`: "not
  saved"). While the rings of the known nodes differ, WAIT is answered and saved
  (`lms.c:94-101`), so the guard at `lms.c:107` no longer holds and the next decision
  ranks it like the others. `NewcomersDefer` of `QnetServer`, in `slots_overlap`
  with `AllowOverlap` FALSE.
* *A NACK that fails.* "ACKs follow once NACKs are acknowledged" (`server.c:247-248`;
  `docs/ffsplit.md:30`). `drain_nacks` leaves a client whose NACK could not be sent
  out of the round (`server.c:266`), and the old holder keeps its ACK while the other
  side is given one. `NacksBeforeAcks`, in `ffsplit_push` with `SendMayFail` TRUE.
* *A leak that does not show.* "on NULL return the fd is ALWAYS consumed" (`tls.c:272`),
  and a leak that `s_nsocks` does not show "is outside qdevice" (`server.c:112-114`).
  The early returns at `tls.c:264-270` leave the descriptor open, `server.c:842` counts
  it closed. `LeaksShow` of `Admission`, in `admission`.
* *Oversize frames.* "drain + `MESSAGE_TOO_LONG`, giữ kết nối"
  (`docs/failure-matrix.md:15`; `server.c:794-795`). `recv_frame` answers every refused
  header with -2, never -3 (`server.c:718`). `OversizeKeepsSession` of `Framing`, in
  `framing`.
* *Half state.* "reset, boot lại sạch (không half-state)" (`docs/failure-matrix.md:14`).
  `config.c:120` writes the version first, so a reset after it makes the next boot
  keep the host name, address mode and log level of an unversioned namespace, which
  the migration was to reset (`docs/provisioning.md:18-29` lists these keys).
  `NoHalfState` of `Config`, in `device`.
* *No lease.* "bounded retries, then boot fails loudly" (`wifi.c:25`). Only DISCONNECTED
  events are counted: an access point that accepts the station and gives no lease
  posts none, and `wifi.c:165` waits for ever. `BootAlwaysEnds` of `Device`, in `device`.
* *Granted intervals.* SET_OPTION changes the interval at run time
  (`docs/protocol.md:118`) and the dead-peer time is "1.5 × heartbeat" (`:186`). `hb_ms`
  stays INIT's (`server.c:665-666`), and a client that keeps a longer granted interval
  than the check tolerates is closed. `LiveClientsKept` of `SessionTurns`, in `turns`
  with `SetHbs` {5}.
* *A stall that is none.* "loops wake at <=5 s, so a missed feed always means a real
  stall" (`watchdog.h:6-8`). The TLS handshake is retried without a deadline and without
  feeding (`tls.c:323`): a client that stops in it makes the watchdog reset the device
  with all sessions. `LoopsWake` of `SessionTurns`, in `turns` with `SendsBlock` FALSE.
* *Two LMS rings.* `lms_refresh_others` decides again only for waiting clients, so a
  holder keeps its ACK when another ring overtakes it and is given ACK, until it
  reports again (`docs/architecture.md:15` has the reference serve one partition at a
  time). This is why `ImplementsVoteService` is about FFSplit.
* *Half a frame.* A timeout in the middle of a frame forgets the bytes read, and an
  ACTIVE session reads the rest as a new header; `tls.c:356-357` says that slow
  senders just retry. `HandshakeInSync` is what is left.
* *Prefix names.* `server.c:344` compares over the length of the new name, so a
  cluster whose name is a prefix of the served one is admitted, against
  `server.c:13`. The runs use names that are no prefixes of each other.
* *Half state of a development image.* Both write sequences of `config.c` begin with
  the version, and what is missing from a versioned namespace is not taken from the
  image but from fixed defaults. With credentials built into the image, a reset
  between the writes of `wssid` and `wpass` leaves a name without its password for
  good; with another port than 5403 built in, a reset before the port is written
  changes the port for good. `BootsRepeatable` holds for release images, which have
  neither; with either in `ReleaseImage` it fails, also when no write fails.
* *Rate limiting.* A ninth address gets no slot and is judged without being counted
  (`api.c:93`); slots are never freed. The bucket of unknown addresses counts but
  is never looked at on entry (`api.c:83-85`), although the comment at `api.c:66-67`
  says that limiting still works. `LoginBudget` is about addresses with a slot.
* *A log line inside a critical section* (`api.c:114`): `ESP_LOGW` calls
  `web_log_hook` and the console with interrupts masked.
* *Late ACKs.* An unstable `recompute` keeps the push states, so an answer that
  arrives after a disagreeing report still releases the ACKs of the round decided
  before (`docs/failure-matrix.md:50`: no vote while clients disagree).
  `AckHoldersChosen` bounds what this can do: they go to the chosen partition.
* *A half beside a majority.* A half reported at another time than a majority may
  share nodes with it that are no longer connected, and the table is still stable.
  In the one pass of `qesp_ff_select` the majority replaces the incumbent half, and
  a half in a later slot is then compared with the majority, not with the
  incumbent, and may beat it by score or by the tie-breaker (`docs/ffsplit.md:15`
  puts the incumbent before the tie-breaker). With six nodes
  the vote then moves from one half to another of equal score. `IncumbentKeeps`
  and `MajorityWins` therefore speak of tables with no half beside a majority
  (`NoHalfBesideMajority`), which the blocks of one split always are.
* *Unconfigured clients.* The recompute of an epilogue (`server.c:871`) votes for every
  client of the table, also for one that has not sent its configuration yet.

## Fairness

`ffsplit_live`: weak fairness of `Delivery`, the arrival of some
vote or answer. Clients read their sockets, and a session task whose socket is
readable gets `s_mux`, which every turn releases within the 250 ms receive
timeout. Nothing is assumed about clients reporting, connecting or leaving: the
property speaks of the time after they have gone quiet. It assumes that pushes
do not fail; the code does not retry one.

`turns`: time goes on, however much happens in it (`SF` on `Tick`: it is disabled
while a task can run); a free `s_mux` is taken by somebody who wants it (`WF` on
`TakesMux`); a wait for a frame ends, in a frame or at its timeout (`WF` on `Turn`); the
watchdog resets a device of which it has expired; clients that run send when their
interval is over. Nothing makes a send, a TLS handshake or an epilogue end, and no
session in particular gets `s_mux`: a FreeRTOS mutex is not handed over, and the
session that gives it may take it again before the one it wakes. What ends a session
that hangs or starves is the task watchdog, which every session feeds at the top of
its loop only (`server.c:784`). Clients that die may leave frames behind, but a peer
that goes on sending rubbish is not dead in this model.

`device`: `app_main` and the event loop run (`WF`); an attempt ends, associated or not,
and the driver notices an access point that is gone (`WF`). Nothing makes an access
point that accepted the station give it an address: `BootEnds` has this as its
premise (`[]<>(link # "associated")`), which is needed (*No lease*, above).
`Recovers` is about an access point that stays, accepts a station that keeps trying
and gives it a lease (`Willing`, which has the strong fairness of these two steps).
Nothing is assumed about resets beyond their number or about when the access point
comes and goes.

`web`: time passes and the httpd task goes on (`WF`); nobody need visit or log.

## Refinement

`VoteService` has two variables, the chosen partition and the set of nodes that
hold the vote or may come to hold it without a further step of the device. A step
either withdraws (choose anything, the holders only shrink) or grants (all holders
lie in the chosen partition). `QnetServer` maps `chosen` to `quorate` and
`holders` to the nodes whose transport has an ACK applied or in flight, so late
and stale answers count. Every step of `QnetServer` with FFSplit, one session per
node and no failing push is a step of it or a stutter (`ImplementsVoteService`,
checked by `ffsplit_push` and proved as `FFSplitImplementsVoteService`).
What that excludes: one turn that takes the vote from one side and gives it to the
other before the first is known to have let go.

## Proofs

For every value of the constants that meets the named assumptions.
`QnetServerProofs`, about a decision on any table (`NodeIds` finite where nodes are counted):

* `AckedShareOneView`, `AckedAgree`: `AckedShareOnePartition`, if no node has two
  slots (`OneSlotEach`; the server keeps it: `OneSlotPerNode`).
* `SelectionIsTheRanking`: `SelectMatchesReference`, assuming that `size_t` can
  count twice the nodes, `OneSlotEach`, that clients count themselves in what they
  report (`InOwnPartition`, which `on_frame` checks) and that they are nodes of one
  cluster (`OneCluster`: memberships within the configuration, one tie-breaker,
  which names a configured node). Nothing in the code checks the last: a
  membership with unknown nodes or clients with different tie-breakers are decided
  on, and the choice then depends on the slots.
* `NeverFlaps`: `NoFlapping`, with `OneSlotEach` and `InOwnPartition` only, so also
  for a half beside a majority.
* `MajorityWins`, `TieBreakerKeepsIncumbent`: with no half beside a majority, a
  majority is chosen if there is one, and with keep-active the tie-breaker takes
  the vote from nobody.

`QnetServerProofs` and `QnetVoteProofs`, about the server:

* `TypeCorrect`, `SlotSafety`, `OneSlotPerNode`, `AlgoBinding`: `TypeOK`,
  `SlotsAccounted`, `NodeIdsUnique` and `AlgoBoundWhileUsed`, also with overlapping
  sessions and failing pushes.
* `SessionSafety`: `SessionsIndependent` and `SessionsShareAlgo`, assuming
  `AllowOverlap = FALSE` (`viol_reconnect` shows that it is needed).
* `NobodyStalls`: `NoStalledWaiter` of LMS.
* `IncumbentIsKept`: `IncumbentKeeps`, for finitely many nodes.
* `ServerSettles`, `VoteMovesByTheRules`: without overlap the server's tables meet the
  hypotheses of `NeverFlaps` and, if the clients are configured as nodes of one
  cluster (`NodesOfOneCluster`), of `SelectionIsTheRanking`: every step that moves the
  vote moves it where the documented rules say. The second leaves out tables on
  which nobody has sent a configuration: the epilogue decides on those too, and
  then every reported membership counts as a majority of nothing.
* `NackPhaseSafety`: `NoAckInNackPhase`.
* `NacksGoFirst`: `NacksBeforeAcks`, assuming `SendMayFail = FALSE`
  (it fails without: *A NACK that fails*).
* `AcksRestOnReports`: `AckNeedsMembership`, assuming `AllowOverlap = FALSE`.
* `VotesStayInPartition`: `AckHoldersChosen`, assuming both, and that what can be in
  flight does not come round the sequence number:
  `MaxInFlight + 3 + 2 |Conns| <= SeqMod`, far below 2^32 for eight clients. The
  bound is not tight: the run has `SeqMod` 2 and `MaxInFlight` 1.
* `FFSplitImplementsVoteService`: `ImplementsVoteService`, under the same assumptions
  and with FFSplit clients only.
* `FlightInvariant`: the bound on what is in flight, for finitely many connections.

The other components:

* `SessionCountSafety`, `SocketCountSafety`, `StrayCloseSafety`: `SessionsCounted`,
  `SocketsCounted` and `NoStrayClose` of `Admission`, for any pool of
  descriptors, number of tasks and ceiling.
* `HandshakeSafety`: `HandshakeInSync` of `Framing`, for any sizes.
* `StashSafety`: `FitsUnlessWrapped`, for any sizes and lengths.
* `KeepsLiveClients`, `TurnsTyped`: `NoFalseDeath` and the types of `SessionTurns`,
  for any number of sessions, any receive timeout above the round trip, sends and TLS
  handshakes of any length and any intervals; that the client's is at most one and a
  half times that of its INIT is part of the property (*Granted intervals* says why).
* `LinkNeverAbandoned`, `AddressAlwaysHonest`, `DeviceTypes`: `NeverAbandoned`,
  `AddressHonest` and `TypeOK` of `Device`, for any retry bound, namespaces and
  number of faults.
* `ProvisioningIsKept`: `ProvisionedKept`, for namespaces whose network name is
  absent or not empty.
* `BootsAreRepeatable`: `BootsRepeatable`, for an image without credentials or a port of
  its own (`PlainImage`) and any namespaces. Without that it is false (see *Half state
  of a development image*); for a namespace with other keys and no version the
  property says nothing (*Half state* says why).
* `EventsFaithful`, `LoginsLimited`, `WebTypes`: `EventFaithful`, `LoginBudget` and
  `TypeOK` of `Web`, for any ring, number of addresses and slots, while the 32-bit
  `s_head` does not come round (`RingAssumption`).
* `SentIsDecoded`, `CutIsNoticed`, `NothingBehindTheFrame`, `OnlyInRange`: `RoundTrip`,
  `CutBetweenOptions`, `OnlyTheFrame` and `DecodedInRange` of `Codec`, for any base
  above 4 (so that two bytes hold every option and type code), limits, room in the
  builder's buffer, messages and earlier content of the stash. Assumed are the C types
  of what builders are given (`MessagesAssumption`: numbers of their width, strings
  and lists that two length bytes can count), that unknown options have codes
  this protocol does not use (`UnknownAssumption`), and that the stash is smaller than
  `size_t` and than a length of four bytes (`StashAssumption`: 32768 against 2^32).

The arguments. *The pass:* a set-based induction (`Induction`, from well-foundedness
of the naturals) shows that the recursive function `Scan` exists and that what
`qesp_ff_better` keeps from slot to slot holds of the last one (`ScanInduction`).
The pass never goes back behind a majority (`NoLaterMajority`); among halves the
comparison is a total preorder, lexicographic in score, connected members,
incumbency and tie-breaker (`AtLeast`), so the slot it ends at is at least as good
as all that no majority follows (`SelectedIsBest`), although `qesp_ff_better` itself
is not transitive between halves and majorities. For the ranking, the unsigned score is
the signed sum (`WrapsBack`), two different halves cover the configuration, and the
preferred node lies in one of them, so no tie is left to the order of the slots.
*Tables:* `SentInv` says that what a used slot holds was sent by a client, and that
its node is in what it reports; the latter needs `OwnSlots`, since a report is
written to the slot of the session, not of the node.
*Slots:* `SlotsAccounted` is not inductive, since an epilogue
unbinds the transport of the slot it frees, so one must know that no other
used slot points at that session, and `AlgoBoundWhileUsed` needs every active
session's `ff_idx` to be a slot. `SlotInv` adds `ActiveHasSlot` and, without
overlap, `OwnSlots`: a session with a slot is the one its slot's transport names,
the slot is used and its node's, and the algorithm is the session's. *LMS:* a client
waits only on its own last decision, and `Refresh` decides again for all who wait
after every step that changes what a decision reads. *Votes:* `NoAckInNackPhase` says
nothing about phases 0 and 2; `PhaseExact` lists the push states each phase
allows when no push fails (nothing open in phase 0, no ACK pending in phase 1,
nothing but pending ACKs in phase 2), which is what a matched answer relies on when
it moves the phase on. *ACKs and reports:* an ACK becomes due in `recompute` on a stable
table, where `SamePartition` gives the client's own ring and membership
(`AckedShareOneView`), and a report stores a membership that contains its
sender; without overlap INIT resets the push state of every slot it hands out.
*Holders:* `AckHoldersChosen` says nothing of what is in flight. `HolderInv` describes
for each client the votes and answers on its connection: their numbers are
consecutive and end at the slot's, so a matched answer is the answer to the last
vote, and no ACK precedes it unless the node is chosen. That consecutive numbers are
distinct modulo `SeqMod` is where `FlightInv` comes in: clients report only while
there is room, and each session that ends can cause two more votes for each other,
so the number of sessions left is part of the bound. The refinement follows from
the same invariant: a step that grants finds no holder outside the choice.
*Counts:* `SessionsCounted` is inductive with the types.
`SocketsCounted` needs `NoStrayClose` (a new descriptor is nobody's, one given up
was owned once) and `Placed`, which says at which points there is a descriptor, so
that `sock_closed` never meets a count of 0; a close moves a descriptor from those
owned to those to be counted, and the sum stays. *Handshake:* `HandshakeInSync` alone
says nothing about the bytes to come; `Gapless` says that the bytes on the wire
follow each other as frames do, and `InSync` that the stash holds the beginning
of one frame, that the next byte is the one that follows, and that what is asked
for is exactly the rest of the header or of the frame. `Timeout` keeps it because
it only happens to ACTIVE sessions. *Stash:* `Filled` gives the header's length
at the moment the header is checked; a sum that passes the check either is what it
seems or is at least `SizeMod`, and stays so byte by byte. *Live clients:* `NoFalseDeath` needs
`ActiveClocks` (an ACTIVE session whose client lives and whose socket is empty has
been idle no longer than the client has been quiet, and the client no longer than
the interval it keeps) and `HandshakeClocks` (in the handshake, a turn that finds nothing
has waited no longer than the client thinks); `Dead` is then impossible for an
empty socket and never looked at for one that is not. *Link:* `LinkInv` says what
the event queue may hold in each state of the link (`LinkQueue`): a link that is
off after the first address has a DISCONNECTED behind everything else, a link that
is up has no DISCONNECTED behind its GOT_IP, and so on; the two properties are
consequences, neither is inductive. *Flash:* `KeptInv` adds that no write still to
come touches a credential that is there, `HalfInv` that every write still to come
leaves the namespace one that boots to the same result (`Harmless`, `PlainResult`),
so it does not matter which of them were made. *Ring:* `RingInv` says that the place
of a line holds this line or one logged a round later; `EventInv` relates the lines
taken so far to the snapshot they were taken from. *Logins:* `GateInv` gives each
address one bucket and ties the bucket's count and remaining time to the ages of the
last `MaxFail + 1` wrong passwords; a free slot means that nobody without one has guessed.
*Codec:* the steps are few and the work is in the operators. The induction theorems of
the library take an operator and cannot be used, so `Induction` and `LeastElement` are
proved for sets, and from them that each recursive function of the model exists and
obeys its equation: `Pick`, the builder's loop, and the iterator, whose recursion goes
by the bytes that remain (`OffsetInduction`, `IterDef`). Numbers: what `Put` splits
`Get` puts together (division with remainder by powers of `Base`). Options: a
concatenation of options is iterated to exactly these options (`IterWhole`), and one
that ends in the middle of an option ends in a `Broken` one.
`Made` says that a sequence of options is what a builder makes of given values, option
by option and with its nodes counted, and holds of the empty one, of single options, of
concatenations and of prefixes, so that one lemma (`DecodeMade`) tells what is decoded
from all of a builder's output, from the output with an unknown option inserted, and
from the whole options of one that is cut. `CodecInv` has the stash filled with
bytes, `got` equal to the decoder's result on the stash as it is (`Decoded`), a whole
frame `Carried` by the front of the stash and a cut one `CutOff` there; none of the four
properties is inductive, since an echo is made from the bytes in the stash and not from
the message that was sent. `OnlyTheFrame` needs that two stashes that agree up to the
frame's end are iterated, checked and read alike (`IterSame`, `GetSame`).

Only model-checked: liveness (`Converges`, `SilentPeersEnd`, `BootEnds`, `Recovers`,
`SilenceEnds`, `StreamEnds`), which the prover does not do, and what the code violates.
Every safety property and action property of a passing run is stated by a theorem,
some with the assumptions named above.

## Not modelled, and the plan

Not modelled: certificates and mbedTLS (external; an upgrade succeeds or fails);
memory other than descriptors, so a second STARTTLS that drops a TLS context
(`server.c:378`) shows nowhere; the watchdog of the accept loop, which waits at most
5 s in `select` but without limit for `s_mux` (`server.c:950-973`); the loss of an
address while the link stays (IP_EVENT_STA_LOST_IP, which `wifi.c` does not handle);
in `SessionTurns` frames that arrive in pieces; what a write behind the stash does;
SNTP, whose outcome is only logged; the text of pages and events, and the
client table; the host harness and the update portal, which are test and
desktop code. There is no firmware updater on the device (`docs/ota.md`).

Order of the work:

1. done: `FFSplit`, `LMS`, `QnetServer`, `Admission`, `Framing`, their runs and
   proofs;
2. done: `Config`, `Wifi`, `Device`, `SessionTurns`, `Codec`, `Web`, the abstract
   `VoteService`; proofs of `SessionTurns` and of the Wi-Fi part of `Device`;
3. done: proofs of the decision (`SelectionIsTheRanking`, `NeverFlaps`), of the LMS
   and keep-active rules, of who holds the vote and the refinement, of the
   configuration in flash, of the login gate and the log ring;
4. done: proofs about `Codec`.
