-------------------------------- MODULE Web --------------------------------
(***************************************************************************)
(* firmware/web/api.c: the read-only status page.  The login gate with its *)
(* table of failed logins, the event stream of /events, and the ring of    *)
(* recent log lines that every task of the device writes while an event is *)
(* being built from it.                                                    *)
(*                                                                         *)
(* One httpd task runs the handlers one after the other (external), so     *)
(* s_resp and its mutex are never contended.  Deadlines are kept as the    *)
(* time that is left.  A log line is its number.  The text of the page and *)
(* of the events, /logout (always 401) and the client table, a copy that   *)
(* is empty when s_mux is busy, are left out.                              *)
(***************************************************************************)
EXTENDS Naturals, Sequences

CONSTANTS Ips,        \* addresses of peers
          Unknown,    \* the address when getpeername fails
          RateMax,    \* RATE_MAX
          MaxFail,    \* QUORUMESP_WEB_LOGIN_MAX_FAIL
          MaxCount,   \* 255, where fails stops counting
          Block,      \* QUORUMESP_WEB_LOGIN_BLOCK_S
          Stream,     \* how long /events goes on: 60 s
          RingN,      \* LOG_RING_N
          Show,       \* lines in an event: 10
          HeadMod,    \* 2^w for the w bits of s_head
          MaxLines    \* bound: lines logged in a behaviour

ASSUME AddressAssumption == "FREE" \notin Ips \cup {Unknown} /\ Unknown \notin Ips
ASSUME LimitsAssumption ==
    /\ RateMax \in Nat /\ Block \in Nat \ {0} /\ Stream \in Nat /\ MaxCount \in Nat
    /\ MaxFail \in 1 .. MaxCount
ASSUME RingAssumption ==
    /\ RingN \in Nat \ {0} /\ Show \in 1 .. RingN
    /\ MaxLines \in Nat /\ HeadMod \in Nat /\ MaxLines < HeadMod

Free == "FREE"
Fallback == 0
NoSlot == RateMax + 1

VARIABLES up,        \* web_api_init: not yet, serving, or given up
          s_rate,    \* s_rate, and s_fallback as its entry 0
          s_ring, s_head, s_count,
          logged,    \* lines logged since the hook was installed
          pc,        \* where the httpd task is
          event,     \* the event being built: snapshot, next k, lines
          end_us,    \* time left to the stream
          guesses    \* history: how long ago the last MaxFail + 1 wrong
                     \* credentials of each address were looked at, latest
                     \* first; Block means longer ago, or never

rateVars == <<s_rate, guesses>>
logVars == <<s_ring, s_head, s_count, logged>>
vars == <<up, rateVars, logVars, pc, event, end_us>>

NoEvent == [head |-> 0, count |-> 0, k |-> 0, lines |-> <<>>, upto |-> 0]
NoGuess == [n \in 1 .. MaxFail + 1 |-> Block]
EmptySlot(ip) == [ip |-> ip, fails |-> 0, left |-> 0]

Init ==
    /\ up = "OFF"
    /\ s_rate = [i \in 0 .. RateMax |-> EmptySlot(Free)]
    /\ guesses = [ip \in Ips |-> NoGuess]
    /\ s_ring = [i \in 0 .. RingN - 1 |-> 0]
    /\ s_head = 0 /\ s_count = 0 /\ logged = 0
    /\ pc = "IDLE"
    /\ event = NoEvent
    /\ end_us = 0

(* web_api_init: without credentials nothing starts; the log hook stays if *)
(* httpd_start fails.                                                      *)
WebInit ==
    /\ up = "OFF"
    /\ up' \in {"NO_CREDENTIALS", "NO_HTTPD", "UP"}
    /\ UNCHANGED <<rateVars, logVars, pc, event, end_us>>

-----------------------------------------------------------------------------
(* The gate *)

Slots == 1 .. RateMax
SlotsOf(ip) == {i \in Slots : s_rate[i].ip = ip}
First(S) == CHOOSE i \in S : \A j \in S : i <= j

(* rate_slot: the bucket of an address, a free one, or none. *)
Slot(ip) ==
    IF ip = Unknown THEN Fallback
    ELSE IF SlotsOf(ip) # {} THEN First(SlotsOf(ip))
    ELSE IF SlotsOf(Free) # {} THEN First(SlotsOf(Free))
    ELSE NoSlot

(* The fallback bucket is not looked at. *)
Silenced(ip) == \E i \in SlotsOf(ip) : s_rate[i].left > 0

Over(fails) == fails > MaxFail

(* The limit is reached. *)
Reached(fails) == fails >= MaxFail

(* rate_fail *)
Failed(b) ==
    LET n == IF b.fails < MaxCount THEN b.fails + 1 ELSE b.fails
    IN  [b EXCEPT !.fails = n, !.left = IF Reached(n) THEN Block ELSE @]

After(b, ip, creds) ==
    CASE creds = "RIGHT" -> EmptySlot(ip)      \* rate_clear
      [] creds = "WRONG" -> Failed([b EXCEPT !.ip = ip])
      [] creds = "NONE"  -> [b EXCEPT !.ip = ip]

GateCountsFirst(ip, creds) ==
    IF Slot(ip) = NoSlot THEN s_rate
    ELSE [s_rate EXCEPT ![Slot(ip)] = After(@, ip, creds)]

(* gate, check_auth: a silenced address is dropped before anything else.   *)
(* When all slots are taken the request is judged and nothing is counted.  *)
Gate(ip, creds) ==
    IF Silenced(ip) \/ Slot(ip) = NoSlot THEN s_rate
    ELSE [s_rate EXCEPT ![Slot(ip)] = After(@, ip, creds)]

Guessed(g) == [n \in 1 .. MaxFail + 1 |-> IF n = 1 THEN 0 ELSE g[n - 1]]

Judged(ip, creds) ==
    IF ip = Unknown \/ Silenced(ip) \/ creds = "NONE" THEN guesses
    ELSE [guesses EXCEPT ![ip] = IF creds = "RIGHT" THEN NoGuess ELSE Guessed(@)]

(* h_root, and h_events when the gate does not let the request pass. *)
Visit(ip, creds) ==
    /\ up = "UP" /\ pc = "IDLE"
    /\ s_rate' = Gate(ip, creds)
    /\ guesses' = Judged(ip, creds)
    /\ UNCHANGED <<up, logVars, pc, event, end_us>>

OpenEvents(ip) ==
    /\ up = "UP" /\ pc = "IDLE"
    /\ ~Silenced(ip)
    /\ s_rate' = Gate(ip, "RIGHT")
    /\ guesses' = Judged(ip, "RIGHT")
    /\ pc' = "EVENT"
    /\ end_us' = Stream
    /\ UNCHANGED <<up, logVars, event>>

-----------------------------------------------------------------------------
(* The log ring *)

CountedOn(n) == n + 1

Counted(n) == IF n < RingN THEN n + 1 ELSE n

(* web_log_hook, in any task. *)
Log ==
    /\ up \in {"NO_HTTPD", "UP"}
    /\ logged < MaxLines
    /\ logged' = logged + 1
    /\ s_ring' = [s_ring EXCEPT ![s_head % RingN] = logged + 1]
    /\ s_head' = (s_head + 1) % HeadMod
    /\ s_count' = Counted(s_count)
    /\ UNCHANGED <<up, rateVars, pc, event, end_us>>

(* build_event: head and count are copied, then the lines one by one. *)
Snapshot ==
    /\ pc = "EVENT"
    /\ event' = [head |-> s_head, count |-> s_count, k |-> 0, lines |-> <<>>,
                 upto |-> logged]
    /\ pc' = "LINES"
    /\ UNCHANGED <<up, rateVars, logVars, end_us>>

Skipped(k) == event.count - k > Show

IndexFromHead(k) == (event.head + k) % RingN

(* Where the k-th of the lines there were is in the ring. *)
Index(k) == ((event.head + HeadMod - event.count + k) % HeadMod) % RingN

ReadLine ==
    /\ pc = "LINES"
    /\ event.k < event.count
    /\ event' = [event EXCEPT
                   !.k = @ + 1,
                   !.lines = IF Skipped(event.k) THEN @
                             ELSE Append(@, s_ring[Index(event.k)])]
    /\ UNCHANGED <<up, rateVars, logVars, pc, end_us>>

NeverOver == FALSE

(* 60 s after it was opened. *)
StreamOver == end_us = 0

(* The chunk is sent; the stream goes on unless its time is over. *)
SendEvent ==
    /\ pc = "LINES"
    /\ event.k = event.count
    /\ pc' = IF StreamOver THEN "IDLE" ELSE "DELAY"
    /\ event' = NoEvent
    /\ UNCHANGED <<up, rateVars, logVars, end_us>>

(* The viewer is gone: sending fails. *)
ViewerGone ==
    /\ pc = "LINES"
    /\ event.k = event.count
    /\ pc' = "IDLE"
    /\ event' = NoEvent
    /\ UNCHANGED <<up, rateVars, logVars, end_us>>

-----------------------------------------------------------------------------
Less(t) == IF t > 0 THEN t - 1 ELSE 0

(* Time passes; a delay between two events is over. *)
Tick ==
    /\ s_rate' = [i \in DOMAIN s_rate |-> [s_rate[i] EXCEPT !.left = Less(@)]]
    /\ guesses' = [ip \in Ips |-> [n \in 1 .. MaxFail + 1 |->
                     IF guesses[ip][n] < Block THEN guesses[ip][n] + 1 ELSE Block]]
    /\ end_us' = Less(end_us)
    /\ pc' = IF pc = "DELAY" THEN "EVENT" ELSE pc
    /\ UNCHANGED <<up, logVars, event>>

Next ==
    \/ WebInit
    \/ \E ip \in Ips \cup {Unknown} :
         \/ \E creds \in {"RIGHT", "WRONG", "NONE"} : Visit(ip, creds)
         \/ OpenEvents(ip)
    \/ Log
    \/ Snapshot \/ ReadLine \/ SendEvent \/ ViewerGone
    \/ Tick

(* Time passes and the httpd task goes on; nobody need visit or log. *)
Fairness ==
    /\ WF_vars(Tick)
    /\ WF_vars(Snapshot \/ ReadLine \/ SendEvent \/ ViewerGone)

Spec == Init /\ [][Next]_vars /\ Fairness

-----------------------------------------------------------------------------
(* Properties *)

TypeOK ==
    /\ up \in {"OFF", "NO_CREDENTIALS", "NO_HTTPD", "UP"}
    /\ s_rate \in [0 .. RateMax -> [ip : Ips \cup {Free, Unknown},
                                    fails : 0 .. MaxCount, left : 0 .. Block]]
    /\ s_ring \in [0 .. RingN - 1 -> 0 .. MaxLines]
    /\ s_head \in 0 .. HeadMod - 1 /\ s_count \in 0 .. RingN
    /\ logged \in 0 .. MaxLines
    /\ pc \in {"IDLE", "EVENT", "LINES", "DELAY"}
    /\ event \in [head : 0 .. HeadMod - 1, count : 0 .. RingN, k : 0 .. RingN,
                  lines : Seq(0 .. MaxLines), upto : 0 .. MaxLines]
    /\ event.k <= event.count /\ Len(event.lines) <= Show
    /\ end_us \in 0 .. Stream
    /\ guesses \in [Ips -> [1 .. MaxFail + 1 -> 0 .. Block]]

(* An address that has a slot gets at most MaxFail wrong passwords looked  *)
(* at in any Block seconds, however it spreads them, and after a block has *)
(* run out as well (rate_slot, rate_fail, gate).                           *)
LoginBudget ==
    \A ip \in Ips : SlotsOf(ip) # {} => guesses[ip][MaxFail + 1] = Block

(* The lines of an event are the last ones there were when it was begun,   *)
(* in order; a line is replaced, by a later one, only if the ring has gone *)
(* round since.  No slot that was never written is shown (build_event,     *)
(* web_log_hook).                                                          *)
EventFaithful ==
    LET shown == IF event.count < Show THEN event.count ELSE Show
        meant(i) == event.upto - shown + i
    IN  \A i \in DOMAIN event.lines :
          \/ event.lines[i] = meant(i)
          \/ event.lines[i] > event.upto /\ logged >= meant(i) + RingN

(* A silenced address is heard again even if it keeps trying: what it      *)
(* sends while it is silenced does not extend the block (gate).            *)
SilenceEnds == \A ip \in Ips : Silenced(ip) ~> ~Silenced(ip)

(* An event stream ends and gives the one httpd task back (h_events).      *)
StreamEnds == (pc # "IDLE") ~> (pc = "IDLE")
=============================================================================
