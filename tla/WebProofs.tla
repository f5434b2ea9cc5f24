------------------------------ MODULE WebProofs ------------------------------
(***************************************************************************)
(* Web, for any number of addresses and slots, any limits and any ring:    *)
(* the login limiter keeps its budget, and an event shows the lines it     *)
(* means although the log goes on while it is built.                       *)
(***************************************************************************)
EXTENDS Web, SequenceTheorems, WellFoundedInduction, TLAPS

-----------------------------------------------------------------------------
(* Division *)

LEMMA Divided ==
    ASSUME NEW R \in Nat, R > 0, NEW a \in Nat
    PROVE  a = R * (a \div R) + (a % R) /\ a \div R \in Int
OBVIOUS

(* Lines that share a place in the ring are a round apart or more. *)
LEMMA SamePlace ==
    ASSUME NEW R \in Nat \ {0}, NEW a \in Nat, NEW b \in Nat,
           a < b, a % R = b % R
    PROVE  a + R <= b
<1> DEFINE p == a \div R
           q == b \div R
<1>0. R \in Nat /\ R > 0
  OBVIOUS
<1>1. /\ p \in Int /\ q \in Int
      /\ a = R * p + (a % R) /\ b = R * q + (b % R)
  <2>1. a = R * (a \div R) + (a % R) /\ a \div R \in Int
    BY <1>0, Divided, Zenon
  <2>2. b = R * (b \div R) + (b % R) /\ b \div R \in Int
    BY <1>0, Divided, Zenon
  <2>3. QED BY <2>1, <2>2, Zenon
<1>2. b - a = R * (q - p)
  <2>1. a % R \in Nat /\ R * q \in Int /\ R * p \in Int
    BY <1>1
  <2> HIDE DEF p, q
  <2>2. b - a = R * q - R * p
    BY <1>1, <2>1
  <2>3. QED BY <1>1, <2>2
<1> HIDE DEF p, q
<1>3. q - p >= 1
  <2>1. CASE q - p <= 0
    <3>1. R * (q - p) <= 0
      BY <1>1, <2>1
    <3>2. QED BY <1>2, <3>1
  <2>2. QED BY <1>1, <2>1
<1>4. R * (q - p) >= R
  BY <1>1, <1>3
<1>5. QED BY <1>2, <1>4

LEMMA SmallRemainder ==
    ASSUME NEW R \in Nat \ {0}, NEW a \in 0 .. R - 1
    PROVE  /\ a % R = a
           /\ (a + R) % R = a
OBVIOUS

LEMMA Remainder ==
    ASSUME NEW R \in Nat \ {0}, NEW a \in Nat
    PROVE  a % R \in 0 .. R - 1
OBVIOUS

-----------------------------------------------------------------------------
(* The ring and the event built from it *)

RingTypes ==
    /\ s_ring \in [0 .. RingN - 1 -> 0 .. MaxLines]
    /\ s_head \in 0 .. HeadMod - 1 /\ s_count \in 0 .. RingN
    /\ logged \in 0 .. MaxLines

EventTypes ==
    event \in [head : 0 .. HeadMod - 1, count : 0 .. RingN, k : 0 .. RingN,
               lines : Seq(0 .. MaxLines), upto : 0 .. MaxLines]

(* The place of line n. *)
Place(n) == (n - 1) % RingN

(* The head has not come round its own counter, and the place of a line    *)
(* holds this line or one that was logged a round later or more.           *)
RingInv ==
    /\ s_head = logged
    /\ s_count = IF logged < RingN THEN logged ELSE RingN
    /\ \A n \in 1 .. logged : \/ s_ring[Place(n)] = n
                              \/ s_ring[Place(n)] \in n + RingN .. logged

(* How many of the first k lines are taken. *)
Taken(k, count) == IF k + Show <= count THEN 0
                   ELSE IF count <= Show THEN k ELSE k + Show - count

(* The next line is passed over or taken. *)
LEMMA TakenNext ==
    ASSUME NEW k \in Nat, NEW c \in Nat, k < c
    PROVE  /\ c - k > Show => Taken(k + 1, c) = Taken(k, c)
           /\ ~(c - k > Show) =>
                /\ Taken(k + 1, c) = Taken(k, c) + 1
                /\ Taken(k, c) - (IF c < Show THEN c ELSE Show) = k - c
<1>1. Show \in Nat \ {0}
  BY RingAssumption
<1>2. QED BY <1>1 DEF Taken

EventInv ==
    /\ event.head = event.upto /\ event.upto <= logged
    /\ event.count <= event.upto
    /\ event.k <= event.count
    /\ Len(event.lines) = Taken(event.k, event.count)
    /\ EventFaithful

LEMMA RingConstants ==
    /\ RingN \in Nat \ {0} /\ Show \in Nat \ {0} /\ Show <= RingN
    /\ MaxLines \in Nat /\ HeadMod \in Nat /\ MaxLines < HeadMod
BY RingAssumption

(* web_log_hook *)
LEMMA LogStep ==
    ASSUME RingTypes, RingInv, Log
    PROVE  RingTypes' /\ RingInv'
<1> USE RingConstants
<1>1. /\ logged \in Nat /\ logged < MaxLines /\ logged' = logged + 1
      /\ s_head = logged /\ s_count' = Counted(s_count)
  BY DEF Log, RingTypes, RingInv
<1>2. s_head' = logged + 1
  <2>1. logged + 1 \in 0 .. HeadMod - 1 /\ HeadMod \in Nat \ {0}
    BY <1>1
  <2>2. (logged + 1) % HeadMod = logged + 1
    BY <2>1, SmallRemainder
  <2>3. QED BY <1>1, <2>2 DEF Log
<1>3. s_count' = (IF logged' < RingN THEN logged' ELSE RingN)
  BY <1>1 DEF Counted, RingInv
<1> DEFINE p == logged % RingN
<1>4. p \in 0 .. RingN - 1
  BY <1>1, Remainder
<1>5. s_ring' = [s_ring EXCEPT ![p] = logged + 1]
  BY <1>1 DEF Log
<1> HIDE DEF p
<1>6. s_ring' \in [0 .. RingN - 1 -> 0 .. MaxLines]
  BY <1>1, <1>4, <1>5 DEF RingTypes
<1>7. s_count' \in 0 .. RingN
  BY <1>1, <1>3
<1>8. RingTypes'
  BY <1>1, <1>2, <1>6, <1>7 DEF RingTypes
<1>9. ASSUME NEW n \in 1 .. logged'
      PROVE  \/ s_ring'[Place(n)] = n
             \/ s_ring'[Place(n)] \in n + RingN .. logged'
  <2>1. n \in Nat /\ n - 1 \in Nat /\ n - 1 <= logged /\ n <= logged + 1
    BY <1>1
  <2>2. Place(n) \in 0 .. RingN - 1
    BY <2>1, Remainder DEF Place
  <2>3. CASE n = logged + 1
    <3>1. Place(n) = p
      BY <1>1, <2>3 DEF Place, p
    <3>2. QED BY <1>4, <1>5, <2>3, <3>1 DEF RingTypes
  <2>4. CASE n <= logged /\ Place(n) = p
    <3>1. n - 1 + RingN <= logged
      <4>1. n - 1 < logged
        BY <1>1, <2>1, <2>4
      <4>2. (n - 1) % RingN = logged % RingN
        BY <2>4 DEF Place, p
      <4>3. QED BY <1>1, <2>1, <4>1, <4>2, SamePlace
    <3>2. s_ring'[Place(n)] = logged + 1
      BY <1>4, <1>5, <2>4 DEF RingTypes
    <3>3. QED BY <1>1, <2>1, <3>1, <3>2
  <2>5. CASE n <= logged /\ Place(n) # p
    <3>1. s_ring'[Place(n)] = s_ring[Place(n)]
      BY <1>5, <2>2, <2>5 DEF RingTypes
    <3>2. \/ s_ring[Place(n)] = n \/ s_ring[Place(n)] \in n + RingN .. logged
      BY <1>1, <2>1, <2>5 DEF RingInv
    <3>3. QED BY <1>1, <2>1, <3>1, <3>2
  <2>6. QED BY <1>1, <2>1, <2>3, <2>4, <2>5
<1>10. QED BY <1>1, <1>2, <1>3, <1>8, <1>9 DEF RingInv

(* Lines that come while an event is built leave it faithful. *)
LEMMA FaithfulStays ==
    ASSUME RingTypes, EventTypes, EventInv, event' = event,
           logged' \in Nat, logged <= logged'
    PROVE  EventInv'
<1>1. /\ logged \in Nat /\ event.upto \in Nat /\ event.count \in Nat
  BY RingConstants DEF RingTypes, EventTypes
<1> DEFINE shown == IF event.count < Show THEN event.count ELSE Show
           meant(i) == event.upto - shown + i
           Good(i, l) == \/ event.lines[i] = meant(i)
                         \/ event.lines[i] > event.upto /\ l >= meant(i) + RingN
<1>2. EventFaithful <=> \A i \in DOMAIN event.lines : Good(i, logged)
  BY Zenon DEF EventFaithful
<1>3. EventFaithful' <=> \A i \in DOMAIN event.lines : Good(i, logged')
  BY Zenon DEF EventFaithful
<1>4. ASSUME NEW i \in DOMAIN event.lines, Good(i, logged) PROVE Good(i, logged')
  <2>1. i \in Nat
    BY LenProperties DEF EventTypes
  <2>2. meant(i) + RingN \in Int
    BY <1>1, <2>1, RingConstants
  <2>3. QED BY <1>1, <1>4, <2>2
<1> HIDE DEF Good
<1>5. EventFaithful'
  BY <1>2, <1>3, <1>4 DEF EventInv
<1>6. event'.upto <= logged'
  BY <1>1 DEF EventInv
<1>7. QED BY <1>5, <1>6 DEF EventInv

(* build_event, its beginning and its end. *)
LEMMA NewEvent ==
    ASSUME RingTypes, RingInv, logged' = logged,
           \/ event' = NoEvent
           \/ event' = [head |-> s_head, count |-> s_count, k |-> 0,
                        lines |-> <<>>, upto |-> logged]
    PROVE  EventTypes' /\ EventInv'
<1> USE RingConstants
<1>1. PICK h \in 0 .. HeadMod - 1, c \in 0 .. RingN :
        /\ event' = [head |-> h, count |-> c, k |-> 0, lines |-> <<>>, upto |-> h]
        /\ h <= logged /\ c <= h
  <2>1. CASE event' = NoEvent
    <3>1. 0 \in 0 .. HeadMod - 1 /\ 0 \in 0 .. RingN /\ 0 <= logged
      BY DEF RingTypes
    <3>2. QED BY <2>1, <3>1 DEF NoEvent
  <2>2. CASE event' # NoEvent
    <3>1. s_head = logged /\ s_count <= s_head /\ s_head <= logged
      BY DEF RingTypes, RingInv
    <3>2. QED BY <2>2, <3>1 DEF RingTypes
  <2>3. QED BY <2>1, <2>2
<1>2. <<>> \in Seq(0 .. MaxLines) /\ Len(<<>>) = 0 /\ DOMAIN <<>> = {}
  OBVIOUS
<1>3. h \in 0 .. MaxLines /\ 0 \in 0 .. RingN
  BY <1>1 DEF RingTypes
<1>4. EventTypes'
  BY <1>1, <1>2, <1>3 DEF EventTypes
<1>5. /\ event'.head = h /\ event'.count = c /\ event'.k = 0
      /\ event'.lines = <<>> /\ event'.upto = h
  BY <1>1
<1>6. EventFaithful'
  BY <1>2, <1>5, Zenon DEF EventFaithful
<1>7. Len(event'.lines) = Taken(event'.k, event'.count)
  BY <1>2, <1>5 DEF Taken
<1>8. h <= logged' /\ 0 <= c
  BY <1>1
<1>9. QED BY <1>1, <1>4, <1>5, <1>6, <1>7, <1>8 DEF EventInv

(* build_event copies a line: the place it looks at is the place of the    *)
(* line it means.                                                          *)
LEMMA LineRead ==
    ASSUME RingTypes, EventTypes, RingInv, EventInv, event.k < event.count
    PROVE  LET n == event.upto - event.count + event.k + 1
           IN  /\ n \in 1 .. event.upto
               /\ Index(event.k) \in 0 .. RingN - 1
               /\ \/ s_ring[Index(event.k)] = n
                  \/ s_ring[Index(event.k)] > event.upto /\ logged >= n + RingN
<1> USE RingConstants
<1> DEFINE n == event.upto - event.count + event.k + 1
<1>1. /\ event.upto \in 0 .. MaxLines /\ event.count \in 0 .. RingN
      /\ event.k \in Nat /\ event.head = event.upto /\ event.count <= event.upto
      /\ logged \in Nat /\ event.upto <= logged
  BY DEF RingTypes, EventTypes, EventInv
<1>2. n \in 1 .. event.upto /\ n - 1 \in 0 .. HeadMod - 1 /\ n - 1 \in Nat
  BY <1>1
<1>3. event.head + HeadMod - event.count + event.k = n - 1 + HeadMod
  BY <1>1
<1> HIDE DEF n
<1>4. Index(event.k) = Place(n)
  <2>1. HeadMod \in Nat \ {0}
    OBVIOUS
  <2>2. (n - 1 + HeadMod) % HeadMod = n - 1
    BY <1>2, <2>1, SmallRemainder
  <2>3. QED BY <1>3, <2>2, Zenon DEF Index, Place
<1>5. Place(n) \in 0 .. RingN - 1
  BY <1>2, Remainder DEF Place
<1>6. \/ s_ring[Place(n)] = n \/ s_ring[Place(n)] \in n + RingN .. logged
  BY <1>1, <1>2 DEF RingInv
<1>7. n + RingN > event.upto
  BY <1>1 DEF n
<1>8. ASSUME s_ring[Place(n)] \in n + RingN .. logged
      PROVE  s_ring[Place(n)] > event.upto /\ logged >= n + RingN
  BY <1>1, <1>2, <1>7, <1>8
<1>9. QED BY <1>2, <1>4, <1>5, <1>6, <1>8 DEF n

(* The line that is read is the next one the event means. *)
LEMMA ReadStep ==
    ASSUME RingTypes, EventTypes, RingInv, EventInv, ReadLine
    PROVE  EventTypes' /\ EventInv'
<1> USE RingConstants
<1> DEFINE v == s_ring[Index(event.k)]
           ls == IF Skipped(event.k) THEN event.lines ELSE Append(event.lines, v)
<1>1. /\ event.upto \in 0 .. MaxLines /\ event.count \in 0 .. RingN
      /\ event.k \in 0 .. RingN /\ event.lines \in Seq(0 .. MaxLines)
      /\ event.k < event.count /\ logged' = logged /\ logged \in Nat
  BY DEF RingTypes, EventTypes, ReadLine, logVars
<1>2. event' = [event EXCEPT !.k = event.k + 1, !.lines = ls]
  BY DEF ReadLine
<1>3. Index(event.k) \in 0 .. RingN - 1 /\ v \in 0 .. MaxLines
  BY <1>1, LineRead DEF RingTypes
<1> HIDE DEF v
<1>4. ls \in Seq(0 .. MaxLines)
  BY <1>1, <1>3, AppendProperties
<1> HIDE DEF ls
<1>5. event.k + 1 \in 0 .. RingN
  BY <1>1
<1>6. EventTypes'
  BY <1>2, <1>4, <1>5 DEF EventTypes
<1>7. /\ event'.head = event.head /\ event'.count = event.count
      /\ event'.upto = event.upto /\ event'.k = event.k + 1
      /\ event'.lines = ls
  BY <1>2 DEF EventTypes
<1>8. Len(event.lines) = Taken(event.k, event.count)
  BY DEF EventInv
<1>9. Len(ls) = Taken(event.k + 1, event.count)
  <2>1. CASE Skipped(event.k)
    <3>1. ls = event.lines
      BY <2>1 DEF ls
    <3>2. QED BY <1>1, <1>8, <2>1, <3>1, TakenNext DEF Skipped
  <2>2. CASE ~Skipped(event.k)
    <3>1. Len(ls) = Len(event.lines) + 1
      BY <1>1, <1>3, <2>2, AppendProperties DEF ls
    <3>2. QED BY <1>1, <1>8, <2>2, <3>1, TakenNext DEF Skipped
  <2>3. QED BY <2>1, <2>2
<1> DEFINE shown == IF event.count < Show THEN event.count ELSE Show
           meant(i) == event.upto - shown + i
           Good(l, i) == \/ l[i] = meant(i)
                         \/ l[i] > event.upto /\ logged >= meant(i) + RingN
<1>10. \A i \in DOMAIN event.lines : Good(event.lines, i)
  BY Zenon DEF EventFaithful, EventInv
<1>11. EventFaithful' <=> \A i \in DOMAIN ls : Good(ls, i)
  BY <1>1, <1>7, Zenon DEF EventFaithful
<1>12. ASSUME NEW i \in DOMAIN ls PROVE Good(ls, i)
  <2>1. CASE Skipped(event.k)
    BY <1>10, <2>1 DEF ls
  <2>2. CASE ~Skipped(event.k)
    <3> DEFINE m == Len(event.lines)
    <3>1. /\ m \in Nat /\ DOMAIN event.lines = 1 .. m
          /\ DOMAIN ls = 1 .. m + 1 /\ ls[m + 1] = v
          /\ \A j \in 1 .. m : ls[j] = event.lines[j]
      BY <1>1, <1>3, <2>2, AppendProperties, LenProperties DEF ls
    <3>2. m - shown = event.k - event.count
      BY <1>1, <1>8, <2>2, TakenNext DEF Skipped
    <3>3. meant(m + 1) = event.upto - event.count + event.k + 1
      <4> DEFINE u == event.upto
                 c == event.count
                 k == event.k
      <4>1. shown \in Nat /\ u \in Nat /\ c \in Nat /\ k \in Nat /\ m \in Nat
        BY <1>1, <3>1
      <4>2. m - shown = k - c
        BY <3>2
      <4> HIDE DEF m, shown, u, c, k
      <4>3. u - shown + (m + 1) = u - c + k + 1
        BY <4>1, <4>2
      <4>4. QED BY <4>3 DEF u, c, k
    <3>4. \/ v = meant(m + 1)
          \/ v > event.upto /\ logged >= meant(m + 1) + RingN
      BY <1>1, <3>3, LineRead DEF v
    <3> HIDE DEF m, meant
    <3>5. CASE i = m + 1
      BY <3>1, <3>4, <3>5
    <3>6. CASE i \in 1 .. m
      BY <1>10, <3>1, <3>6
    <3>7. QED BY <3>1, <3>5, <3>6
  <2>3. QED BY <2>1, <2>2
<1> HIDE DEF Good
<1>13. EventFaithful'
  BY <1>11, <1>12
<1>14. QED
  BY <1>1, <1>6, <1>7, <1>9, <1>13 DEF EventInv

(* Everything a step can do to the log and the event. *)
LEMMA LogAndEvent ==
    ASSUME [Next]_vars
    PROVE  \/ Log /\ event' = event
           \/ UNCHANGED <<logVars, event>>
           \/ ReadLine /\ UNCHANGED logVars
           \/ /\ UNCHANGED logVars
              /\ \/ event' = NoEvent
                 \/ event' = [head |-> s_head, count |-> s_count, k |-> 0,
                              lines |-> <<>>, upto |-> logged]
BY DEF Next, WebInit, Visit, OpenEvents, Log, Snapshot, ReadLine, SendEvent,
   ViewerGone, Tick, vars

EventState == RingTypes /\ EventTypes /\ RingInv /\ EventInv

(* Inductive: what the ring holds, and what the event has so far. *)
LEMMA EventStep ==
    ASSUME EventState, [Next]_vars
    PROVE  EventState'
<1>1. RingTypes /\ EventTypes /\ RingInv /\ EventInv
  BY DEF EventState
<1>2. CASE Log /\ event' = event
  <2>1. logged' \in Nat /\ logged <= logged'
    BY <1>1, <1>2 DEF Log, RingTypes
  <2>2. RingTypes' /\ RingInv'
    BY <1>1, <1>2, LogStep
  <2>3. EventInv'
    BY <1>1, <1>2, <2>1, FaithfulStays
  <2>4. QED BY <1>1, <1>2, <2>2, <2>3 DEF EventTypes, EventState
<1>3. ASSUME UNCHANGED logVars PROVE RingTypes' /\ RingInv' /\ logged' = logged
  BY <1>1, <1>3 DEF logVars, RingTypes, RingInv, Place
<1>4. CASE UNCHANGED <<logVars, event>>
  <2>1. RingTypes' /\ RingInv' /\ logged' = logged
    BY <1>3, <1>4
  <2>2. EventInv'
    <3>1. logged' \in Nat /\ logged <= logged'
      BY <1>1, <2>1 DEF RingTypes
    <3>2. QED BY <1>1, <1>4, <3>1, FaithfulStays
  <2>3. QED BY <1>1, <1>4, <2>1, <2>2 DEF EventTypes, EventState
<1>5. CASE ReadLine /\ UNCHANGED logVars
  BY <1>1, <1>3, <1>5, ReadStep DEF EventState
<1>6. CASE /\ UNCHANGED logVars
           /\ \/ event' = NoEvent
              \/ event' = [head |-> s_head, count |-> s_count, k |-> 0,
                           lines |-> <<>>, upto |-> logged]
  BY <1>1, <1>3, <1>6, NewEvent DEF EventState
<1>7. QED BY <1>2, <1>4, <1>5, <1>6, LogAndEvent

LEMMA EventInit == Init => EventState
<1> SUFFICES ASSUME Init PROVE EventState
  OBVIOUS
<1> USE RingConstants
<1>1. RingTypes
  BY DEF Init, RingTypes
<1>2. RingInv
  BY DEF Init, RingInv
<1>3. EventTypes
  <2>1. <<>> \in Seq(0 .. MaxLines)
    OBVIOUS
  <2>2. QED BY <2>1 DEF Init, EventTypes, NoEvent
<1>4. EventInv
  <2>1. Len(<<>>) = 0 /\ DOMAIN <<>> = {}
    OBVIOUS
  <2>2. /\ event.head = 0 /\ event.count = 0 /\ event.k = 0 /\ event.upto = 0
        /\ event.lines = <<>> /\ logged = 0
    BY DEF Init, NoEvent
  <2>3. EventFaithful
    BY <2>1, <2>2, Zenon DEF EventFaithful
  <2>4. QED BY <2>1, <2>2, <2>3 DEF EventInv, Taken
<1>5. QED BY <1>1, <1>2, <1>3, <1>4 DEF EventState

(* Whatever the other tasks log while an event is built, it shows the last *)
(* lines there were when it was begun, in order, and where the ring has    *)
(* gone round a later line (build_event, web_log_hook).                    *)
THEOREM EventsFaithful == Spec => []EventFaithful
<1>1. EventState => EventFaithful
  BY DEF EventState, EventInv
<1>2. EventState /\ [Next]_vars => EventState'
  BY EventStep
<1>3. QED BY <1>1, <1>2, EventInit, PTL DEF Spec

-----------------------------------------------------------------------------
(* The gate *)

Bucket == [ip : Ips \cup {Free, Unknown}, fails : 0 .. MaxCount, left : 0 .. Block]
Ages == [1 .. MaxFail + 1 -> 0 .. Block]

RateTypes == s_rate \in [0 .. RateMax -> Bucket] /\ guesses \in [Ips -> Ages]

(* What a bucket knows of the guesses g of its address: below the limit it *)
(* has counted them all; at the limit none is younger than the block, and  *)
(* the one before the last MaxFail has run out.                            *)
Budget(b, g) ==
    /\ b.left > 0 => b.fails >= MaxFail
    /\ b.fails < MaxFail => \A n \in b.fails + 1 .. MaxFail + 1 : g[n] = Block
    /\ b.fails >= MaxFail =>
         /\ g[MaxFail + 1] = Block
         /\ \A n \in 1 .. MaxFail + 1 : g[n] + b.left >= Block

OneBucket ==
    \A i, j \in Slots : s_rate[i].ip = s_rate[j].ip /\ s_rate[i].ip # Free => i = j

(* Nobody without a bucket has guessed while there still is a free one.    *)
GateInv ==
    /\ OneBucket
    /\ \A i \in Slots :
         /\ s_rate[i].ip # Unknown
         /\ s_rate[i].ip = Free => s_rate[i] = EmptySlot(Free)
         /\ s_rate[i].ip \in Ips => Budget(s_rate[i], guesses[s_rate[i].ip])
    /\ SlotsOf(Free) # {} =>
         \A ip \in Ips : SlotsOf(ip) = {} => guesses[ip] = NoGuess

LEMMA GateConstants ==
    /\ RateMax \in Nat /\ Block \in Nat \ {0} /\ MaxCount \in Nat
    /\ MaxFail \in Nat \ {0} /\ MaxFail <= MaxCount
<1>1. MaxCount \in Nat
  BY LimitsAssumption
<1>2. QED BY <1>1, LimitsAssumption

(* rate_slot finds a bucket if there is one to be found. *)
LEMMA FirstIsMember ==
    ASSUME NEW S \in SUBSET Slots, S # {}
    PROVE  First(S) \in S
<1> DEFINE R == {ss \in Nat \X Nat : ss[1] < ss[2]}
<1>1. S \subseteq Nat
  BY GateConstants DEF Slots
<1>2. OpToRel(<, Nat) = R
  BY Zenon DEF OpToRel
<1>3. PICK x \in S : \A y \in S : ~ (<<y, x>> \in R)
  <2>1. IsWellFoundedOn(R, Nat)
    BY <1>2, NatLessThanWellFounded, Zenon
  <2> HIDE DEF R
  <2>2. QED BY <1>1, <2>1, WFMin
<1>4. ASSUME NEW y \in S PROVE x <= y
  <2>1. x \in Nat /\ y \in Nat
    BY <1>1
  <2>2. CASE y < x
    <3>1. <<y, x>> \in R
      BY <2>1, <2>2
    <3>2. QED BY <1>3, <3>1
  <2>3. QED BY <2>1, <2>2
<1>5. QED BY <1>4 DEF First

(* rate_slot: the bucket of the address, else a free one, else none. *)
LEMMA SlotFacts ==
    ASSUME NEW ip \in Ips \cup {Unknown}
    PROVE  /\ ip = Unknown => Slot(ip) = Fallback
           /\ ip # Unknown /\ SlotsOf(ip) # {} => Slot(ip) \in SlotsOf(ip)
           /\ ip # Unknown /\ SlotsOf(ip) = {} /\ SlotsOf(Free) # {} =>
                Slot(ip) \in SlotsOf(Free)
           /\ ip # Unknown /\ SlotsOf(ip) = {} /\ SlotsOf(Free) = {} =>
                Slot(ip) = NoSlot
           /\ NoSlot \notin Slots /\ NoSlot # Fallback
<1>1. \A a : SlotsOf(a) \in SUBSET Slots
  BY DEF SlotsOf
<1>2. NoSlot \notin Slots /\ NoSlot # Fallback
  BY GateConstants DEF NoSlot, Slots, Fallback
<1>3. QED BY <1>1, <1>2, FirstIsMember, Zenon DEF Slot

(* What becomes of the guesses of an address. *)
GuessedNext(g, creds) == CASE creds = "RIGHT" -> NoGuess
                           [] creds = "WRONG" -> Guessed(g)
                           [] creds = "NONE"  -> g

(* A guess pushes the others back. *)
LEMMA GuessTypes ==
    ASSUME NEW g \in Ages
    PROVE  Guessed(g) \in Ages /\ NoGuess \in Ages
<1> USE GateConstants
<1>1. 0 \in 0 .. Block /\ Block \in 0 .. Block
  OBVIOUS
<1>2. ASSUME NEW n \in 1 .. MaxFail + 1
      PROVE  (IF n = 1 THEN 0 ELSE g[n - 1]) \in 0 .. Block
  <2>1. n # 1 => n - 1 \in 1 .. MaxFail + 1
    OBVIOUS
  <2>2. QED BY <1>1, <2>1 DEF Ages
<1>3. QED BY <1>1, <1>2, Zenon DEF Guessed, NoGuess, Ages

(* rate_fail and rate_clear keep the budget, when they are reached. *)
LEMMA AfterBudget ==
    ASSUME NEW b \in Bucket, NEW g \in Ages, NEW ip \in Ips \cup {Unknown},
           NEW creds \in {"RIGHT", "WRONG", "NONE"}
    PROVE  /\ After(b, ip, creds) \in Bucket
           /\ After(b, ip, creds).ip = ip
           /\ b.left = 0 /\ Budget(b, g) =>
                Budget(After(b, ip, creds), GuessedNext(g, creds))
<1> USE GateConstants
<1>1. b.fails \in 0 .. MaxCount /\ b.left \in 0 .. Block
  BY DEF Bucket
<1>2. CASE creds = "RIGHT"
  <2>1. After(b, ip, creds) = EmptySlot(ip) /\ GuessedNext(g, creds) = NoGuess
    BY <1>2 DEF After, GuessedNext
  <2>2. EmptySlot(ip) \in Bucket /\ EmptySlot(ip).ip = ip
    BY DEF EmptySlot, Bucket
  <2>3. Budget(EmptySlot(ip), NoGuess)
    BY DEF Budget, EmptySlot, NoGuess
  <2>4. QED BY <2>1, <2>2, <2>3
<1>3. CASE creds = "NONE"
  <2>1. After(b, ip, creds) = [b EXCEPT !.ip = ip] /\ GuessedNext(g, creds) = g
    BY <1>3 DEF After, GuessedNext
  <2>2. /\ [b EXCEPT !.ip = ip] \in Bucket /\ [b EXCEPT !.ip = ip].ip = ip
        /\ [b EXCEPT !.ip = ip].fails = b.fails
        /\ [b EXCEPT !.ip = ip].left = b.left
    BY DEF Bucket
  <2>3. QED BY <2>1, <2>2 DEF Budget
<1>4. CASE creds = "WRONG"
  <2> DEFINE n == IF b.fails < MaxCount THEN b.fails + 1 ELSE b.fails
             l == IF Reached(n) THEN Block ELSE b.left
             c == After(b, ip, creds)
  <2>1. c = Failed([b EXCEPT !.ip = ip]) /\ GuessedNext(g, creds) = Guessed(g)
    BY <1>4 DEF After, GuessedNext
  <2>2. c = [[b EXCEPT !.ip = ip] EXCEPT !.fails = n, !.left = l]
    BY <2>1 DEF Failed, Bucket
  <2>3. n \in 0 .. MaxCount /\ l \in 0 .. Block
    BY <1>1 DEF Reached
  <2> HIDE DEF c
  <2>4. c \in Bucket /\ c.ip = ip /\ c.fails = n /\ c.left = l
    <3> HIDE DEF n, l
    <3>1. QED BY <2>2, <2>3 DEF Bucket
  <2>5. ASSUME b.left = 0, Budget(b, g) PROVE Budget(c, Guessed(g))
    <3>1. c.left > 0 => c.fails >= MaxFail
      BY <1>1, <2>4, <2>5 DEF Reached
    <3>2. /\ Guessed(g)[1] = 0
          /\ \A k \in 2 .. MaxFail + 1 : Guessed(g)[k] = g[k - 1]
      BY DEF Guessed
    <3>3. g \in [1 .. MaxFail + 1 -> 0 .. Block]
      BY DEF Ages
    <3>4. CASE b.fails < MaxFail
      <4>1. c.fails = b.fails + 1
        BY <1>1, <2>4, <3>4
      <4>2. \A k \in b.fails + 1 .. MaxFail + 1 : g[k] = Block
        BY <2>5, <3>4 DEF Budget
      <4>3. ASSUME NEW k \in c.fails + 1 .. MaxFail + 1
            PROVE  Guessed(g)[k] = Block
        <5>1. k \in 2 .. MaxFail + 1 /\ k - 1 \in b.fails + 1 .. MaxFail + 1
          BY <1>1, <4>1
        <5>2. QED BY <3>2, <4>2, <5>1
      <4>4. ASSUME c.fails >= MaxFail
            PROVE  /\ Guessed(g)[MaxFail + 1] = Block
                   /\ \A k \in 1 .. MaxFail + 1 : Guessed(g)[k] + c.left >= Block
        <5>1. c.left = Block
          BY <2>4, <4>4 DEF Reached
        <5>2. MaxFail + 1 \in c.fails + 1 .. MaxFail + 1
          BY <1>1, <3>4, <4>1, <4>4
        <5>3. Guessed(g)[MaxFail + 1] = Block
          BY <4>3, <5>2
        <5>4. \A k \in 1 .. MaxFail + 1 : Guessed(g)[k] \in Nat
          BY GuessTypes DEF Ages
        <5>5. QED BY <5>1, <5>3, <5>4
      <4>5. QED BY <3>1, <4>3, <4>4 DEF Budget
    <3>5. CASE b.fails >= MaxFail
      <4>1. \A k \in 1 .. MaxFail + 1 : g[k] = Block
        <5>1. \A k \in 1 .. MaxFail + 1 : g[k] \in 0 .. Block /\ g[k] + b.left >= Block
          BY <2>5, <3>3, <3>5 DEF Budget
        <5>2. QED BY <2>5, <5>1
      <4>2. c.fails >= MaxFail /\ c.left = Block
        BY <1>1, <2>4, <3>5 DEF Reached
      <4>3. MaxFail + 1 \in 2 .. MaxFail + 1 /\ MaxFail + 1 - 1 \in 1 .. MaxFail + 1
        OBVIOUS
      <4>4. Guessed(g)[MaxFail + 1] = Block
        BY <3>2, <4>1, <4>3
      <4>5. \A k \in 1 .. MaxFail + 1 : Guessed(g)[k] \in Nat
        BY GuessTypes DEF Ages
      <4>6. c.fails \in Nat
        BY <2>3, <2>4
      <4>7. QED BY <3>1, <4>2, <4>4, <4>5, <4>6 DEF Budget
    <3>6. QED BY <1>1, <3>4, <3>5
  <2>6. QED BY <2>1, <2>4, <2>5 DEF c
<1>5. QED BY <1>2, <1>3, <1>4

(* A request that reaches the gate. *)
LEMMA GateStep ==
    ASSUME RateTypes, GateInv,
           NEW ip \in Ips \cup {Unknown}, NEW creds \in {"RIGHT", "WRONG", "NONE"},
           s_rate' = Gate(ip, creds), guesses' = Judged(ip, creds)
    PROVE  RateTypes' /\ GateInv'
<1> USE GateConstants
<1> DEFINE i == Slot(ip)
           b == After(s_rate[i], ip, creds)
<1>1. s_rate \in [0 .. RateMax -> Bucket] /\ guesses \in [Ips -> Ages]
  BY DEF RateTypes
<1>2. Slots \subseteq 0 .. RateMax /\ Fallback \in 0 .. RateMax /\ Fallback \notin Slots
  BY DEF Slots, Fallback
<1>3. Unknown \notin Ips /\ Free \notin Ips /\ Free # Unknown
  BY AddressAssumption DEF Free
<1>4. \A a : SlotsOf(a) = {j \in Slots : s_rate[j].ip = a}
  BY DEF SlotsOf
<1>5. CASE Silenced(ip)
  <2>1. s_rate' = s_rate /\ guesses' = guesses
    BY <1>5, Zenon DEF Gate, Judged
  <2>2. QED BY <2>1 DEF RateTypes, GateInv, OneBucket, SlotsOf
<1>6. CASE ~Silenced(ip) /\ ip = Unknown
  <2>1. i = Fallback /\ i # NoSlot
    BY <1>6, SlotFacts
  <2>2. s_rate' = [s_rate EXCEPT ![i] = b] /\ guesses' = guesses
    BY <1>6, <2>1, Zenon DEF Gate, Judged
  <2>3. NoGuess \in Ages
    BY DEF NoGuess, Ages
  <2>4. b \in Bucket
    BY <1>1, <1>2, <2>1, <2>3, AfterBudget
  <2> HIDE DEF b
  <2>5. RateTypes'
    BY <1>1, <1>2, <2>1, <2>2, <2>4 DEF RateTypes
  <2>6. \A j \in Slots : s_rate'[j] = s_rate[j]
    BY <1>1, <1>2, <2>1, <2>2
  <2>7. \A a : SlotsOf(a)' = SlotsOf(a)
    BY <2>6 DEF SlotsOf
  <2>8. QED BY <2>2, <2>5, <2>6, <2>7 DEF GateInv, OneBucket
<1>7. CASE ~Silenced(ip) /\ ip # Unknown
  <2> DEFINE g == GuessedNext(guesses[ip], creds)
  <2>1. ip \in Ips /\ guesses[ip] \in Ages
    BY <1>1, <1>7
  <2>2. g \in Ages
    BY <2>1, GuessTypes DEF GuessedNext
  <2>3. guesses' = [guesses EXCEPT ![ip] = g]
    <3>1. CASE creds = "NONE"
      <4>1. guesses' = guesses /\ g = guesses[ip]
        BY <3>1 DEF Judged, GuessedNext
      <4>2. QED BY <1>1, <2>1, <4>1
    <3>2. CASE creds = "RIGHT"
      BY <1>7, <3>2 DEF Judged, GuessedNext
    <3>3. CASE creds = "WRONG"
      BY <1>7, <3>3 DEF Judged, GuessedNext
    <3>4. QED BY <3>1, <3>2, <3>3
  <2> HIDE DEF g
  <2>4. guesses' \in [Ips -> Ages] /\ guesses'[ip] = g
    BY <1>1, <2>1, <2>2, <2>3
  <2>5. \A a \in Ips \ {ip} : guesses'[a] = guesses[a]
    BY <1>1, <2>3
  <2>6. CASE i = NoSlot
    <3>1. s_rate' = s_rate
      BY <2>6, Zenon DEF Gate
    <3>2. SlotsOf(ip) = {} /\ SlotsOf(Free) = {}
      BY <1>4, <1>7, <2>6, SlotFacts
    <3>3. RateTypes'
      BY <1>1, <2>4, <3>1 DEF RateTypes
    <3>4. ASSUME NEW j \in Slots, s_rate'[j].ip \in Ips
          PROVE  Budget(s_rate'[j], guesses'[s_rate'[j].ip])
      <4>1. s_rate[j].ip # ip
        BY <1>4, <3>2
      <4>2. guesses'[s_rate[j].ip] = guesses[s_rate[j].ip]
        BY <2>5, <3>1, <3>4, <4>1
      <4>3. QED BY <3>1, <3>4, <4>2 DEF GateInv
    <3>5. SlotsOf(Free)' = {}
      BY <3>1, <3>2 DEF SlotsOf
    <3>6. QED BY <3>1, <3>3, <3>4, <3>5 DEF GateInv, OneBucket
  <2>7. CASE i # NoSlot
    <3>1. /\ i \in Slots
          /\ \/ s_rate[i].ip = ip
             \/ s_rate[i].ip = Free /\ SlotsOf(ip) = {} /\ SlotsOf(Free) # {}
      BY <1>4, <1>7, <2>7, SlotFacts
    <3>2. s_rate' = [s_rate EXCEPT ![i] = b]
      BY <1>7, <2>7, Zenon DEF Gate
    <3>3. s_rate[i] \in Bucket
      BY <1>1, <1>2, <3>1
    <3>4. s_rate[i].left = 0 /\ Budget(s_rate[i], guesses[ip])
      <4>1. CASE s_rate[i].ip = ip
        <5>1. ~(s_rate[i].left > 0)
          BY <1>4, <1>7, <3>1, <4>1 DEF Silenced
        <5>2. s_rate[i].left \in Nat
          BY <3>3 DEF Bucket
        <5>3. Budget(s_rate[i], guesses[ip])
          BY <2>1, <3>1, <4>1 DEF GateInv
        <5>4. QED BY <5>1, <5>2, <5>3
      <4>2. CASE s_rate[i].ip # ip
        <5>1. s_rate[i] = EmptySlot(Free) /\ guesses[ip] = NoGuess
          BY <2>1, <3>1, <4>2 DEF GateInv
        <5>2. QED BY <5>1 DEF EmptySlot, NoGuess, Budget
      <4>3. QED BY <4>1, <4>2
    <3>5. b \in Bucket /\ b.ip = ip /\ Budget(b, g)
      BY <2>1, <3>3, <3>4, AfterBudget DEF g
    <3> HIDE DEF b
    <3>6. s_rate' \in [0 .. RateMax -> Bucket] /\ s_rate'[i] = b
      BY <1>1, <1>2, <3>1, <3>2, <3>5
    <3>7. \A j \in Slots \ {i} : s_rate'[j] = s_rate[j]
      BY <1>1, <1>2, <3>2
    <3>8. RateTypes'
      BY <2>4, <3>6 DEF RateTypes
    <3>9. \A j \in Slots \ {i} : s_rate[j].ip # ip
      <4>1. CASE s_rate[i].ip = ip
        BY <1>3, <2>1, <3>1, <4>1 DEF GateInv, OneBucket
      <4>2. CASE s_rate[i].ip # ip
        BY <1>4, <3>1, <4>2
      <4>3. QED BY <4>1, <4>2
    <3>10. OneBucket'
      <4>1. ASSUME NEW j \in Slots, NEW k \in Slots,
                   s_rate'[j].ip = s_rate'[k].ip, s_rate'[j].ip # Free
            PROVE  j = k
        <5>1. CASE j = i \/ k = i
          BY <3>5, <3>6, <3>7, <3>9, <4>1, <5>1
        <5>2. CASE j # i /\ k # i
          BY <3>7, <4>1, <5>2 DEF GateInv, OneBucket
        <5>3. QED BY <5>1, <5>2
      <4>2. QED BY <4>1 DEF OneBucket
    <3>11. ASSUME NEW j \in Slots
           PROVE  /\ s_rate'[j].ip # Unknown
                  /\ s_rate'[j].ip = Free => s_rate'[j] = EmptySlot(Free)
                  /\ s_rate'[j].ip \in Ips =>
                       Budget(s_rate'[j], guesses'[s_rate'[j].ip])
      <4>1. CASE j = i
        BY <1>3, <2>1, <2>4, <3>5, <3>6, <4>1
      <4>2. CASE j # i
        <5>1. s_rate'[j] = s_rate[j] /\ s_rate[j].ip # ip
          BY <3>7, <3>9, <4>2
        <5>2. s_rate[j].ip \in Ips => guesses'[s_rate[j].ip] = guesses[s_rate[j].ip]
          BY <2>5, <5>1
        <5>3. QED BY <5>1, <5>2 DEF GateInv
      <4>3. QED BY <4>1, <4>2
    <3>12. ASSUME SlotsOf(Free)' # {}, NEW a \in Ips, SlotsOf(a)' = {}
           PROVE  guesses'[a] = NoGuess
      <4>1. a # ip
        BY <3>1, <3>5, <3>6, <3>12 DEF SlotsOf
      <4>2. SlotsOf(Free) # {}
        BY <1>3, <2>1, <3>5, <3>6, <3>7, <3>12 DEF SlotsOf
      <4>3. SlotsOf(a) = {}
        <5>1. ASSUME NEW j \in Slots, s_rate[j].ip = a PROVE FALSE
          <6>1. CASE j = i
            BY <1>3, <3>1, <4>1, <5>1, <6>1
          <6>2. CASE j # i
            BY <3>7, <3>12, <5>1, <6>2 DEF SlotsOf
          <6>3. QED BY <6>1, <6>2
        <5>2. QED BY <5>1 DEF SlotsOf
      <4>4. QED BY <2>5, <4>1, <4>2, <4>3 DEF GateInv
    <3>13. QED BY <3>8, <3>10, <3>11, <3>12 DEF GateInv
  <2>8. QED BY <2>6, <2>7
<1>8. QED BY <1>5, <1>6, <1>7

(* A second passes. *)
LEMMA GateTick ==
    ASSUME RateTypes, GateInv, Tick
    PROVE  RateTypes' /\ GateInv'
<1> USE GateConstants
<1>1. s_rate \in [0 .. RateMax -> Bucket] /\ guesses \in [Ips -> Ages]
  BY DEF RateTypes
<1>2. Slots \subseteq 0 .. RateMax
  BY DEF Slots
<1>3. \A l \in 0 .. Block : Less(l) \in 0 .. Block
  BY DEF Less
<1>4. ASSUME NEW j \in 0 .. RateMax
      PROVE  /\ s_rate'[j] \in Bucket
             /\ s_rate'[j].ip = s_rate[j].ip /\ s_rate'[j].fails = s_rate[j].fails
             /\ s_rate'[j].left = Less(s_rate[j].left)
  <2>1. s_rate'[j] = [s_rate[j] EXCEPT !.left = Less(s_rate[j].left)]
    BY <1>1 DEF Tick
  <2>2. s_rate[j] \in Bucket /\ Less(s_rate[j].left) \in 0 .. Block
    BY <1>1, <1>3 DEF Bucket
  <2>3. QED BY <2>1, <2>2 DEF Bucket
<1>5. s_rate' \in [0 .. RateMax -> Bucket]
  <2>1. /\ DOMAIN s_rate = 0 .. RateMax
        /\ s_rate' = [j \in DOMAIN s_rate |->
                        [s_rate[j] EXCEPT !.left = Less(@)]]
    BY <1>1 DEF Tick
  <2>2. QED BY <1>4, <2>1
<1>6. ASSUME NEW a \in Ips, NEW n \in 1 .. MaxFail + 1
      PROVE  /\ guesses[a][n] \in 0 .. Block /\ guesses'[a][n] \in 0 .. Block
             /\ guesses'[a][n] = IF guesses[a][n] < Block THEN guesses[a][n] + 1
                                                          ELSE Block
  <2>1. guesses[a][n] \in 0 .. Block
    BY <1>1 DEF Ages
  <2>2. guesses'[a][n] = IF guesses[a][n] < Block THEN guesses[a][n] + 1
                                                  ELSE Block
    BY DEF Tick
  <2>3. QED BY <2>1, <2>2
<1>7. guesses' \in [Ips -> Ages]
  <2>1. guesses' = [a \in Ips |-> [n \in 1 .. MaxFail + 1 |-> guesses'[a][n]]]
    BY DEF Tick
  <2>2. QED BY <1>6, <2>1 DEF Ages
<1>8. \A a : SlotsOf(a)' = SlotsOf(a)
  BY <1>2, <1>4 DEF SlotsOf
<1>9. ASSUME NEW j \in Slots, s_rate[j].ip \in Ips
      PROVE  Budget(s_rate'[j], guesses'[s_rate[j].ip])
  <2> DEFINE b == s_rate[j]
             g == guesses[s_rate[j].ip]
             c == s_rate'[j]
             h == guesses'[s_rate[j].ip]
  <2>1. /\ b.fails \in Nat /\ b.left \in Nat /\ c.fails = b.fails
        /\ c.left = Less(b.left)
    BY <1>1, <1>2, <1>4 DEF Bucket
  <2>2. \A n \in 1 .. MaxFail + 1 :
          /\ g[n] \in 0 .. Block
          /\ h[n] = IF g[n] < Block THEN g[n] + 1 ELSE Block
    BY <1>6, <1>9
  <2>3. Budget(b, g)
    BY <1>9 DEF GateInv
  <2> HIDE DEF b, g, c, h
  <2>4. c.left > 0 => c.fails >= MaxFail
    BY <2>1, <2>3 DEF Budget, Less
  <2>5. ASSUME c.fails < MaxFail, NEW n \in c.fails + 1 .. MaxFail + 1
        PROVE  h[n] = Block
    BY <2>1, <2>2, <2>3, <2>5 DEF Budget
  <2>6. ASSUME c.fails >= MaxFail
        PROVE  /\ h[MaxFail + 1] = Block
               /\ \A n \in 1 .. MaxFail + 1 : h[n] + c.left >= Block
    <3>1. MaxFail + 1 \in 1 .. MaxFail + 1 /\ g[MaxFail + 1] = Block
      BY <2>1, <2>3, <2>6 DEF Budget
    <3>2. ASSUME NEW n \in 1 .. MaxFail + 1 PROVE h[n] + c.left >= Block
      <4>1. g[n] + b.left >= Block
        BY <2>1, <2>3, <2>6 DEF Budget
      <4>2. QED BY <2>1, <2>2, <4>1 DEF Less
    <3>3. QED BY <2>2, <3>1, <3>2
  <2>7. Budget(c, h)
    BY <2>4, <2>5, <2>6 DEF Budget
  <2>8. QED BY <2>7 DEF c, h
<1>10. ASSUME NEW j \in Slots, s_rate[j].ip = Free
       PROVE  s_rate'[j] = EmptySlot(Free)
  <2>1. s_rate[j] = EmptySlot(Free)
    BY <1>10 DEF GateInv
  <2>2. s_rate'[j] = [s_rate[j] EXCEPT !.left = Less(@)]
    BY <1>1, <1>2 DEF Tick
  <2>3. QED BY <2>1, <2>2 DEF EmptySlot, Less
<1>11. ASSUME NEW a \in Ips, guesses[a] = NoGuess PROVE guesses'[a] = NoGuess
  <2>1. \A n \in 1 .. MaxFail + 1 : guesses'[a][n] = Block
    BY <1>6, <1>11 DEF NoGuess
  <2>2. guesses'[a] = [n \in 1 .. MaxFail + 1 |-> guesses'[a][n]]
    BY DEF Tick
  <2>3. QED BY <2>1, <2>2 DEF NoGuess
<1>12. \A j \in Slots : s_rate'[j].ip = s_rate[j].ip
  BY <1>2, <1>4
<1>13. QED
  BY <1>5, <1>7, <1>8, <1>9, <1>10, <1>11, <1>12 DEF RateTypes, GateInv, OneBucket

(* Inductive: the buckets and the guesses. *)
LEMMA RateStep ==
    ASSUME RateTypes, GateInv, [Next]_vars
    PROVE  RateTypes' /\ GateInv'
<1>1. CASE UNCHANGED rateVars
  BY <1>1 DEF rateVars, RateTypes, GateInv, OneBucket, SlotsOf
<1>2. CASE Tick
  BY <1>2, GateTick
<1>3. CASE \E ip \in Ips \cup {Unknown} :
             \/ \E creds \in {"RIGHT", "WRONG", "NONE"} : Visit(ip, creds)
             \/ OpenEvents(ip)
  <2>1. PICK ip \in Ips \cup {Unknown}, creds \in {"RIGHT", "WRONG", "NONE"} :
          s_rate' = Gate(ip, creds) /\ guesses' = Judged(ip, creds)
    BY <1>3 DEF Visit, OpenEvents
  <2>2. QED BY <2>1, GateStep
<1>4. QED
  BY <1>1, <1>2, <1>3 DEF Next, WebInit, Log, Snapshot, ReadLine, SendEvent,
     ViewerGone, vars

LEMMA RateInit == Init => RateTypes /\ GateInv
<1> SUFFICES ASSUME Init PROVE RateTypes /\ GateInv
  OBVIOUS
<1> USE GateConstants
<1>1. EmptySlot(Free) \in Bucket /\ NoGuess \in Ages
  BY DEF EmptySlot, Bucket, NoGuess, Ages
<1>2. RateTypes
  BY <1>1 DEF Init, RateTypes
<1>3. \A i \in Slots : s_rate[i] = EmptySlot(Free)
  BY DEF Init, Slots
<1>4. EmptySlot(Free).ip = Free /\ Free \notin Ips \cup {Unknown}
  BY AddressAssumption DEF EmptySlot, Free
<1>5. \A ip \in Ips : guesses[ip] = NoGuess
  BY DEF Init
<1>6. QED BY <1>2, <1>3, <1>4, <1>5 DEF GateInv, OneBucket

(* For any number of addresses, slots and limits: of the guesses of an     *)
(* address that has a slot no more than MaxFail are looked at in any Block *)
(* seconds (rate_slot, rate_fail, gate).                                   *)
THEOREM LoginsLimited == Spec => []LoginBudget
<1>1. RateTypes /\ GateInv => LoginBudget
  <2> SUFFICES ASSUME RateTypes, GateInv, NEW ip \in Ips, SlotsOf(ip) # {}
               PROVE  guesses[ip][MaxFail + 1] = Block
    BY DEF LoginBudget
  <2>1. PICK i \in Slots : s_rate[i].ip = ip
    BY DEF SlotsOf
  <2>2. Budget(s_rate[i], guesses[ip])
    BY <2>1 DEF GateInv
  <2>3. s_rate[i].fails \in Nat
    BY GateConstants DEF RateTypes, Bucket, Slots
  <2>4. QED BY <2>2, <2>3, GateConstants DEF Budget
<1>2. RateTypes /\ GateInv /\ [Next]_vars => (RateTypes /\ GateInv)'
  BY RateStep
<1>3. QED BY <1>1, <1>2, RateInit, PTL DEF Spec

(* The web server's state is well typed; in particular the ring's count    *)
(* and an event's lines stay within their arrays.                          *)
THEOREM WebTypes == Spec => []TypeOK
<1> DEFINE Rest == /\ up \in {"OFF", "NO_CREDENTIALS", "NO_HTTPD", "UP"}
                   /\ pc \in {"IDLE", "EVENT", "LINES", "DELAY"}
                   /\ end_us \in 0 .. Stream
<1>1. Init => Rest
  BY LimitsAssumption DEF Init
<1>2. Rest /\ [Next]_vars => Rest'
  <2> SUFFICES ASSUME Rest, [Next]_vars PROVE Rest'
    OBVIOUS
  <2>1. Stream \in Nat
    BY LimitsAssumption
  <2>2. end_us' \in {end_us, Stream, Less(end_us)}
    BY DEF Next, WebInit, Visit, OpenEvents, Log, Snapshot, ReadLine,
       SendEvent, ViewerGone, Tick, vars
  <2>3. end_us' \in 0 .. Stream
    BY <2>1, <2>2 DEF Less
  <2>4. /\ up' \in {"OFF", "NO_CREDENTIALS", "NO_HTTPD", "UP"}
        /\ pc' \in {"IDLE", "EVENT", "LINES", "DELAY"}
    BY DEF Next, WebInit, Visit, OpenEvents, Log, Snapshot, ReadLine,
       SendEvent, ViewerGone, Tick, vars
  <2>5. QED BY <2>3, <2>4
<1>3. Rest /\ RateTypes /\ EventState => TypeOK
  <2> SUFFICES ASSUME Rest, RateTypes, EventState PROVE TypeOK
    OBVIOUS
  <2>1. event.k <= event.count /\ Len(event.lines) <= Show
    <3>1. event.k \in Nat /\ event.count \in Nat /\ event.k <= event.count
      BY RingConstants DEF EventState, EventTypes, EventInv
    <3>2. Len(event.lines) = Taken(event.k, event.count)
      BY DEF EventState, EventInv
    <3>3. QED BY <3>1, <3>2, RingConstants DEF Taken
  <2>2. QED BY <2>1 DEF TypeOK, EventState, RingTypes, EventTypes, RateTypes,
                        Bucket, Ages
<1>4. RateTypes /\ GateInv /\ [Next]_vars => (RateTypes /\ GateInv)'
  BY RateStep
<1>5. EventState /\ [Next]_vars => EventState'
  BY EventStep
<1>6. QED
  BY <1>1, <1>2, <1>3, <1>4, <1>5, RateInit, EventInit, PTL DEF Spec
==============================================================================
