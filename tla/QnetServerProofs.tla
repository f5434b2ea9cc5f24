-------------------------- MODULE QnetServerProofs --------------------------
(***************************************************************************)
(* Facts about the vote table and the two decision cores, for any number   *)
(* of slots, nodes and rings; then what holds of the server whatever its   *)
(* clients do, for any number of connections as well: every step keeps     *)
(* TypeOK; who owns which slot of the vote table (SlotInv); LMS leaves no  *)
(* decidable client waiting and newcomers yield; and the votes in flight on *)
(* a connection are bounded (FlightInv).                                   *)
(***************************************************************************)
EXTENDS QnetServer, Decision, TLAPS, WellFoundedInduction, SequenceTheorems,
        FiniteSetTheorems

(* Every nonempty set of naturals has a least element. *)
LEMMA LeastElement ==
    ASSUME NEW S \in SUBSET Nat, S # {}
    PROVE  \E x \in S : \A y \in S : x <= y
<1> DEFINE R == {ss \in Nat \X Nat : ss[1] < ss[2]}
<1>2. OpToRel(<, Nat) = R
  BY Zenon DEF OpToRel
<1>3. PICK x \in S : \A y \in S : ~ (<<y, x>> \in R)
  <2>1. IsWellFoundedOn(R, Nat)
    BY <1>2, NatLessThanWellFounded, Zenon
  <2> HIDE DEF R
  <2>2. QED BY <2>1, WFMin
<1>4. ASSUME NEW y \in S PROVE x <= y
  <2>1. x \in Nat /\ y \in Nat
    OBVIOUS
  <2>2. CASE y < x
    <3>1. <<y, x>> \in R
      BY <2>1, <2>2
    <3>2. QED BY <1>3, <3>1
  <2>3. QED BY <2>1, <2>2
<1>5. QED BY <1>4

(* A set of naturals with 0 that is closed under successor has them all. *)
LEMMA Induction ==
    ASSUME NEW S, 0 \in S, \A n \in Nat : n \in S => n + 1 \in S
    PROVE  Nat \subseteq S
<1> DEFINE C == Nat \ S
<1>1. CASE C # {}
  <2>1. PICK x \in C : \A y \in C : x <= y
    BY <1>1, LeastElement
  <2>2. x \in Nat /\ x # 0 /\ x - 1 \in Nat
    OBVIOUS
  <2>3. x - 1 \in S
    BY <2>1, <2>2
  <2>4. x \in S
    BY <2>2, <2>3
  <2>5. QED BY <2>4
<1>2. QED BY <1>1

(* A scan of the table in slot order that can find something finds it.     *)
LEMMA FirstIsMember ==
    ASSUME NEW S \in SUBSET Slots, S # {}
    PROVE  First(S) \in S /\ \A j \in S : First(S) <= j
<1>1. S \in SUBSET Nat
  BY MaxClientsAssumption DEF Slots
<1>2. \E x \in S : \A y \in S : x <= y
  BY <1>1, LeastElement
<1>3. QED BY <1>2 DEF First

LEMMA NoSlotIsNoSlot == NoSlot \notin Slots
BY MaxClientsAssumption DEF Slots, NoSlot

(* qesp_ff_slot returns the node's own slot, or a free one, or -1.         *)
LEMMA SlotForType ==
    ASSUME NEW t, NEW n
    PROVE  /\ SlotFor(t, n) \in Slots \cup {NoSlot}
           /\ SlotFor(t, n) # NoSlot =>
                \/ SlotFor(t, n) \in SlotsOf(t, n)
                \/ SlotFor(t, n) \in Slots \ Used(t) /\ SlotsOf(t, n) = {}
<1>1. SlotsOf(t, n) \in SUBSET Slots /\ Slots \ Used(t) \in SUBSET Slots
  BY DEF SlotsOf, Used
<1>2. CASE SlotsOf(t, n) # {}
  <2>1. SlotFor(t, n) = First(SlotsOf(t, n))
    BY <1>2 DEF SlotFor, Peer
  <2>2. QED BY <2>1, <1>1, <1>2, FirstIsMember
<1>3. CASE SlotsOf(t, n) = {}
  <2>1. SlotFor(t, n) = First(Slots \ Used(t))
    BY <1>3 DEF SlotFor
  <2>2. CASE Slots \ Used(t) = {}
    BY <2>1, <2>2 DEF First
  <2>3. CASE Slots \ Used(t) # {}
    <3>1. First(Slots \ Used(t)) \in Slots \ Used(t)
      BY <1>1, <2>3, FirstIsMember
    <3>2. QED BY <2>1, <3>1, <1>3
  <2>4. QED BY <2>2, <2>3
<1>4. QED BY <1>2, <1>3

LEMMA ZeroClientType == ZeroClient \in Client
BY DEF ZeroClient, Client, TbModes, Heuristics, NoNode, NoRing

LEMMA EmptyTableType == EmptyTable \in Tables /\ Used(EmptyTable) = {}
<1>1. EmptyTable \in Tables
  BY ZeroClientType DEF EmptyTable, Tables
<1>2. Used(EmptyTable) = {}
  BY DEF EmptyTable, Used, ZeroClient
<1>3. QED BY <1>1, <1>2

(* INIT's writes to the slot it took. *)
LEMMA AllocateType ==
    ASSUME NEW t \in Tables, NEW n \in NodeIds, NEW i \in Slots,
           NEW m \in TbModes, NEW b \in NodeIds \cup {NoNode}
    PROVE  [Allocate(t, n, i) EXCEPT ![i].tb_mode = m, ![i].tb_node = b,
                                     ![i].heur = "UNDEFINED"] \in Tables
<1>1. [ZeroClient EXCEPT !.used = TRUE, !.node_id = n] \in Client
  BY ZeroClientType DEF Client
<1>2. Allocate(t, n, i) \in Tables
  BY <1>1 DEF Allocate, Tables
<1> DEFINE t0 == Allocate(t, n, i)
           t1 == [t0 EXCEPT ![i].tb_mode = m]
           t2 == [t1 EXCEPT ![i].tb_node = b]
<1>3. t0 \in Tables
  BY <1>2
<1> HIDE DEF t0
<1>4. t1 \in Tables
  BY <1>3 DEF Tables, Client
<1> HIDE DEF t1
<1>5. t2 \in Tables
  BY <1>4 DEF Tables, Client
<1> HIDE DEF t2
<1>6. [t2 EXCEPT ![i].heur = "UNDEFINED"] \in Tables
  <2>1. "UNDEFINED" \in Heuristics
    BY DEF Heuristics
  <2>2. QED BY <1>5, <2>1 DEF Tables, Client
<1>7. QED BY <1>6, Zenon DEF t0, t1, t2

LEMMA RemoveType ==
    ASSUME NEW t \in Tables, NEW i \in Slots
    PROVE  Remove(t, i) \in Tables /\ Used(Remove(t, i)) = Used(t) \ {i}
BY DEF Remove, Tables, Client, Used

(* qesp_ff_decide chooses a set of nodes some connected client reported.   *)
LEMMA DecideType ==
    ASSUME NEW t \in Tables, NEW q
    PROVE  Decide(t, q) \in SUBSET NodeIds
<1>1. \A i \in Used(t) : t[i].memb \in SUBSET NodeIds
  BY DEF Used, Tables, Client
<1>2. QED BY <1>1 DEF Decide

(* qesp_lms_decide returns and saves legal results. *)
LEMMA LmsTypes ==
    ASSUME NEW t, NEW i \in Slots, NEW last \in [Slots -> LmsResults]
    PROVE  /\ LmsVote(t, i, last) \in {"WAIT", "ACK", "NACK"}
           /\ LmsSaved(t, i, last) \in LmsResults
<1>1. LmsVote(t, i, last) \in {"WAIT", "ACK", "NACK"}
  BY DEF LmsVote, TieBreakVote, Vote
<1>2. QED BY <1>1 DEF LmsSaved, LmsResults

-----------------------------------------------------------------------------
(* The pass of qesp_ff_select *)

(* What the pass makes of its best so far x at slot k - 1. *)
ScanStep(t, q, k, x) == IF k - 1 \in Used(t) /\ Better(t, q, k - 1, x) THEN k - 1 ELSE x

IsScan(t, q, f, n) ==
    /\ f \in [0 .. n -> Slots \cup {NoSlot}]
    /\ f[0] = NoSlot
    /\ \A k \in 1 .. n : f[k] = ScanStep(t, q, k, f[k - 1])

LEMMA ScanExists ==
    ASSUME NEW t, NEW q
    PROVE  \A n \in Nat : \E f : IsScan(t, q, f, n)
<1> DEFINE S == {n \in Nat : \E f : IsScan(t, q, f, n)}
<1>1. 0 \in S
  <2>1. IsScan(t, q, [k \in 0 .. 0 |-> NoSlot], 0)
    BY DEF IsScan
  <2>2. QED BY <2>1
<1>2. ASSUME NEW n \in Nat, n \in S PROVE n + 1 \in S
  <2>1. PICK f : IsScan(t, q, f, n)
    BY <1>2
  <2> DEFINE v == ScanStep(t, q, n + 1, f[n])
             g == [k \in 0 .. n + 1 |-> IF k = n + 1 THEN v ELSE f[k]]
  <2>2. f \in [0 .. n -> Slots \cup {NoSlot}] /\ f[0] = NoSlot
    BY <2>1 DEF IsScan
  <2>3. v \in Slots \cup {NoSlot}
    <3>1. f[n] \in Slots \cup {NoSlot}
      BY <2>2
    <3>2. n \in Used(t) => n \in Slots
      BY DEF Used
    <3>3. n + 1 - 1 = n
      OBVIOUS
    <3>4. QED BY <3>1, <3>2, <3>3 DEF ScanStep
  <2> HIDE DEF v
  <2>4. g \in [0 .. n + 1 -> Slots \cup {NoSlot}] /\ g[0] = NoSlot
    BY <2>2, <2>3
  <2>5. ASSUME NEW k \in 1 .. n + 1 PROVE g[k] = ScanStep(t, q, k, g[k - 1])
    <3>1. CASE k = n + 1
      <4>1. g[k] = v /\ g[k - 1] = f[n] /\ k = n + 1
        BY <3>1
      <4>2. QED BY <4>1 DEF v
    <3>2. CASE k # n + 1
      <4>1. k \in 1 .. n /\ g[k] = f[k] /\ g[k - 1] = f[k - 1]
        BY <3>2
      <4>2. QED BY <2>1, <4>1 DEF IsScan
    <3>3. QED BY <3>1, <3>2
  <2>6. IsScan(t, q, g, n + 1)
    BY <2>4, <2>5 DEF IsScan
  <2>7. QED BY <2>6
<1>3. Nat \subseteq S
  <2> HIDE DEF S
  <2>1. QED BY <1>1, <1>2, Induction
<1>4. QED BY <1>3


(* The pass of qesp_ff_select is the one IsScan describes. *)
LEMMA ScanFacts ==
    ASSUME NEW t, NEW q
    PROVE  IsScan(t, q, Scan(t, q), MaxClients)
<1>1. PICK f : IsScan(t, q, f, MaxClients)
  BY ScanExists, MaxClientsAssumption
<1> DEFINE Body(b) == [k \in 0 .. MaxClients |-> IF k = 0 THEN NoSlot
                         ELSE ScanStep(t, q, k, b[k - 1])]
           s == Scan(t, q)
<1>2. f = Body(f)
  <2>1. f \in [0 .. MaxClients -> Slots \cup {NoSlot}]
    BY <1>1 DEF IsScan
  <2>2. ASSUME NEW k \in 0 .. MaxClients PROVE f[k] = Body(f)[k]
    <3>1. k = 0 \/ k \in 1 .. MaxClients
      BY MaxClientsAssumption
    <3>2. QED BY <1>1, <3>1, Zenon DEF IsScan
  <2> HIDE DEF Body
  <2>3. Body(f) = [k \in 0 .. MaxClients |-> Body(f)[k]]
    BY DEF Body
  <2>4. QED BY <2>1, <2>2, <2>3
<1>3. s = CHOOSE b : b = Body(b)
  BY Zenon DEF Scan, ScanStep
<1>4. s = Body(s)
  <2> HIDE DEF Body, s
  <2>1. QED BY <1>2, <1>3
<1> HIDE DEF s
<1>5. /\ s = [k \in 0 .. MaxClients |-> s[k]]
      /\ s[0] = NoSlot
      /\ \A k \in 1 .. MaxClients : s[k] = ScanStep(t, q, k, s[k - 1])
  BY <1>4, MaxClientsAssumption
<1>step. ASSUME NEW k \in 1 .. MaxClients
         PROVE  s[k] = ScanStep(t, q, k, s[k - 1])
  BY <1>5, Zenon
<1> DEFINE S == {k \in Nat : k <= MaxClients => s[k] = f[k]}
<1>6. 0 \in S
  BY <1>1, <1>5 DEF IsScan
<1>7. ASSUME NEW k \in Nat, k \in S PROVE k + 1 \in S
  <2> SUFFICES ASSUME k + 1 <= MaxClients PROVE s[k + 1] = f[k + 1]
    OBVIOUS
  <2>1. s[k] = f[k] /\ k + 1 \in 1 .. MaxClients /\ k + 1 - 1 = k
    BY <1>7, MaxClientsAssumption
  <2>2. f[k + 1] = ScanStep(t, q, k + 1, f[k])
    BY <1>1, <2>1 DEF IsScan
  <2>3. s[k + 1] = ScanStep(t, q, k + 1, s[k])
    <3>1. s[k + 1] = ScanStep(t, q, k + 1, s[k + 1 - 1])
      BY <1>step, <2>1
    <3>2. QED BY <2>1, <3>1
  <2>4. QED BY <2>1, <2>2, <2>3
<1>8. Nat \subseteq S
  <2> HIDE DEF S
  <2>1. QED BY <1>6, <1>7, Induction
<1>9. \A k \in 0 .. MaxClients : s[k] = f[k]
  BY <1>8, MaxClientsAssumption
<1>10. s = f
  <2>1. f = [k \in 0 .. MaxClients |-> f[k]]
    BY <1>1 DEF IsScan
  <2>2. QED BY <1>5, <1>9, <2>1
<1>11. QED BY <1>1, <1>10 DEF s

(* An assertion about the best so far that holds after k0 slots, and that  *)
(* every further used slot keeps, holds to the end of the pass.            *)
LEMMA ScanInduction ==
    ASSUME NEW t, NEW q, NEW P,
           NEW k0 \in 0 .. MaxClients, NEW k1 \in k0 .. MaxClients,
           Scan(t, q)[k0] \in P,
           \A i \in Used(t), b \in P :
              i >= k0 => (IF Better(t, q, i, b) THEN i ELSE b) \in P
    PROVE  Scan(t, q)[k1] \in P
<1> DEFINE s == Scan(t, q)
           S == {k \in Nat : k0 + k <= MaxClients => s[k0 + k] \in P}
<1>1. k0 \in Nat /\ MaxClients \in Nat /\ k1 \in Nat /\ k0 <= k1 /\ k1 <= MaxClients
  BY MaxClientsAssumption
<1>2. 0 \in S
  BY <1>1
<1>3. ASSUME NEW k \in Nat, k \in S PROVE k + 1 \in S
  <2> SUFFICES ASSUME k0 + (k + 1) <= MaxClients PROVE s[k0 + (k + 1)] \in P
    OBVIOUS
  <2> DEFINE i == k0 + k
  <2>1. /\ i \in Nat /\ i >= k0 /\ i + 1 \in 1 .. MaxClients /\ i + 1 - 1 = i
        /\ k0 + (k + 1) = i + 1
    BY <1>1
  <2>2. s[i] \in P
    BY <1>1, <1>3, <2>1
  <2>3. s[i + 1] = ScanStep(t, q, i + 1, s[i])
    BY <2>1, ScanFacts DEF IsScan
  <2>4. s[i + 1] = IF i \in Used(t) /\ Better(t, q, i, s[i]) THEN i ELSE s[i]
    BY <2>1, <2>3 DEF ScanStep
  <2> HIDE DEF i, s
  <2>5. CASE i \in Used(t)
    <3>1. (IF Better(t, q, i, s[i]) THEN i ELSE s[i]) \in P
      BY <2>1, <2>2, <2>5
    <3>2. s[i + 1] \in P
      BY <2>4, <2>5, <3>1, Zenon
    <3>3. QED BY <2>1, <3>2
  <2>6. CASE i \notin Used(t)
    <3>1. s[i + 1] = s[i]
      BY <2>4, <2>6
    <3>2. QED BY <2>1, <2>2, <3>1
  <2>7. QED BY <2>5, <2>6
<1>4. Nat \subseteq S
  <2> HIDE DEF S
  <2>1. QED BY <1>2, <1>3, Induction
<1>5. k1 - k0 \in S /\ k0 + (k1 - k0) = k1
  BY <1>1, <1>4
<1>6. QED BY <1>1, <1>5

(* The counts qesp_ff_better compares are naturals. *)
LEMMA CountTypes ==
    ASSUME NEW t \in Tables, NEW i \in Slots, IsFiniteSet(NodeIds)
    PROVE  /\ Score(t, i) \in Nat
           /\ Cardinality(t[i].memb) \in Nat /\ Cardinality(t[i].cfg) \in Nat
           /\ Cardinality(Active(t, i)) \in Nat
           /\ Active(t, i) # {} => Cardinality(Active(t, i)) > 0
<1>1. t[i].memb \subseteq NodeIds /\ t[i].cfg \subseteq NodeIds
  BY DEF Tables, Client
<1>2. Active(t, i) \subseteq NodeIds
  BY <1>1 DEF Active
<1>3. IsFiniteSet(t[i].memb) /\ IsFiniteSet(t[i].cfg) /\ IsFiniteSet(Active(t, i))
  BY <1>1, <1>2, FS_Subset
<1>4. /\ Cardinality(t[i].memb) \in Nat /\ Cardinality(t[i].cfg) \in Nat
      /\ Cardinality(Active(t, i)) \in Nat
  BY <1>3, FS_CardinalityType
<1>5. Active(t, i) # {} => Cardinality(Active(t, i)) > 0
  <2>1. Active(t, i) # {} => Cardinality(Active(t, i)) # 0
    BY <1>3, FS_EmptySet
  <2>2. QED BY <1>4, <2>1
<1>6. Score(t, i) \in Nat
  <2> DEFINE p == Cardinality(Reporting(t, i, "PASS"))
             f == Cardinality(Reporting(t, i, "FAIL"))
             a == Cardinality(Active(t, i))
  <2>1. \A h : Reporting(t, i, h) \subseteq Active(t, i)
    BY DEF Reporting
  <2>2. p \in Nat /\ f \in Nat
    BY <1>3, <2>1, FS_Subset, FS_CardinalityType
  <2>3. a \in Nat
    BY <1>4
  <2>4. Score(t, i) = (a + ((p - f) % SizeMod)) % SizeMod
    BY DEF Score
  <2> HIDE DEF p, f, a
  <2>5. (p - f) % SizeMod \in Nat
    BY <2>2, SizeModAssumption
  <2>6. a + ((p - f) % SizeMod) \in Int
    BY <2>3, <2>5
  <2> DEFINE e == a + ((p - f) % SizeMod)
  <2> HIDE DEF e
  <2>7. e % SizeMod \in Nat
    BY <2>6, SizeModAssumption DEF e
  <2>8. QED BY <2>4, <2>7 DEF e
<1>7. QED BY <1>4, <1>5, <1>6

(* Slot b's partition is at least as good as slot i's: score, connected    *)
(* members, incumbency (with keep-active on everywhere), tie-breaker.      *)
Held(t, q, i) == KapOn(t) /\ Holding(t, q, i)

AtLeast(t, q, b, i) ==
    LET level == /\ Score(t, b) = Score(t, i)
                 /\ Cardinality(Active(t, b)) = Cardinality(Active(t, i))
    IN  \/ Score(t, b) > Score(t, i)
        \/ /\ Score(t, b) = Score(t, i)
           /\ Cardinality(Active(t, b)) > Cardinality(Active(t, i))
        \/ level /\ Held(t, q, b) /\ ~Held(t, q, i)
        \/ /\ level /\ (Held(t, q, b) <=> Held(t, q, i))
           /\ PreferredInMemb(t[i]) => PreferredInMemb(t[b])

LEMMA AtLeastTransitive ==
    ASSUME NEW t \in Tables, NEW q, IsFiniteSet(NodeIds),
           NEW a \in Slots, NEW b \in Slots, NEW c \in Slots,
           AtLeast(t, q, a, b), AtLeast(t, q, b, c)
    PROVE  AtLeast(t, q, a, c)
<1> DEFINE S(x) == Score(t, x)
           A(x) == Cardinality(Active(t, x))
           H(x) == Held(t, q, x)
           F(x) == PreferredInMemb(t[x])
           R(x, y) == \/ S(x) > S(y)
                      \/ S(x) = S(y) /\ A(x) > A(y)
                      \/ S(x) = S(y) /\ A(x) = A(y) /\ H(x) /\ ~H(y)
                      \/ S(x) = S(y) /\ A(x) = A(y) /\ (H(x) <=> H(y)) /\ (F(y) => F(x))
<1>1. /\ S(a) \in Nat /\ S(b) \in Nat /\ S(c) \in Nat
      /\ A(a) \in Nat /\ A(b) \in Nat /\ A(c) \in Nat
  BY CountTypes
<1>2. \A x, y : AtLeast(t, q, x, y) <=> R(x, y)
  BY Zenon DEF AtLeast
<1>3. R(a, b) /\ R(b, c)
  <2> HIDE DEF R
  <2>1. QED BY <1>2
<1> HIDE DEF S, A, H, F
<1>4. R(a, c)
  BY <1>1, <1>3
<1> HIDE DEF R
<1>5. QED BY <1>2, <1>4

(* qesp_ff_better on a client whose partition is not exactly half of the   *)
(* configuration: a majority replaces anything, a minority nothing.        *)
LEMMA CompareWhole ==
    ASSUME NEW t \in Tables, NEW q, NEW i \in Slots, NEW b, IsFiniteSet(NodeIds),
           ~Half(t[i])
    PROVE  Better(t, q, i, b) <=> Majority(t[i])
<1> DEFINE s == Cardinality(t[i].memb)
           n == Cardinality(t[i].cfg)
<1>1. s \in Nat /\ n \in Nat
  BY CountTypes
<1>2. 2 * s # n
  BY DEF Half
<1>3. (n % 2 # 0 \/ s # n \div 2) => (Better(t, q, i, b) <=> s > n \div 2)
  BY Zenon DEF Better
<1>4. Majority(t[i]) <=> 2 * s > n
  BY DEF Majority
<1> HIDE DEF s, n
<1>5. (n % 2 # 0 \/ s # n \div 2) /\ (s > n \div 2 <=> 2 * s > n)
  BY <1>1, <1>2
<1>6. QED BY <1>3, <1>4, <1>5

(* ... and on one whose partition is: the winner is at least as good.      *)
LEMMA CompareHalf ==
    ASSUME NEW t \in Tables, NEW q, NEW i \in Slots, NEW b \in Slots,
           IsFiniteSet(NodeIds), Half(t[i])
    PROVE  IF Better(t, q, i, b) THEN AtLeast(t, q, i, b) ELSE AtLeast(t, q, b, i)
<1> DEFINE s == Cardinality(t[i].memb)
           n == Cardinality(t[i].cfg)
           S(x) == Score(t, x)
           A(x) == Cardinality(Active(t, x))
           H(x) == Holding(t, q, x)
           F(x) == PreferredInMemb(t[x])
           K == KapOn(t)
           Btr == Better(t, q, i, b)
<1>1. /\ s \in Nat /\ n \in Nat
      /\ S(i) \in Nat /\ S(b) \in Nat /\ A(i) \in Nat /\ A(b) \in Nat
  BY CountTypes
<1>2. 2 * s = n
  BY DEF Half
<1>3. ~(n % 2 # 0 \/ s # n \div 2)
  <2> HIDE DEF s, n
  <2>1. QED BY <1>1, <1>2
<1>4. b # NoSlot
  BY NoSlotIsNoSlot
<1>5. Btr <=>
        IF S(i) # S(b) THEN S(i) > S(b)
        ELSE IF A(i) # A(b) THEN A(i) > A(b)
        ELSE IF K /\ H(i) # H(b) THEN H(i) ELSE F(i)
  BY <1>3, <1>4, Zenon DEF Better
<1>6. \A x, y : AtLeast(t, q, x, y) <=>
        \/ S(x) > S(y)
        \/ S(x) = S(y) /\ A(x) > A(y)
        \/ S(x) = S(y) /\ A(x) = A(y) /\ (K /\ H(x)) /\ ~(K /\ H(y))
        \/ /\ S(x) = S(y) /\ A(x) = A(y) /\ ((K /\ H(x)) <=> (K /\ H(y)))
           /\ F(y) => F(x)
  BY Zenon DEF AtLeast, Held
<1>7. H(i) \in BOOLEAN /\ H(b) \in BOOLEAN
  BY DEF Holding
<1> HIDE DEF S, A, H, F, K, Btr
<1>8. CASE S(i) # S(b)
  <2>1. S(i) > S(b) \/ S(b) > S(i)
    BY <1>1, <1>8
  <2>2. QED BY <1>1, <1>5, <1>6, <1>8, <2>1 DEF Btr
<1>9. CASE S(i) = S(b) /\ A(i) # A(b)
  BY <1>1, <1>5, <1>6, <1>9 DEF Btr
<1>10. CASE S(i) = S(b) /\ A(i) = A(b)
  <2>1. CASE K /\ H(i) # H(b)
    <3>1. Btr <=> H(i)
      BY <1>5, <1>10, <2>1, Zenon
    <3>2. (H(i) /\ ~H(b)) \/ (~H(i) /\ H(b))
      BY <1>7, <2>1
    <3>3. CASE H(i) /\ ~H(b)
      BY <1>6, <1>10, <2>1, <3>1, <3>3, Zenon DEF Btr
    <3>4. CASE ~H(i) /\ H(b)
      BY <1>6, <1>10, <2>1, <3>1, <3>4, Zenon DEF Btr
    <3>5. QED BY <3>2, <3>3, <3>4
  <2>2. CASE ~(K /\ H(i) # H(b))
    <3>1. Btr <=> F(i)
      BY <1>5, <1>10, <2>2, Zenon
    <3>2. (K /\ H(i)) <=> (K /\ H(b))
      BY <1>7, <2>2
    <3>3. QED BY <1>6, <1>10, <3>1, <3>2, Zenon DEF Btr
  <2>3. QED BY <2>1, <2>2
<1>11. QED BY <1>8, <1>9, <1>10

(* The first half with a connected member is better than nothing.          *)
LEMMA HalfBeatsNothing ==
    ASSUME NEW t \in Tables, NEW q, NEW i \in Slots, IsFiniteSet(NodeIds),
           Half(t[i]), Active(t, i) # {}
    PROVE  Better(t, q, i, NoSlot)
<1> DEFINE s == Cardinality(t[i].memb)
           n == Cardinality(t[i].cfg)
<1>1. /\ s \in Nat /\ n \in Nat /\ Score(t, i) \in Nat
      /\ Cardinality(Active(t, i)) \in Nat /\ Cardinality(Active(t, i)) > 0
  BY CountTypes
<1>2. 2 * s = n
  BY DEF Half
<1>3. ~(n % 2 # 0 \/ s # n \div 2)
  <2> HIDE DEF s, n
  <2>1. QED BY <1>1, <1>2
<1>4. Better(t, q, i, NoSlot) <=>
        IF Score(t, i) # 0 THEN Score(t, i) > 0
        ELSE IF Cardinality(Active(t, i)) # 0 THEN Cardinality(Active(t, i)) > 0
        ELSE PreferredInMemb(t[i])
  BY <1>3, Zenon DEF Better
<1>5. QED BY <1>1, <1>4


(* What qesp_ff_select ends at is a used slot with a majority or a half,   *)
(* if it ends at a slot at all.                                            *)
LEMMA SelectedIsLarge ==
    ASSUME NEW t \in Tables, NEW q, IsFiniteSet(NodeIds)
    PROVE  \/ Select(t, q) = NoSlot
           \/ /\ Select(t, q) \in Used(t)
              /\ Majority(t[Select(t, q)]) \/ Half(t[Select(t, q)])
<1> DEFINE P == {NoSlot} \cup {i \in Used(t) : Majority(t[i]) \/ Half(t[i])}
<1>1. 0 \in 0 .. MaxClients /\ Scan(t, q)[0] \in P
  BY ScanFacts, MaxClientsAssumption DEF IsScan
<1>2. ASSUME NEW i \in Used(t), NEW b \in P
      PROVE  (IF Better(t, q, i, b) THEN i ELSE b) \in P
  <2>1. i \in Slots
    BY DEF Used
  <2>2. CASE Better(t, q, i, b)
    <3>1. Majority(t[i]) \/ Half(t[i])
      BY <2>1, <2>2, CompareWhole
    <3>2. QED BY <2>2, <3>1
  <2>3. CASE ~Better(t, q, i, b)
    BY <2>3
  <2>4. QED BY <2>2, <2>3
<1>3. Select(t, q) \in P
  <2> HIDE DEF P
  <2>1. MaxClients \in 0 .. MaxClients
    BY MaxClientsAssumption
  <2>2. QED BY <1>1, <1>2, <2>1, ScanInduction DEF Select
<1>4. QED BY <1>3

(* ... and one that has reported a membership: an empty one is half of an  *)
(* empty configuration, which beats nothing and nobody.                    *)
LEMMA SelectedHasReported ==
    ASSUME NEW t \in Tables, NEW q, IsFiniteSet(NodeIds), InOwnPartition(t),
           Select(t, q) \in Used(t)
    PROVE  t[Select(t, q)].memb # {}
<1> DEFINE P == {NoSlot} \cup {i \in Used(t) : t[i].memb # {}}
<1>1. 0 \in 0 .. MaxClients /\ Scan(t, q)[0] \in P
  BY ScanFacts, MaxClientsAssumption DEF IsScan
<1>2. ASSUME NEW i \in Used(t), NEW b \in P, Better(t, q, i, b)
      PROVE  t[i].memb # {}
  <2> SUFFICES ASSUME t[i].memb = {} PROVE FALSE
    OBVIOUS
  <2>1. i \in Slots
    BY DEF Used
  <2>2. Cardinality(t[i].memb) = 0 /\ Cardinality(t[i].cfg) \in Nat
    BY <2>1, CountTypes, FS_EmptySet
  <2>3. Half(t[i]) /\ Cardinality(t[i].cfg) = 0
    <3>1. ~Majority(t[i])
      BY <2>2 DEF Majority
    <3>2. Half(t[i])
      BY <1>2, <2>1, <3>1, CompareWhole
    <3>3. QED BY <2>2, <3>2 DEF Half
  <2>4. t[i].cfg = {}
    <3>1. t[i].cfg \subseteq NodeIds
      BY <2>1 DEF Tables, Client
    <3>2. QED BY <2>3, <3>1, FS_Subset, FS_EmptySet
  <2>5. Active(t, i) = {} /\ Cardinality(Active(t, i)) = 0
    BY FS_EmptySet DEF Active
  <2>6. Score(t, i) = 0
    <3>1. Reporting(t, i, "PASS") = {} /\ Reporting(t, i, "FAIL") = {}
      BY <2>5 DEF Reporting
    <3>2. Score(t, i) = (0 + ((0 - 0) % SizeMod)) % SizeMod
      BY <2>5, <3>1, FS_EmptySet DEF Score
    <3>3. QED BY <3>2, SizeModAssumption
  <2>7. ~PreferredInMemb(t[i])
    BY <2>4 DEF PreferredInMemb
  <2>8. ~(Cardinality(t[i].cfg) % 2 # 0
            \/ Cardinality(t[i].memb) # Cardinality(t[i].cfg) \div 2)
    BY <2>2, <2>3
  <2>9. CASE b = NoSlot
    BY <1>2, <2>5, <2>6, <2>7, <2>8, <2>9, Zenon DEF Better
  <2>10. CASE b # NoSlot
    <3>1. b \in Used(t) /\ b \in Slots /\ t[b].memb # {}
      BY <2>10 DEF Used
    <3>2. b \in SlotsOf(t, t[b].node_id) /\ t[b].node_id \in t[b].memb
      BY <3>1 DEF SlotsOf, InOwnPartition
    <3>3. Active(t, b) # {}
      BY <3>2 DEF Active
    <3>4. /\ Score(t, b) \in Nat /\ Cardinality(Active(t, b)) \in Nat
          /\ Cardinality(Active(t, b)) > 0
      BY <3>1, <3>3, CountTypes
    <3>5. /\ 0 # Score(t, b) => ~(0 > Score(t, b))
          /\ 0 # Cardinality(Active(t, b)) /\ ~(0 > Cardinality(Active(t, b)))
      BY <3>4
    <3>6. QED BY <1>2, <2>5, <2>6, <2>8, <2>10, <3>5, Zenon DEF Better
  <2>11. QED BY <2>9, <2>10
<1>3. ASSUME NEW i \in Used(t), NEW b \in P
      PROVE  (IF Better(t, q, i, b) THEN i ELSE b) \in P
  BY <1>2
<1>4. Select(t, q) \in P
  <2> HIDE DEF P
  <2>1. MaxClients \in 0 .. MaxClients
    BY MaxClientsAssumption
  <2>2. QED BY <1>1, <1>3, <2>1, ScanInduction DEF Select
<1>5. Select(t, q) # NoSlot
  BY NoSlotIsNoSlot DEF Used
<1>6. QED BY <1>4, <1>5

(* The pass takes a majority wherever it finds one, and never goes back:   *)
(* no slot behind the one it ends at reports a majority.                   *)
LEMMA NoLaterMajority ==
    ASSUME NEW t \in Tables, NEW q, IsFiniteSet(NodeIds),
           NEW m \in Used(t), Majority(t[m])
    PROVE  Select(t, q) \in Used(t) /\ Select(t, q) >= m
<1> DEFINE P == {b \in Used(t) : b >= m}
           s == Scan(t, q)
<1>1. /\ m \in Nat /\ m \in Slots /\ m + 1 \in 0 .. MaxClients
      /\ m + 1 \in 1 .. MaxClients /\ m + 1 - 1 = m
      /\ MaxClients \in m + 1 .. MaxClients
  BY MaxClientsAssumption DEF Used, Slots
<1>2. s[m + 1] \in P
  <2>1. s[m + 1] = ScanStep(t, q, m + 1, s[m + 1 - 1])
    BY <1>1, ScanFacts DEF IsScan
  <2>2. ~Half(t[m])
    BY <1>1, CountTypes DEF Half, Majority
  <2>3. Better(t, q, m, s[m])
    BY <1>1, <2>2, CompareWhole
  <2>4. s[m + 1] = m
    BY <1>1, <2>1, <2>3 DEF ScanStep
  <2>5. QED BY <1>1, <2>4
<1>3. ASSUME NEW j \in Used(t), NEW b \in P, j >= m + 1
      PROVE  (IF Better(t, q, j, b) THEN j ELSE b) \in P
  <2>1. j \in Nat /\ j >= m
    BY <1>1, <1>3, MaxClientsAssumption DEF Used, Slots
  <2>2. QED BY <2>1
<1>4. Select(t, q) \in P
  <2> HIDE DEF P
  <2>1. QED BY <1>1, <1>2, <1>3, ScanInduction DEF Select
<1>5. QED BY <1>4

(* The selected slot is at least as good as every majority and every half  *)
(* with a connected member that no majority follows: the pass loses no     *)
(* candidate, and its comparisons, up to the tie-breaker, are transitive.  *)
LEMMA SelectedIsBest ==
    ASSUME NEW t \in Tables, NEW q, IsFiniteSet(NodeIds), NEW i \in Used(t),
           Majority(t[i]) \/ (Half(t[i]) /\ Active(t, i) # {}),
           \A j \in Used(t) : j > i => ~Majority(t[j])
    PROVE  Select(t, q) \in Used(t) /\ AtLeast(t, q, Select(t, q), i)
<1> DEFINE P0 == {NoSlot} \cup Used(t)
           P == {b \in Used(t) : AtLeast(t, q, b, i)}
           s == Scan(t, q)
<1>1. /\ i \in Nat /\ i \in 0 .. MaxClients /\ i + 1 \in 0 .. MaxClients
      /\ i + 1 \in 1 .. MaxClients /\ i + 1 - 1 = i
  BY MaxClientsAssumption DEF Used, Slots
<1>2. Used(t) \subseteq Slots
  BY DEF Used
<1>3. s[i] \in P0
  <2>1. s[0] \in P0
    BY ScanFacts DEF IsScan
  <2>2. ASSUME NEW j \in Used(t), NEW b \in P0
        PROVE  (IF Better(t, q, j, b) THEN j ELSE b) \in P0
    OBVIOUS
  <2> HIDE DEF P0
  <2>3. 0 \in 0 .. MaxClients
    BY MaxClientsAssumption
  <2>4. QED BY <1>1, <2>1, <2>2, <2>3, ScanInduction
<1>4. s[i + 1] = IF Better(t, q, i, s[i]) THEN i ELSE s[i]
  <2>1. s[i + 1] = ScanStep(t, q, i + 1, s[i + 1 - 1])
    BY <1>1, ScanFacts DEF IsScan
  <2>2. QED BY <1>1, <2>1 DEF ScanStep
<1> HIDE DEF s
<1>5. AtLeast(t, q, i, i)
  BY DEF AtLeast
<1>6. s[i + 1] \in P
  <2>1. CASE Better(t, q, i, s[i])
    BY <1>4, <1>5, <2>1
  <2>2. CASE ~Better(t, q, i, s[i])
    <3>1. Half(t[i]) /\ Active(t, i) # {}
      <4>1. Majority(t[i]) => ~Half(t[i])
        BY <1>2, CountTypes DEF Half, Majority
      <4>2. QED BY <1>2, <2>2, <4>1, CompareWhole
    <3>2. s[i] # NoSlot
      BY <1>2, <2>2, <3>1, HalfBeatsNothing
    <3>3. s[i] \in Used(t) /\ s[i] \in Slots /\ i \in Slots
      BY <1>2, <1>3, <3>2
    <3>4. AtLeast(t, q, s[i], i)
      BY <2>2, <3>1, <3>3, CompareHalf
    <3>5. QED BY <1>4, <2>2, <3>3, <3>4
  <2>3. QED BY <2>1, <2>2
<1>7. ASSUME NEW j \in Used(t), NEW b \in P, j >= i + 1
      PROVE  (IF Better(t, q, j, b) THEN j ELSE b) \in P
  <2>1. j \in Slots /\ b \in Slots /\ i \in Slots
    BY <1>2
  <2>2. ~Majority(t[j])
    <3>1. j \in Nat /\ j > i
      BY <1>1, <1>7, <2>1, MaxClientsAssumption DEF Slots
    <3>2. QED BY <3>1
  <2>3. CASE Better(t, q, j, b)
    <3>1. Half(t[j])
      BY <2>1, <2>2, <2>3, CompareWhole
    <3>2. AtLeast(t, q, j, b)
      BY <2>1, <2>3, <3>1, CompareHalf
    <3>3. AtLeast(t, q, j, i)
      BY <2>1, <3>2, AtLeastTransitive
    <3>4. QED BY <2>3, <3>3
  <2>4. CASE ~Better(t, q, j, b)
    BY <2>4
  <2>5. QED BY <2>3, <2>4
<1>8. Select(t, q) \in P
  <2> HIDE DEF P
  <2>1. MaxClients \in i + 1 .. MaxClients
    BY <1>1, MaxClientsAssumption
  <2>2. QED BY <1>1, <1>6, <1>7, <2>1, ScanInduction DEF s, Select
<1>9. QED BY <1>8

(* Two earlier choices that no comparison tells apart select the same.     *)
LEMMA SameComparisons ==
    ASSUME NEW t, NEW q, NEW r,
           \A i \in Used(t), b \in Slots \cup {NoSlot} :
              Better(t, q, i, b) <=> Better(t, r, i, b)
    PROVE  Select(t, q) = Select(t, r)
<1> DEFINE s == Scan(t, q)
           u == Scan(t, r)
           S == {k \in Nat : k <= MaxClients => s[k] = u[k]}
<1>1. IsScan(t, q, s, MaxClients) /\ IsScan(t, r, u, MaxClients)
  BY ScanFacts
<1> HIDE DEF s, u
<1>2. 0 \in S
  BY <1>1 DEF IsScan
<1>3. ASSUME NEW k \in Nat, k \in S PROVE k + 1 \in S
  <2> SUFFICES ASSUME k + 1 <= MaxClients PROVE s[k + 1] = u[k + 1]
    OBVIOUS
  <2>1. /\ s[k] = u[k] /\ k \in 0 .. MaxClients
        /\ k + 1 \in 1 .. MaxClients /\ k + 1 - 1 = k
    BY <1>3, MaxClientsAssumption
  <2>2. s[k + 1] = ScanStep(t, q, k + 1, s[k]) /\ u[k + 1] = ScanStep(t, r, k + 1, u[k])
    BY <1>1, <2>1 DEF IsScan
  <2>3. s[k] \in Slots \cup {NoSlot}
    BY <1>1, <2>1 DEF IsScan
  <2>4. k \in Used(t) => (Better(t, q, k, s[k]) <=> Better(t, r, k, s[k]))
    BY <2>3
  <2> HIDE DEF S
  <2>5. QED BY <2>1, <2>2, <2>4 DEF ScanStep
<1>4. Nat \subseteq S
  <2> HIDE DEF S
  <2>1. QED BY <1>2, <1>3, Induction
<1>5. QED BY <1>4, MaxClientsAssumption DEF Select, s, u

-----------------------------------------------------------------------------
(* What a decision guarantees *)

(* On a stable table two clients of which one counts the other among its   *)
(* members report the same membership and ring.                            *)
LEMMA MembersAgree ==
    ASSUME NEW t \in Tables, SamePartition(t), OneSlotEach(t),
           NEW i \in Used(t), NEW j \in Used(t), t[j].node_id \in t[i].memb
    PROVE  t[j].memb = t[i].memb /\ t[j].ring = t[i].ring /\ t[i].ring # NoRing
<1>1. SlotsOf(t, t[j].node_id) = {j}
  BY DEF SlotsOf, OneSlotEach
<1>2. Peer(t, t[j].node_id) = j
  <2>1. {j} \in SUBSET Slots /\ {j} # {}
    BY DEF Used
  <2>2. First({j}) \in {j}
    BY <2>1, FirstIsMember
  <2>3. QED BY <1>1, <2>2 DEF Peer
<1>3. QED BY <1>1, <1>2 DEF SamePartition

(* On a stable table the clients that qesp_ff_decide gives ACK all report  *)
(* the chosen membership, and all on one ring, provided no node holds two  *)
(* slots (which the server guarantees: theorem OneSlotPerNode).            *)
THEOREM AckedShareOneView ==
    ASSUME NEW t \in Tables, NEW q, Stable(t), OneSlotEach(t),
           NEW i \in Used(t), t[i].node_id \in Decide(t, q)
    PROVE  /\ t[i].memb = Decide(t, q)
           /\ t[i].ring = t[Select(t, q)].ring
           /\ t[i].ring # NoRing
<1> DEFINE best == Select(t, q)
<1>1. best \in Used(t) /\ Decide(t, q) = t[best].memb
  BY DEF Decide
<1> HIDE DEF best
<1>2. t[i].memb = t[best].memb /\ t[i].ring = t[best].ring /\ t[best].ring # NoRing
  BY <1>1, MembersAgree DEF Stable
<1>3. QED BY <1>1, <1>2 DEF best

(* The same as the property the runs check, for tables of any size.        *)
THEOREM AckedAgree ==
    ASSUME table \in Tables, OneSlotEach(table)
    PROVE  AckedShareOnePartition
BY AckedShareOneView DEF AckedShareOnePartition

(* A majority wins: if some client reports more than half of the           *)
(* configuration and no other exactly half, qesp_ff_select ends at a       *)
(* majority, whatever the slots, the scores and the earlier choice.        *)
THEOREM MajorityWins ==
    ASSUME NEW t \in Tables, NEW q, IsFiniteSet(NodeIds),
           NoHalfBesideMajority(t), NEW m \in Used(t), Majority(t[m])
    PROVE  Select(t, q) \in Used(t) /\ Majority(t[Select(t, q)])
<1>1. Select(t, q) \in Used(t)
  BY NoLaterMajority
<1>2. Select(t, q) # NoSlot
  BY <1>1, NoSlotIsNoSlot DEF Used
<1>3. QED BY <1>1, <1>2, SelectedIsLarge DEF NoHalfBesideMajority

(* Views that are blocks of one split of the configuration leave no half   *)
(* beside a majority: there are not that many nodes.                       *)
LEMMA BlocksOfOneSplit ==
    ASSUME NEW t \in Tables, IsFiniteSet(NodeIds), SameConfig(t),
           \A i \in Used(t) : t[i].memb \subseteq t[i].cfg,
           \A i, j \in Used(t) :
              t[i].memb = t[j].memb \/ t[i].memb \cap t[j].memb = {}
    PROVE  NoHalfBesideMajority(t)
<1> SUFFICES ASSUME NEW i \in Used(t), NEW j \in Used(t),
                    Majority(t[i]), Half(t[j])
             PROVE  FALSE
  BY DEF NoHalfBesideMajority
<1> DEFINE V == t[i].memb
           W == t[j].memb
           C == t[i].cfg
<1>1. i \in Slots /\ j \in Slots /\ t[j].cfg = C
  BY DEF Used, SameConfig
<1>2. C \subseteq NodeIds /\ V \subseteq C /\ W \subseteq C
  BY <1>1 DEF Tables, Client
<1>3. V = W \/ V \cap W = {}
  OBVIOUS
<1>4. 2 * Cardinality(V) > Cardinality(C) /\ 2 * Cardinality(W) = Cardinality(C)
  BY <1>1 DEF Majority, Half
<1> HIDE DEF V, W, C
<1>5. IsFiniteSet(C)
  BY <1>2, FS_Subset
<1>6. IsFiniteSet(V) /\ IsFiniteSet(W) /\ IsFiniteSet(V \cup W)
  BY <1>2, <1>5, FS_Subset, FS_Union
<1>7. /\ Cardinality(V) \in Nat /\ Cardinality(W) \in Nat
      /\ Cardinality(C) \in Nat /\ Cardinality(V \cup W) \in Nat
  BY <1>5, <1>6, FS_CardinalityType
<1>8. Cardinality(V \cup W) <= Cardinality(C)
  <2>1. V \cup W \subseteq C
    BY <1>2
  <2>2. QED BY <1>5, <2>1, FS_Subset
<1>9. V # W
  BY <1>4, <1>7
<1>10. V \cap W = {} /\ Cardinality(V \cap W) = 0
  BY <1>3, <1>9, FS_EmptySet
<1>11. Cardinality(V \cup W) = Cardinality(V) + Cardinality(W) - Cardinality(V \cap W)
  BY <1>6, FS_Union
<1>12. QED BY <1>4, <1>7, <1>8, <1>10, <1>11

(* Keep-active: a decision takes the vote from a partition a connected     *)
(* member still reports only for a majority, or because it is less than    *)
(* half, or for one with a higher score, or the same score and more        *)
(* connected members; the tie-breaker never does (qesp_ff_better).         *)
THEOREM TieBreakerKeepsIncumbent ==
    ASSUME NEW t \in Tables, NEW q, IsFiniteSet(NodeIds), Stable(t),
           OneSlotEach(t), KapOn(t), NoHalfBesideMajority(t),
           NEW i \in Used(t), t[i].node_id \in q, t[i].memb = q,
           Decide(t, q) \notin {{}, q}
    PROVE  \E j \in Used(t) :
             /\ t[j].memb = Decide(t, q)
             /\ \/ Majority(t[j])
                \/ 2 * Cardinality(q) < Cardinality(t[j].cfg)
                \/ Score(t, j) > Score(t, i)
                \/ /\ Score(t, j) = Score(t, i)
                   /\ Cardinality(Active(t, j)) > Cardinality(Active(t, i))
<1> DEFINE b == Select(t, q)
<1>1. b \in Used(t) /\ Decide(t, q) = t[b].memb
  BY DEF Decide
<1>2. i \in Slots /\ b \in Slots
  BY <1>1 DEF Used
<1>3. Majority(t[b]) \/ Half(t[b])
  BY <1>1, <1>2, SelectedIsLarge, NoSlotIsNoSlot
<1> HIDE DEF b
<1>4. SUFFICES ASSUME ~Majority(t[b]), ~(2 * Cardinality(q) < Cardinality(t[b].cfg))
               PROVE  \/ Score(t, b) > Score(t, i)
                      \/ /\ Score(t, b) = Score(t, i)
                         /\ Cardinality(Active(t, b)) > Cardinality(Active(t, i))
  BY <1>1
<1>5. \A j \in Used(t) : ~Majority(t[j])
  BY <1>1, <1>3, <1>4 DEF NoHalfBesideMajority
<1>6. Half(t[i])
  <2>1. t[i].cfg = t[b].cfg
    BY <1>1 DEF Stable, SameConfig
  <2>2. Cardinality(q) \in Nat /\ Cardinality(t[i].cfg) \in Nat
    BY <1>2, CountTypes
  <2>3. ~(2 * Cardinality(q) > Cardinality(t[i].cfg))
    BY <1>5 DEF Majority
  <2>4. 2 * Cardinality(q) = Cardinality(t[i].cfg)
    BY <1>4, <2>1, <2>2, <2>3
  <2>5. QED BY <2>4 DEF Half
<1>7. Active(t, i) # {}
  <2>1. i \in SlotsOf(t, t[i].node_id)
    BY DEF SlotsOf
  <2>2. QED BY <2>1 DEF Active
<1>8. AtLeast(t, q, b, i)
  BY <1>5, <1>6, <1>7, SelectedIsBest DEF b
<1>9. ~Holding(t, q, b)
  <2>1. SUFFICES ASSUME t[b].node_id \in t[i].memb PROVE FALSE
    BY DEF Holding
  <2>2. t[b].memb = t[i].memb
    BY <1>1, <2>1, MembersAgree DEF Stable
  <2>3. QED BY <1>1, <2>2
<1>10. Holding(t, q, i)
  BY DEF Holding
<1>11. QED BY <1>8, <1>9, <1>10, Zenon DEF AtLeast, Held

(* Deciding again on an unchanged table moves nothing: the keep-active     *)
(* rule, which reads the last choice, settles at once.  For any stable     *)
(* table, also one with a half beside a majority.                          *)
LEMMA DecisionSettles ==
    ASSUME NEW t \in Tables, NEW q, IsFiniteSet(NodeIds), Stable(t),
           OneSlotEach(t), InOwnPartition(t)
    PROVE  Decide(t, Decide(t, q)) = Decide(t, q)
<1> DEFINE r == Decide(t, q)
           b == Select(t, q)
           c == Select(t, r)
<1>1. CASE ~KapOn(t)
  <2>1. ASSUME NEW i \in Used(t), NEW x
        PROVE  Better(t, q, i, x) <=> Better(t, r, i, x)
    BY <1>1, Zenon DEF Better
  <2> HIDE DEF r
  <2>2. Select(t, q) = Select(t, r)
    BY <2>1, SameComparisons
  <2>3. QED BY <2>2 DEF Decide, r
<1>2. ASSUME NEW x, NEW i \in Used(t), i = Select(t, x)
      PROVE  /\ t[i].node_id \in t[i].memb
             /\ Majority(t[i]) \/ (Half(t[i]) /\ Active(t, i) # {})
             /\ \A j \in Used(t) : j > i => ~Majority(t[j])
  <2>1. i \in Slots
    BY DEF Used
  <2>2. Majority(t[i]) \/ Half(t[i])
    BY <1>2, <2>1, SelectedIsLarge, NoSlotIsNoSlot
  <2>3. t[i].node_id \in t[i].memb
    BY <1>2, SelectedHasReported DEF InOwnPartition
  <2>4. i \in SlotsOf(t, t[i].node_id)
    BY DEF SlotsOf
  <2>5. Active(t, i) # {}
    BY <2>3, <2>4 DEF Active
  <2>6. ASSUME NEW j \in Used(t), j > i PROVE ~Majority(t[j])
    <3>1. Majority(t[j]) => i >= j
      BY <1>2, NoLaterMajority
    <3>2. i \in Nat /\ j \in Nat
      BY MaxClientsAssumption DEF Used, Slots
    <3>3. QED BY <2>6, <3>1, <3>2
  <2>7. QED BY <2>2, <2>3, <2>5, <2>6
<1>3. CASE c \notin Used(t)
  <2>1. b \notin Used(t)
    <3>1. SUFFICES ASSUME b \in Used(t) PROVE FALSE
      OBVIOUS
    <3> HIDE DEF r
    <3>2. c \in Used(t)
      <4> HIDE DEF b
      <4>1. QED BY <1>2, <3>1, SelectedIsBest DEF b
    <3>3. QED BY <1>3, <3>2
  <2>2. QED BY <1>3, <2>1 DEF Decide
<1>4. CASE KapOn(t) /\ c \in Used(t)
  <2> HIDE DEF r
  <2>1. b \in Used(t) /\ AtLeast(t, q, b, c)
    <3> HIDE DEF c
    <3>1. QED BY <1>2, <1>4, SelectedIsBest DEF c
  <2>2. AtLeast(t, r, c, b)
    <3> HIDE DEF b
    <3>1. QED BY <1>2, <2>1, SelectedIsBest DEF b
  <2>3. r = t[b].memb /\ Decide(t, r) = t[c].memb
    BY <1>4, <2>1 DEF Decide, r
  <2>4. Holding(t, r, b)
    BY <1>2, <2>1, <2>3 DEF Holding
  <2> HIDE DEF b, c
  <2>5. Holding(t, r, c)
    <3> DEFINE Sb == Score(t, b)
               Sc == Score(t, c)
               Ab == Cardinality(Active(t, b))
               Ac == Cardinality(Active(t, c))
    <3>1. b \in Slots /\ c \in Slots
      BY <1>4, <2>1 DEF Used
    <3>2. Sb \in Nat /\ Sc \in Nat /\ Ab \in Nat /\ Ac \in Nat
      BY <3>1, CountTypes
    <3>3. \/ Sc > Sb
          \/ Sc = Sb /\ Ac > Ab
          \/ Sc = Sb /\ Ac = Ab /\ Holding(t, r, c)
      BY <1>4, <2>2, <2>4, Zenon DEF AtLeast, Held
    <3>4. Sb > Sc \/ (Sb = Sc /\ (Ab > Ac \/ Ab = Ac))
      BY <2>1, Zenon DEF AtLeast
    <3> HIDE DEF Sb, Sc, Ab, Ac
    <3>5. QED BY <3>2, <3>3, <3>4
  <2>6. t[c].node_id \in t[b].memb
    BY <2>3, <2>5 DEF Holding
  <2>7. t[c].memb = t[b].memb
    BY <1>4, <2>1, <2>6, MembersAgree DEF Stable
  <2>8. QED BY <2>3, <2>7 DEF r
<1>5. QED BY <1>1, <1>3, <1>4

(* No flapping, for tables of any size, any heuristics, tie-breakers and   *)
(* keep-active flags, and any earlier choice.                              *)
THEOREM NeverFlaps ==
    ASSUME IsFiniteSet(NodeIds), table \in Tables,
           OneSlotEach(table), InOwnPartition(table)
    PROVE  NoFlapping
BY DecisionSettles DEF NoFlapping

-----------------------------------------------------------------------------
(* The selection and the documented rules *)

(* size_t: a difference that wraps below zero wraps back in the sum.       *)
LEMMA WrapsBack ==
    ASSUME NEW M \in Nat \ {0}, NEW a \in Nat, NEW p \in Nat, NEW f \in Nat,
           f <= a, a + p < M
    PROVE  (a + ((p - f) % M)) % M = a + p - f
<1>1. \A x \in 0 .. M - 1 : x % M = x /\ (x + M) % M = x
  OBVIOUS
<1> DEFINE d == a + p - f
<1>2. d \in 0 .. M - 1 /\ d = a + (p - f) /\ d + M = a + ((p - f) + M)
  OBVIOUS
<1>3. CASE p >= f
  <2>1. p - f \in 0 .. M - 1
    BY <1>3
  <2>2. (p - f) % M = p - f
    BY <1>1, <2>1
  <2>3. QED BY <1>1, <1>2, <2>2
<1>4. CASE p < f
  <2>1. (p - f) + M \in 0 .. M - 1
    BY <1>4
  <2>2. (p - f) % M = (p - f) + M
    BY <2>1
  <2>3. QED BY <1>1, <1>2, <2>2
<1>5. QED BY <1>3, <1>4

(* The nodes stats counts are the connected nodes of the reported view,    *)
(* and the unsigned score is the signed sum.                               *)
LEMMA CountsAreOfTheView ==
    ASSUME NEW t \in Tables, NEW i \in Slots, OneSlotEach(t)
    PROVE  /\ Active(t, i) = Connected(t, t[i].memb)
           /\ \A h : Reporting(t, i, h) = Report(t, t[i].memb, h)
<1>1. Active(t, i) = Connected(t, t[i].memb)
  BY DEF Active, Connected, SlotsOf
<1>2. ASSUME NEW n, NEW j \in Used(t), t[j].node_id = n
      PROVE  Peer(t, n) = j
  <2>1. SlotsOf(t, n) = {j}
    BY <1>2 DEF SlotsOf, OneSlotEach
  <2>2. {j} \in SUBSET Slots /\ {j} # {}
    BY DEF Used
  <2>3. QED BY <2>1, <2>2, FirstIsMember DEF Peer
<1>3. ASSUME NEW h PROVE Reporting(t, i, h) = Report(t, t[i].memb, h)
  <2>1. ASSUME NEW n
        PROVE  (SlotsOf(t, n) # {} /\ t[Peer(t, n)].heur = h)
                 <=> \E j \in Used(t) : t[j].node_id = n /\ t[j].heur = h
    BY <1>2 DEF SlotsOf
  <2>2. Reporting(t, i, h) =
          {n \in t[i].memb : SlotsOf(t, n) # {} /\ t[Peer(t, n)].heur = h}
    BY DEF Reporting, Active
  <2>3. QED BY <2>1, <2>2 DEF Report
<1>4. QED BY <1>1, <1>3

LEMMA ScoreIsPoints ==
    ASSUME NEW t \in Tables, NEW i \in Slots, OneSlotEach(t),
           IsFiniteSet(NodeIds), 2 * Cardinality(NodeIds) < SizeMod
    PROVE  Score(t, i) = Points(t, t[i].memb)
<1> DEFINE A == Connected(t, t[i].memb)
           P == Report(t, t[i].memb, "PASS")
           F == Report(t, t[i].memb, "FAIL")
           a == Cardinality(A)
           p == Cardinality(P)
           f == Cardinality(F)
           N == Cardinality(NodeIds)
<1>1. A \subseteq NodeIds /\ P \subseteq A /\ F \subseteq A
  <2>1. t[i].memb \subseteq NodeIds
    BY DEF Tables, Client
  <2>2. QED BY <2>1 DEF Connected, Report
<1>2. Score(t, i) = (a + ((p - f) % SizeMod)) % SizeMod
  BY CountsAreOfTheView DEF Score
<1>3. Points(t, t[i].memb) = a + p - f
  BY DEF Points
<1> HIDE DEF A, P, F
<1>4. IsFiniteSet(A) /\ IsFiniteSet(P) /\ IsFiniteSet(F)
  BY <1>1, FS_Subset
<1>5. a \in Nat /\ p \in Nat /\ f \in Nat /\ N \in Nat
  BY <1>4, FS_CardinalityType
<1>6. a <= N /\ p <= a /\ f <= a
  BY <1>1, <1>4, FS_Subset
<1> HIDE DEF a, p, f, N
<1>7. a + p < SizeMod /\ SizeMod \in Nat \ {0}
  BY <1>5, <1>6, SizeModAssumption DEF N
<1>8. QED BY <1>2, <1>3, <1>5, <1>6, <1>7, WrapsBack

(* A finite set of numbers has the lowest and the highest that the two     *)
(* tie-breakers look for.                                                  *)
LEMMA ExtremeIsMember ==
    ASSUME NEW S \in SUBSET NodeIds, S # {}, IsFiniteSet(NodeIds), NEW mode
    PROVE  Extreme(S, mode) \in S
<1>1. S \in SUBSET Nat /\ IsFiniteSet(S)
  BY NodeIdsAssumption, FS_Subset
<1>2. \E x \in S : \A y \in S : x <= y
  BY <1>1, LeastElement
<1>3. \E x \in S : \A y \in S : x >= y
  <2> DEFINE Above(x) == {y \in S : y > x}
             C == {Cardinality(Above(x)) : x \in S}
  <2>1. \A x : IsFiniteSet(Above(x)) /\ Cardinality(Above(x)) \in Nat
    <3>1. \A x : Above(x) \in SUBSET S
      OBVIOUS
    <3> HIDE DEF Above
    <3>2. QED BY <1>1, <3>1, FS_Subset, FS_CardinalityType
  <2>2. PICK c \in C : \A d \in C : c <= d
    <3>1. C \in SUBSET Nat /\ C # {}
      BY <2>1
    <3> HIDE DEF C
    <3>2. QED BY <3>1, LeastElement
  <2>3. PICK x \in S : c = Cardinality(Above(x))
    OBVIOUS
  <2>4. ASSUME NEW y \in S, y > x PROVE FALSE
    <3>1. Above(y) \subseteq Above(x)
      <4>1. \A z \in S : z > y => z > x
        BY <1>1, <2>4
      <4>2. QED BY <4>1
    <3>2. y \in Above(x) /\ y \notin Above(y)
      BY <1>1, <2>4
    <3>3. Cardinality(Above(x)) <= Cardinality(Above(y))
      BY <2>2, <2>3
    <3> HIDE DEF Above
    <3>4. /\ Cardinality(Above(y)) <= Cardinality(Above(x))
          /\ Cardinality(Above(x)) = Cardinality(Above(y)) => Above(x) = Above(y)
      BY <2>1, <3>1, FS_Subset
    <3>5. Above(x) = Above(y)
      BY <2>1, <3>3, <3>4
    <3>6. QED BY <3>2, <3>5
  <2>5. QED BY <1>1, <2>4
<1>4. CASE mode = "LOWEST"
  BY <1>2, <1>4 DEF Extreme
<1>5. CASE mode # "LOWEST"
  BY <1>3, <1>5 DEF Extreme
<1>6. QED BY <1>4, <1>5

(* On a stable table every client of a view prefers it or none does, and   *)
(* some client of an incumbent view holds the vote.                        *)
LEMMA PreferredOfView ==
    ASSUME NEW t \in Tables, Stable(t), OneSlotEach(t), OneCluster(t),
           NEW i \in Used(t), t[i].node_id \in t[i].memb
    PROVE  Preferred(t, t[i].memb) <=> PreferredInMemb(t[i])
<1>1. ASSUME NEW j \in Used(t), t[j].node_id \in t[i].memb
      PROVE  PreferredInMemb(t[j]) <=> PreferredInMemb(t[i])
  <2>1. t[j].memb = t[i].memb
    BY <1>1, MembersAgree DEF Stable
  <2>2. /\ t[j].cfg = t[i].cfg
        /\ t[j].tb_mode = t[i].tb_mode /\ t[j].tb_node = t[i].tb_node
    BY DEF Stable, SameConfig, OneCluster
  <2>3. QED BY <2>1, <2>2, Zenon DEF PreferredInMemb
<1>2. QED BY <1>1, Zenon DEF Preferred

LEMMA IncumbentOfView ==
    ASSUME NEW t \in Tables, NEW q, Stable(t), OneSlotEach(t), NEW j \in Used(t)
    PROVE  \E i \in Used(t) : /\ t[i].memb = t[j].memb
                              /\ Held(t, q, i) \/ ~Incumbent(t, q, t[j].memb)
<1>1. CASE ~Incumbent(t, q, t[j].memb)
  BY <1>1
<1>2. CASE Incumbent(t, q, t[j].memb)
  <2>1. KapOn(t) /\ Connected(t, t[j].memb) \cap q # {}
    BY <1>2 DEF Incumbent
  <2>2. PICK i \in Used(t) : t[i].node_id \in t[j].memb /\ t[i].node_id \in q
    BY <2>1 DEF Connected
  <2>3. t[i].memb = t[j].memb
    BY <2>2, MembersAgree DEF Stable
  <2>4. QED BY <2>1, <2>2, <2>3 DEF Held, Holding
<1>3. QED BY <1>1, <1>2

(* The preferred node is in one of two different halves.                   *)
LEMMA OneHalfPreferred ==
    ASSUME NEW t \in Tables, IsFiniteSet(NodeIds), SameConfig(t), OneCluster(t),
           NEW i \in Used(t), NEW j \in Used(t), Half(t[i]), Half(t[j]),
           t[i].memb # {}, t[i].memb \cap t[j].memb = {}
    PROVE  PreferredInMemb(t[i]) <=> ~PreferredInMemb(t[j])
<1> DEFINE V == t[i].memb
           W == t[j].memb
           C == t[i].cfg
           mode == t[i].tb_mode
           pref == IF mode = "NODE_ID" THEN t[i].tb_node ELSE Extreme(C, mode)
<1>1. i \in Slots /\ j \in Slots
  BY DEF Used
<1>2. t[j].cfg = C /\ t[j].tb_mode = mode /\ t[j].tb_node = t[i].tb_node
  BY DEF SameConfig, OneCluster
<1>3. C \in SUBSET NodeIds /\ V \subseteq C /\ W \subseteq C /\ C # {}
  BY <1>1, <1>2 DEF OneCluster, Tables, Client
<1>4. 2 * Cardinality(V) = Cardinality(C) /\ 2 * Cardinality(W) = Cardinality(C)
  BY <1>2 DEF Half
<1>5. V \cap W = {}
  OBVIOUS
<1>6. pref \in C
  <2>1. mode = "NODE_ID" => t[i].tb_node \in C
    BY <1>3 DEF OneCluster
  <2>2. Extreme(C, mode) \in C
    BY <1>3, ExtremeIsMember
  <2>3. QED BY <2>1, <2>2
<1>7. /\ PreferredInMemb(t[i]) <=> pref \in V
      /\ PreferredInMemb(t[j]) <=> pref \in W
  BY <1>2, <1>3, Zenon DEF PreferredInMemb
<1> HIDE DEF V, W, C, pref
<1>8. V \cup W = C
  <2>1. IsFiniteSet(C)
    BY <1>3, FS_Subset
  <2>2. IsFiniteSet(V) /\ IsFiniteSet(W)
    BY <1>3, <2>1, FS_Subset
  <2>3. Cardinality(V) \in Nat /\ Cardinality(W) \in Nat /\ Cardinality(C) \in Nat
    BY <2>1, <2>2, FS_CardinalityType
  <2>4. Cardinality(V \cup W) = Cardinality(V) + Cardinality(W) - 0
    BY <1>5, <2>2, FS_Union, FS_EmptySet
  <2>5. Cardinality(C) = Cardinality(V \cup W)
    BY <1>4, <2>3, <2>4
  <2>6. V \cup W \in SUBSET C
    BY <1>3
  <2>7. QED BY <2>1, <2>5, <2>6, FS_Subset
<1>9. QED BY <1>5, <1>6, <1>7, <1>8

(* The half the pass ends at outranks every other one.                     *)
LEMMA SelectedOutranks ==
    ASSUME NEW t \in Tables, NEW q, IsFiniteSet(NodeIds),
           2 * Cardinality(NodeIds) < SizeMod, Stable(t), OneSplit(t),
           OneSlotEach(t), InOwnPartition(t), OneCluster(t),
           \A i \in Used(t) : ~Majority(t[i]),
           NEW b \in Used(t), b = Select(t, q),
           NEW j \in Used(t), Half(t[j]), t[j].memb # t[b].memb
    PROVE  Outranks(t, q, t[b].memb, t[j].memb)
<1> DEFINE V == t[b].memb
           W == t[j].memb
<1>1. PICK i \in Used(t) : t[i].memb = W /\ (Held(t, q, i) \/ ~Incumbent(t, q, W))
  BY IncumbentOfView
<1>2. b \in Slots /\ i \in Slots /\ t[i].cfg = t[b].cfg /\ t[i].cfg = t[j].cfg
  BY DEF Used, Stable, SameConfig
<1>3. Half(t[b]) /\ V # {}
  BY <1>2, SelectedIsLarge, SelectedHasReported, NoSlotIsNoSlot
<1>4. Half(t[i])
  BY <1>1, <1>2 DEF Half
<1>5. W # {}
  <2>1. SUFFICES ASSUME W = {} PROVE FALSE
    OBVIOUS
  <2>2. Cardinality(W) = 0
    BY <2>1, FS_EmptySet
  <2>3. Cardinality(t[b].cfg) = 0 /\ Cardinality(V) \in Nat
    BY <1>2, <2>2, CountTypes DEF Half
  <2>4. Cardinality(V) = 0
    BY <1>3, <2>3 DEF Half
  <2>5. V \subseteq NodeIds
    BY <1>2 DEF Tables, Client
  <2>6. QED BY <1>3, <2>4, <2>5, FS_Subset, FS_EmptySet
<1>6. t[i].node_id \in t[i].memb /\ t[b].node_id \in V
  BY <1>1, <1>3, <1>5 DEF InOwnPartition
<1>7. Active(t, i) # {}
  <2>1. i \in SlotsOf(t, t[i].node_id)
    BY DEF SlotsOf
  <2>2. QED BY <1>6, <2>1 DEF Active
<1>8. AtLeast(t, q, b, i)
  BY <1>4, <1>7, SelectedIsBest
<1>9. PreferredInMemb(t[b]) <=> ~PreferredInMemb(t[i])
  <2>1. V \cap t[i].memb = {}
    <3>1. V \in ViewsOf(t) /\ t[i].memb \in ViewsOf(t) /\ t[i].memb # V
      BY <1>1 DEF ViewsOf
    <3>2. QED BY <3>1 DEF OneSplit
  <2>2. QED BY <1>3, <1>4, <2>1, OneHalfPreferred DEF Stable
<1>10. /\ Preferred(t, V) <=> PreferredInMemb(t[b])
       /\ Preferred(t, W) <=> PreferredInMemb(t[i])
  BY <1>1, <1>6, PreferredOfView
<1>11. /\ Held(t, q, b) => Incumbent(t, q, V)
       /\ Held(t, q, i) => Incumbent(t, q, W)
  BY <1>1, <1>6 DEF Held, Holding, Incumbent, Connected
<1>12. /\ Points(t, V) = Score(t, b) /\ Points(t, W) = Score(t, i)
       /\ Connected(t, V) = Active(t, b) /\ Connected(t, W) = Active(t, i)
  BY <1>1, <1>2, ScoreIsPoints, CountsAreOfTheView
<1> DEFINE S(x) == Score(t, x)
           A(x) == Cardinality(Active(t, x))
           IV == Incumbent(t, q, V)
           IW == Incumbent(t, q, W)
           FV == Preferred(t, V)
           FW == Preferred(t, W)
<1>13. Outranks(t, q, V, W) <=>
         \/ S(b) > S(i)
         \/ S(b) = S(i) /\ A(b) > A(i)
         \/ S(b) = S(i) /\ A(b) = A(i) /\ IV /\ ~IW
         \/ S(b) = S(i) /\ A(b) = A(i) /\ (IV <=> IW) /\ FV /\ ~FW
  BY <1>12, Zenon DEF Outranks
<1>14. \/ S(b) > S(i)
       \/ S(b) = S(i) /\ A(b) > A(i)
       \/ S(b) = S(i) /\ A(b) = A(i) /\ Held(t, q, b) /\ ~Held(t, q, i)
       \/ /\ S(b) = S(i) /\ A(b) = A(i) /\ (Held(t, q, b) <=> Held(t, q, i))
          /\ PreferredInMemb(t[i]) => PreferredInMemb(t[b])
  BY <1>8, Zenon DEF AtLeast
<1> HIDE DEF S, A, IV, IW, FV, FW
<1>15. QED BY <1>1, <1>9, <1>10, <1>11, <1>13, <1>14, Zenon DEF IV, IW, FV, FW

(* No two views outrank each other. *)
LEMMA OutranksAsymmetric ==
    ASSUME NEW t \in Tables, NEW q, IsFiniteSet(NodeIds),
           2 * Cardinality(NodeIds) < SizeMod, OneSlotEach(t),
           NEW i \in Used(t), NEW j \in Used(t),
           Outranks(t, q, t[i].memb, t[j].memb), Outranks(t, q, t[j].memb, t[i].memb)
    PROVE  FALSE
<1> DEFINE P(x) == Points(t, t[x].memb)
           A(x) == Cardinality(Connected(t, t[x].memb))
           I(x) == Incumbent(t, q, t[x].memb)
           F(x) == Preferred(t, t[x].memb)
           R(x, y) == \/ P(x) > P(y)
                      \/ P(x) = P(y) /\ A(x) > A(y)
                      \/ P(x) = P(y) /\ A(x) = A(y) /\ I(x) /\ ~I(y)
                      \/ P(x) = P(y) /\ A(x) = A(y) /\ (I(x) <=> I(y)) /\ F(x) /\ ~F(y)
<1>1. i \in Slots /\ j \in Slots
  BY DEF Used
<1>2. P(i) \in Nat /\ P(j) \in Nat /\ A(i) \in Nat /\ A(j) \in Nat
  BY <1>1, ScoreIsPoints, CountsAreOfTheView, CountTypes
<1>3. R(i, j) /\ R(j, i)
  BY Zenon DEF Outranks
<1> HIDE DEF P, A, I, F
<1>4. QED BY <1>2, <1>3

(* qesp_ff_select against the rules of docs/ffsplit.md, on every stable    *)
(* table of one cluster whose views are blocks of one split.               *)
LEMMA DecisionIsReference ==
    ASSUME NEW t \in Tables, NEW q, IsFiniteSet(NodeIds),
           2 * Cardinality(NodeIds) < SizeMod, Stable(t), OneSplit(t),
           OneSlotEach(t), InOwnPartition(t), OneCluster(t)
    PROVE  Decide(t, q) = Reference(t, q)
<1> DEFINE C == Config(t)
           M == {v \in ViewsOf(t) : 2 * Cardinality(v) > Cardinality(C)}
           H == {v \in ViewsOf(t) : 2 * Cardinality(v) = Cardinality(C)}
           b == Select(t, q)
<1>1. Reference(t, q) =
        IF M # {} THEN UNION M
        ELSE IF H = {} THEN {}
        ELSE CHOOSE v \in H : \A w \in H \ {v} : Outranks(t, q, v, w)
  BY Zenon DEF Reference
<1>2. ASSUME NEW i \in Used(t)
      PROVE  /\ i \in Slots /\ t[i].cfg = C /\ t[i].memb \in ViewsOf(t)
             /\ t[i].memb \subseteq C /\ C \subseteq NodeIds
             /\ Majority(t[i]) <=> t[i].memb \in M
             /\ Half(t[i]) <=> t[i].memb \in H
  <2>1. i \in Slots /\ t[i].memb \in ViewsOf(t)
    BY DEF Used, ViewsOf
  <2>2. t[i].cfg = C
    BY DEF Config, Stable, SameConfig
  <2>3. t[i].memb \subseteq C /\ C \subseteq NodeIds
    BY <2>1, <2>2 DEF OneCluster, Tables, Client
  <2>4. QED BY <2>1, <2>2, <2>3 DEF Majority, Half
<1>3. \A v \in ViewsOf(t) : \E i \in Used(t) : v = t[i].memb
  BY DEF ViewsOf
<1>4. NoHalfBesideMajority(t)
  <2>1. \A i \in Used(t) : t[i].memb \subseteq t[i].cfg
    BY DEF OneCluster
  <2>2. \A i, j \in Used(t) :
          t[i].memb = t[j].memb \/ t[i].memb \cap t[j].memb = {}
    BY DEF OneSplit, ViewsOf
  <2>3. QED BY <2>1, <2>2, BlocksOfOneSplit DEF Stable
<1>5. b \in Used(t) => Decide(t, q) = t[b].memb
  BY DEF Decide
<1>6. b \notin Used(t) => Decide(t, q) = {}
  BY DEF Decide
<1>7. b \in Used(t) => Majority(t[b]) \/ Half(t[b])
  BY SelectedIsLarge, NoSlotIsNoSlot DEF Used
<1> HIDE DEF C, M, H, b
<1>8. CASE M # {}
  <2>1. PICK m \in Used(t) : Majority(t[m])
    BY <1>2, <1>3, <1>8 DEF M
  <2>2. b \in Used(t) /\ Majority(t[b])
    BY <1>4, <2>1, MajorityWins DEF b
  <2>3. ASSUME NEW v \in M PROVE v = t[b].memb
    <3>1. v \in ViewsOf(t) /\ t[b].memb \in M /\ t[b].memb \in ViewsOf(t)
      BY <1>2, <2>2 DEF M
    <3>2. v = t[b].memb \/ v \cap t[b].memb = {}
      BY <3>1 DEF OneSplit
    <3>3. v \subseteq C /\ t[b].memb \subseteq C /\ IsFiniteSet(C)
      BY <1>2, <1>3, <2>2, <3>1, FS_Subset
    <3>4. 2 * Cardinality(v) > Cardinality(C) /\ 2 * Cardinality(t[b].memb) > Cardinality(C)
      BY <3>1 DEF M
    <3>5. /\ Cardinality(v) \in Nat /\ Cardinality(t[b].memb) \in Nat
          /\ Cardinality(C) \in Nat
      BY <3>3, FS_Subset, FS_CardinalityType
    <3>6. Cardinality(v) + Cardinality(t[b].memb) > Cardinality(C)
      BY <3>4, <3>5
    <3>7. v \cap t[b].memb # {}
      BY <3>3, <3>6, FS_MajoritiesIntersect
    <3>8. QED BY <3>2, <3>7
  <2>4. M = {t[b].memb}
    BY <1>2, <2>2, <2>3
  <2>5. UNION M = t[b].memb
    BY <2>4
  <2>6. QED BY <1>1, <1>5, <1>8, <2>2, <2>5
<1>9. CASE M = {} /\ H = {}
  <2>1. b \notin Used(t)
    BY <1>2, <1>7, <1>9
  <2>2. QED BY <1>1, <1>6, <1>9, <2>1
<1>10. CASE M = {} /\ H # {}
  <2>1. PICK h \in Used(t) : Half(t[h])
    BY <1>2, <1>3, <1>10 DEF H
  <2>2. \A i \in Used(t) : ~Majority(t[i])
    BY <1>2, <1>10
  <2>3. CASE C = {}
    <3>1. \A i \in Used(t) : t[i].memb = {}
      BY <1>2, <2>3
    <3>2. H = {{}}
      <4>1. {} \in H
        BY <1>2, <2>1, <3>1
      <4>2. \A v \in H : v = {}
        BY <1>3, <3>1 DEF H
      <4>3. QED BY <4>1, <4>2
    <3>3. Decide(t, q) = {}
      BY <1>5, <1>6, <3>1
    <3>4. QED BY <1>1, <1>10, <3>2, <3>3
  <2>4. CASE C # {}
    <3>1. t[h].memb # {}
      <4>1. SUFFICES ASSUME t[h].memb = {} PROVE FALSE
        OBVIOUS
      <4>2. Cardinality(C) = 2 * 0
        BY <1>2, <2>1, <4>1, FS_EmptySet DEF Half
      <4>3. IsFiniteSet(C)
        BY <1>2, FS_Subset
      <4>4. QED BY <2>4, <4>2, <4>3, FS_EmptySet
    <3>2. Active(t, h) # {}
      <4>1. t[h].node_id \in t[h].memb
        BY <3>1 DEF InOwnPartition
      <4>2. h \in SlotsOf(t, t[h].node_id)
        BY DEF SlotsOf
      <4>3. QED BY <4>1, <4>2 DEF Active
    <3>3. b \in Used(t)
      BY <2>1, <2>2, <3>2, SelectedIsBest DEF b
    <3>4. Half(t[b]) /\ t[b].memb \in H
      BY <1>2, <1>7, <2>2, <3>3
    <3>5. ASSUME NEW w \in H \ {t[b].memb}
          PROVE  Outranks(t, q, t[b].memb, w)
      <4>1. PICK j \in Used(t) : w = t[j].memb
        BY <1>3 DEF H
      <4>2. Half(t[j])
        BY <1>2, <4>1
      <4>3. QED BY <2>2, <3>3, <4>1, <4>2, SelectedOutranks DEF b
    <3>6. ASSUME NEW v \in H, \A w \in H \ {v} : Outranks(t, q, v, w), v # t[b].memb
          PROVE  FALSE
      <4>1. PICK j \in Used(t) : v = t[j].memb
        BY <1>3 DEF H
      <4>2. /\ Outranks(t, q, t[b].memb, t[j].memb)
            /\ Outranks(t, q, t[j].memb, t[b].memb)
        BY <3>4, <3>5, <3>6, <4>1
      <4>3. QED BY <3>3, <4>2, OutranksAsymmetric
    <3> DEFINE Best(v) == \A w \in H \ {v} : Outranks(t, q, v, w)
    <3>7. Best(t[b].memb) /\ \A v \in H : Best(v) => v = t[b].memb
      BY <3>5, <3>6
    <3>8. Reference(t, q) = CHOOSE v \in H : Best(v)
      BY <1>1, <1>10
    <3> HIDE DEF Best
    <3>9. QED BY <1>5, <3>3, <3>4, <3>7, <3>8
  <2>5. QED BY <2>3, <2>4
<1>11. QED BY <1>8, <1>9, <1>10

(* The property the run checks on four nodes, for any number of nodes and  *)
(* slots: in whichever slots the clients sit, the one pass with its        *)
(* unsigned scores ends at the partition the documented rules name.        *)
THEOREM SelectionIsTheRanking ==
    ASSUME IsFiniteSet(NodeIds), 2 * Cardinality(NodeIds) < SizeMod,
           table \in Tables, OneSlotEach(table), InOwnPartition(table),
           OneCluster(table)
    PROVE  SelectMatchesReference
BY DecisionIsReference DEF SelectMatchesReference

-----------------------------------------------------------------------------
(* The server *)

Seqs == 0 .. SeqMod - 1
Queues == [Conns -> Seq(Message)]

-----------------------------------------------------------------------------
(* Types of the helpers *)

LEMMA SeqsBasics ==
    /\ 0 \in Seqs
    /\ \A x \in Seqs : (x + 1) % SeqMod \in Seqs
BY SeqModAssumption DEF Seqs

LEMMA BumpedType ==
    ASSUME s_seq \in [Slots -> Seqs], NEW S
    PROVE  Bumped(S) \in [Slots -> Seqs]
<1>1. ASSUME NEW i \in Slots
      PROVE  (IF i \in S THEN (s_seq[i] + 1) % SeqMod ELSE s_seq[i]) \in Seqs
  <2>1. s_seq[i] \in Seqs
    OBVIOUS
  <2>2. QED BY <2>1, SeqsBasics
<1>2. QED BY <1>1 DEF Bumped

LEMMA PushedType ==
    ASSUME s_seq \in [Slots -> Seqs], NEW q \in Queues, NEW tp,
           NEW S \in SUBSET Slots, NEW vote \in [Slots -> {"ACK", "NACK"}]
    PROVE  Pushed(q, tp, S, vote) \in Queues
<1> DEFINE msg(i) == [kind |-> "VOTE_INFO", seq |-> (s_seq[i] + 1) % SeqMod,
                      vote |-> vote[i]]
           to(c) == CHOOSE i \in S : tp[i] = c
<1>1. ASSUME NEW i \in S PROVE msg(i) \in Message
  <2>1. (s_seq[i] + 1) % SeqMod \in Seqs
    BY SeqsBasics
  <2>2. vote[i] \in {"ACK", "NACK"}
    OBVIOUS
  <2>3. QED BY <2>1, <2>2 DEF Message, Seqs
<1>2. ASSUME NEW c \in Conns, \E i \in S : tp[i] = c PROVE to(c) \in S
  BY <1>2
<1> HIDE DEF msg, to
<1>3. ASSUME NEW c \in Conns
      PROVE  (IF \E i \in S : tp[i] = c THEN Append(q[c], msg(to(c)))
                                        ELSE q[c]) \in Seq(Message)
  <2>1. q[c] \in Seq(Message)
    BY DEF Queues
  <2>2. CASE \E i \in S : tp[i] = c
    <3>1. msg(to(c)) \in Message
      BY <1>1, <1>2, <2>2
    <3>2. Append(q[c], msg(to(c))) \in Seq(Message)
      BY <2>1, <3>1
    <3>3. QED BY <2>2, <3>2
  <2>3. CASE ~ \E i \in S : tp[i] = c
    BY <2>1, <2>3
  <2>4. QED BY <2>2, <2>3
<1>4. Pushed(q, tp, S, vote) =
        [c \in Conns |-> IF \E i \in S : tp[i] = c
                         THEN Append(q[c], msg(to(c))) ELSE q[c]]
  BY Zenon DEF Pushed, msg, to
<1>5. QED BY <1>3, <1>4 DEF Queues

PushTypes ==
    /\ quorate \in SUBSET NodeIds
    /\ s_decided \in BOOLEAN
    /\ s_st \in [Slots -> 0 .. 4]
    /\ s_seq \in [Slots -> Seqs]
    /\ s_phase \in 0 .. 2
    /\ down \in Queues

(* recompute leaves the push state well typed. *)
LEMMA RecomputeType ==
    ASSUME PushTypes, NEW t \in Tables, NEW tp, NEW q \in Queues,
           Recompute(t, tp, q)
    PROVE  PushTypes'
<1>1. CASE RecomputeUnstable(t, q)
  BY <1>1 DEF RecomputeUnstable, PushTypes
<1>2. CASE RecomputeStable(t, tp, q)
  <2> DEFINE chosen == Decide(t, quorate)
             acks == {i \in Used(t) : t[i].node_id \in chosen}
             nacks == Used(t) \ acks
             nackSent(f) == nacks \ f
             ackTried(f) == AcksTried(nackSent(f), acks)
             ackSent(f) == ackTried(f) \ f
             vote == [i \in Slots |-> Vote(i \in acks)]
  <2>1. PICK fail \in Failures :
          /\ s_decided' = TRUE
          /\ quorate' = chosen
          /\ s_st' = [i \in Slots |->
                        IF i \in nackSent(fail) THEN NackPending
                        ELSE IF i \in ackSent(fail) THEN AckPending
                        ELSE IF i \in nacks THEN NackDue
                        ELSE IF i \in acks THEN AckDue
                        ELSE s_st[i]]
          /\ s_seq' = Bumped(nacks \cup ackTried(fail))
          /\ s_phase' = IF nackSent(fail) # {} THEN 1
                        ELSE IF ackSent(fail) # {} THEN 2 ELSE 0
          /\ down' = Pushed(q, tp, nackSent(fail) \cup ackSent(fail), vote)
    BY <1>2, Zenon DEF RecomputeStable
  <2>2. chosen \in SUBSET NodeIds
    BY DecideType
  <2>3. nackSent(fail) \cup ackSent(fail) \in SUBSET Slots
    BY DEF AcksTried, Used
  <2>4. vote \in [Slots -> {"ACK", "NACK"}]
    BY DEF Vote
  <2> HIDE DEF chosen, acks, nacks, nackSent, ackTried, ackSent, vote
  <2>5. s_st' \in [Slots -> 0 .. 4]
    <3>1. {NackPending, AckPending, NackDue, AckDue} \subseteq 0 .. 4
      BY DEF NackPending, AckPending, NackDue, AckDue
    <3>2. s_st \in [Slots -> 0 .. 4]
      BY DEF PushTypes
    <3>3. QED BY <2>1, <3>1, <3>2
  <2>6. s_seq' \in [Slots -> Seqs]
    BY <2>1, BumpedType DEF PushTypes
  <2>7. down' \in Queues
    BY <2>1, <2>3, <2>4, PushedType DEF PushTypes
  <2>8. s_phase' \in 0 .. 2
    BY <2>1
  <2>9. quorate' \in SUBSET NodeIds /\ s_decided' \in BOOLEAN
    BY <2>1, <2>2
  <2>10. QED BY <2>5, <2>6, <2>7, <2>8, <2>9 DEF PushTypes
<1>3. QED BY <1>1, <1>2 DEF Recompute

(* lms_refresh_others leaves what it writes well typed. *)
LEMMA RefreshType ==
    ASSUME s_seq \in [Slots -> Seqs], NEW t, NEW tp,
           NEW last \in [Slots -> LmsResults], NEW excl, NEW q \in Queues,
           Refresh(t, tp, last, excl, q)
    PROVE  /\ s_lms_last' \in [Slots -> LmsResults]
           /\ s_seq' \in [Slots -> Seqs]
           /\ down' \in Queues
<1> DEFINE waiting == WaitingOthers(t, last, excl)
           told == {i \in waiting : LmsVote(t, i, last) # "WAIT"}
           vote == [i \in Slots |-> Vote(LmsVote(t, i, last) = "ACK")]
<1>1. PICK fail \in Failures :
        /\ s_lms_last' = [i \in Slots |-> IF i \in waiting
                                          THEN LmsSaved(t, i, last)
                                          ELSE last[i]]
        /\ s_seq' = Bumped(told)
        /\ down' = Pushed(q, tp, told \ fail, vote)
  BY Zenon DEF Refresh
<1>2. told \ fail \in SUBSET Slots
  BY DEF WaitingOthers, Used
<1>3. vote \in [Slots -> {"ACK", "NACK"}]
  BY DEF Vote
<1>4. \A i \in Slots : LmsSaved(t, i, last) \in LmsResults
  BY LmsTypes
<1> HIDE DEF waiting, told, vote
<1>5. s_lms_last' \in [Slots -> LmsResults]
  BY <1>1, <1>4
<1>6. s_seq' \in [Slots -> Seqs]
  BY <1>1, BumpedType
<1>7. down' \in Queues
  BY <1>1, <1>2, <1>3, PushedType
<1>8. QED BY <1>5, <1>6, <1>7

(* on_vote_info_reply leaves the push state well typed. *)
LEMMA AdvancePhaseType ==
    ASSUME PushTypes, NEW st \in [Slots -> 0 .. 4], AdvancePhase(st),
           UNCHANGED <<quorate, s_decided>>
    PROVE  PushTypes'
<1> DEFINE due == {j \in Used(ff) : st[j] = AckDue}
           vote == [j \in Slots |-> "ACK"]
<1>1. ASSUME NEW fail \in Failures,
             s_st' = [j \in Slots |-> IF j \in due \ fail THEN AckPending
                                                          ELSE st[j]],
             s_phase' = IF due \ fail # {} THEN 2 ELSE 0,
             s_seq' = Bumped(due),
             down' = Pushed(down, s_tp, due \ fail, vote)
      PROVE  PushTypes'
  <2>1. due \ fail \in SUBSET Slots /\ vote \in [Slots -> {"ACK", "NACK"}]
    BY DEF Used
  <2> HIDE DEF due, vote
  <2>2. s_st' \in [Slots -> 0 .. 4]
    <3>1. AckPending \in 0 .. 4
      BY DEF AckPending
    <3>2. QED BY <1>1, <3>1
  <2>3. s_seq' \in [Slots -> Seqs]
    BY <1>1, BumpedType DEF PushTypes
  <2>4. down' \in Queues
    BY <1>1, <2>1, PushedType DEF PushTypes
  <2>5. s_phase' \in 0 .. 2
    BY <1>1
  <2>6. QED BY <2>2, <2>3, <2>4, <2>5 DEF PushTypes
<1>2. CASE s_phase' = 0 /\ s_st' = st /\ UNCHANGED <<s_seq, down>>
  BY <1>2 DEF PushTypes
<1>3. CASE s_st' = st /\ UNCHANGED <<s_seq, s_phase, down>>
  BY <1>3 DEF PushTypes
<1>4. QED BY <1>1, <1>2, <1>3, Zenon DEF AdvancePhase

-----------------------------------------------------------------------------
(* Types of the table a report leaves *)

LEMMA ViewTypes ==
    ASSUME NEW v \in Views
    PROVE  v.memb \in SUBSET NodeIds /\ v.ring \in Rings \cup {NoRing}
BY ReportsAssumption

LEMMA StoreMembershipType ==
    ASSUME NEW t \in Tables, NEW i \in Slots, NEW v \in Views, NEW h \in Heurs
    PROVE  StoreMembership(t, i, v, h) \in Tables
<1> DEFINE r == IF v.ring = NoRing THEN t[i].ring ELSE v.ring
           g == HeurOr(h, t[i].heur)
<1>1. t[i] \in Client
  BY DEF Tables
<1>2. r \in Rings \cup {NoRing} /\ v.memb \in SUBSET NodeIds
  BY <1>1, ViewTypes DEF Client
<1>3. g \in Heuristics
  BY <1>1, ReportsAssumption DEF HeurOr, Client
<1>4. StoreMembership(t, i, v, h)
        = [t EXCEPT ![i] = [t[i] EXCEPT !.memb = v.memb, !.ring = r, !.heur = g]]
  BY DEF StoreMembership, Tables, Client
<1> HIDE DEF r, g
<1>5. [t[i] EXCEPT !.memb = v.memb, !.ring = r, !.heur = g] \in Client
  BY <1>1, <1>2, <1>3 DEF Client
<1>6. QED BY <1>4, <1>5 DEF Tables

LEMMA FieldTypes ==
    ASSUME NEW t \in Tables, NEW i \in Slots
    PROVE  /\ \A cfg \in Configs : [t EXCEPT ![i].cfg = cfg] \in Tables
           /\ \A h \in Heuristics : [t EXCEPT ![i].heur = h] \in Tables
           /\ \A kap \in Kaps : [t EXCEPT ![i].kap = kap] \in Tables
<1>1. \A cfg \in Configs : cfg \in SUBSET NodeIds
  BY ReportsAssumption
<1>2. \A cfg \in Configs : [t EXCEPT ![i].cfg = cfg] \in Tables
  BY <1>1 DEF Tables, Client
<1>3. \A h \in Heuristics : [t EXCEPT ![i].heur = h] \in Tables
  BY DEF Tables, Client
<1>4. \A kap \in Kaps : [t EXCEPT ![i].kap = kap] \in Tables
  <2>1. \A kap \in Kaps : kap \in BOOLEAN
    BY ReportsAssumption
  <2>2. QED BY <2>1 DEF Tables, Client
<1>5. QED BY <1>2, <1>3, <1>4

-----------------------------------------------------------------------------
(* Type correctness *)

(* What TypeOK says besides PushTypes. *)
RestTypes ==
    /\ sess \in [Conns -> Session]
    /\ s_cluster \in Names \cup {NoName}
    /\ s_algo \in {"NONE", "FFSPLIT", "LMS"}
    /\ ff \in Tables
    /\ s_lms_last \in [Slots -> LmsResults]
    /\ s_tp \in [Slots -> Conns \cup {NoConn}]
    /\ up \in [Conns -> Seq(Seqs)]
    /\ cvote \in [Conns -> {"NONE", "ACK", "NACK"}]

LEMMA TypeParts ==
    /\ TypeOK <=> PushTypes /\ RestTypes
    /\ TypeOK' <=> PushTypes' /\ RestTypes'
BY DEF TypeOK, PushTypes, RestTypes, Seqs, Queues

(* A session being served has a slot; one with a slot has passed INIT.     *)
ActiveHasSlot ==
    \A c \in Conns :
      /\ sess[c].st = "ACTIVE" => sess[c].ff_idx \in Slots
      /\ sess[c].ff_idx # NoSlot => sess[c].st \in {"ACTIVE", "CLOSING"}

(* The tail of a report. *)
LEMMA RecomputeIfCompleteType ==
    ASSUME PushTypes, NEW s, NEW t \in Tables, RecomputeIfComplete(s, t)
    PROVE  PushTypes'
<1>1. CASE Recompute(t, s_tp, down)
  <2>1. down \in Queues
    BY DEF PushTypes
  <2>2. QED BY <1>1, <2>1, RecomputeType
<1>2. CASE UNCHANGED pushVars
  BY <1>2 DEF pushVars, PushTypes
<1>3. QED BY <1>1, <1>2, Zenon DEF RecomputeIfComplete

LEMMA WithReplyType ==
    ASSUME down \in Queues, NEW c \in Conns, NEW vote \in {"WAIT", "ACK", "NACK"}
    PROVE  WithReply(c, vote) \in Queues
<1> DEFINE m == [kind |-> "REPLY", seq |-> 0, vote |-> vote]
<1>1. CASE vote = "WAIT"
  BY <1>1 DEF WithReply
<1>2. CASE vote # "WAIT"
  <2>1. m \in Message
    BY <1>2, SeqsBasics DEF Message, Seqs
  <2>2. WithReply(c, vote) = [down EXCEPT ![c] = Append(down[c], m)]
    BY <1>2 DEF WithReply, Queues
  <2> HIDE DEF m
  <2>3. down[c] \in Seq(Message)
    BY DEF Queues
  <2>4. Append(down[c], m) \in Seq(Message)
    BY <2>1, <2>3
  <2>5. QED BY <2>2, <2>4 DEF Queues
<1>3. QED BY <1>1, <1>2

LEMMA LmsDecideAndRefreshType ==
    ASSUME PushTypes, s_lms_last \in [Slots -> LmsResults],
           NEW c \in Conns, sess[c].ff_idx \in Slots, NEW t,
           LmsDecideAndRefresh(c, t)
    PROVE  /\ s_lms_last' \in [Slots -> LmsResults]
           /\ s_seq' \in [Slots -> Seqs]
           /\ down' \in Queues
<1> DEFINE i == sess[c].ff_idx
           vote == LmsVote(t, i, s_lms_last)
           last == [s_lms_last EXCEPT ![i] = LmsSaved(t, i, s_lms_last)]
           q == WithReply(c, vote)
<1>1. last \in [Slots -> LmsResults] /\ vote \in {"WAIT", "ACK", "NACK"}
  BY LmsTypes
<1>2. q \in Queues
  BY <1>1, WithReplyType DEF PushTypes
<1>3. Refresh(t, s_tp, last, {i}, q)
  BY Zenon DEF LmsDecideAndRefresh
<1> HIDE DEF i, vote, last, q
<1>4. QED BY <1>1, <1>2, <1>3, RefreshType DEF PushTypes

LEMMA InitialTypes == Init => TypeOK /\ ActiveHasSlot
<1> SUFFICES ASSUME Init PROVE TypeOK /\ ActiveHasSlot
  OBVIOUS
<1>1. PushTypes
  <2>1. \A S : <<>> \in Seq(S)
    OBVIOUS
  <2>2. down \in Queues
    BY <2>1 DEF Init, Queues
  <2>3. s_st \in [Slots -> 0 .. 4] /\ s_seq \in [Slots -> Seqs]
    BY SeqsBasics DEF Init, Idle
  <2>4. quorate \in SUBSET NodeIds /\ s_decided \in BOOLEAN /\ s_phase \in 0 .. 2
    <3>1. quorate = {} /\ s_decided = FALSE /\ s_phase = 0
      BY Zenon DEF Init
    <3>2. s_decided \in BOOLEAN
      BY <3>1, Zenon
    <3>3. s_phase \in 0 .. 2
      BY <3>1
    <3>4. QED BY <3>1, <3>2, <3>3, Zenon
  <2>5. QED BY <2>2, <2>3, <2>4 DEF PushTypes
<1>2. FreeSession \in Session
  BY DEF FreeSession, Session, NoName, NoNode, NoSlot
<1>3. sess \in [Conns -> Session]
  BY <1>2 DEF Init
<1>4. RestTypes
  BY <1>3, EmptyTableType DEF Init, RestTypes, LmsResults
<1>5. ActiveHasSlot
  BY DEF Init, ActiveHasSlot, FreeSession
<1>6. QED BY <1>1, <1>4, <1>5, TypeParts

(* The parts of a session's end that the three kinds of leaving share.     *)
LEMMA ReleaseTypes ==
    ASSUME TypeOK, NEW c \in Conns, ReleaseSlot(c)
    PROVE  /\ sess[c].ff_idx \in Slots
           /\ sess' \in [Conns -> Session]
           /\ up' \in [Conns -> Seq(Seqs)]
           /\ cvote' \in [Conns -> {"NONE", "ACK", "NACK"}]
           /\ s_tp' \in [Slots -> Conns \cup {NoConn}]
           /\ ff' \in Tables
           /\ s_cluster' = s_cluster
           /\ Drained(c) \in Queues
<1> USE TypeParts
<1>1. sess[c].ff_idx \in Slots
  BY DEF ReleaseSlot, RestTypes, Session
<1>2. FreeSession \in Session
  BY DEF FreeSession, Session, NoName, NoNode, NoSlot
<1>3. \A S : <<>> \in Seq(S)
  OBVIOUS
<1>4. sess' \in [Conns -> Session]
  BY <1>2 DEF ReleaseSlot, Hangup, RestTypes
<1>5. up' \in [Conns -> Seq(Seqs)]
  BY <1>3 DEF ReleaseSlot, Hangup, RestTypes
<1>6. cvote' \in [Conns -> {"NONE", "ACK", "NACK"}]
  BY DEF ReleaseSlot, Hangup, RestTypes
<1>7. s_tp' \in [Slots -> Conns \cup {NoConn}] /\ s_cluster' = s_cluster
  BY DEF ReleaseSlot, RestTypes
<1>8. ff' \in Tables
  BY <1>1, RemoveType DEF ReleaseSlot, RestTypes
<1>9. Drained(c) \in Queues
  BY <1>3 DEF Drained, PushTypes, Queues
<1>10. QED BY <1>1, <1>4, <1>5, <1>6, <1>7, <1>8, <1>9

(* INIT leaves the state well typed. *)
LEMMA InitMsgTypes ==
    ASSUME TypeOK, NEW c \in Conns, NEW n \in NodeIds, NEW algo \in Algos,
           NEW tb \in TieBreakers, InitMsg(c, n, algo, tb)
    PROVE  TypeOK'
<1> USE TypeParts
<1> DEFINE i == SlotFor(ff, n)
           s == [sess[c] EXCEPT !.node = n, !.algo = algo]
           u == IF i # NoSlot
                THEN [s EXCEPT !.st = "ACTIVE", !.ff_idx = i,
                               !.has_config = FALSE, !.has_memb = FALSE]
                ELSE [s EXCEPT !.st = "CLOSING"]
<1>1. i \in Slots \cup {NoSlot}
  BY SlotForType
<1>2. algo \in {"NONE", "FFSPLIT", "LMS"}
  BY AlgosAssumption
<1>3. tb.mode \in TbModes /\ tb.node \in NodeIds \cup {NoNode}
  BY TieBreakersAssumption
<1>4. u \in Session
  <2>1. sess[c] \in Session
    BY DEF RestTypes
  <2>2. s \in Session
    BY <2>1, <1>2 DEF Session
  <2> HIDE DEF s, i
  <2>3. QED BY <1>1, <2>2 DEF Session
<1>5. sess' \in [Conns -> Session]
  <2>1. sess' = [sess EXCEPT ![c] = u]
    BY Zenon DEF InitMsg
  <2> HIDE DEF u
  <2>2. QED BY <2>1, <1>4 DEF RestTypes
<1>6. UNCHANGED <<s_cluster, quorate, s_decided, s_phase, down, up, cvote>>
  BY DEF InitMsg
<1>7. CASE i # NoSlot
  <2>1. i \in Slots
    BY <1>1, <1>7
  <2>2. /\ ff' = [Allocate(ff, n, i) EXCEPT ![i].tb_mode = tb.mode,
                                            ![i].tb_node = tb.node,
                                            ![i].heur = "UNDEFINED"]
        /\ s_tp' = [s_tp EXCEPT ![i] = c]
        /\ s_st' = [s_st EXCEPT ![i] = Idle]
        /\ s_seq' = [s_seq EXCEPT ![i] = 0]
        /\ s_lms_last' = [s_lms_last EXCEPT ![i] = "NEW"]
        /\ s_algo' = algo
    BY <1>7, Zenon DEF InitMsg
  <2> HIDE DEF i
  <2>3. ff' \in Tables
    <3>1. ff \in Tables
      BY DEF RestTypes
    <3>2. QED BY <2>1, <2>2, <3>1, <1>3, AllocateType
  <2>4. s_tp' \in [Slots -> Conns \cup {NoConn}]
    BY <2>2 DEF RestTypes
  <2>5. s_st' \in [Slots -> 0 .. 4]
    <3>1. Idle \in 0 .. 4
      BY DEF Idle
    <3>2. s_st \in [Slots -> 0 .. 4]
      BY DEF PushTypes
    <3>3. QED BY <2>2, <3>1, <3>2
  <2>6. s_seq' \in [Slots -> Seqs]
    BY <2>2, SeqsBasics DEF PushTypes
  <2>7. s_lms_last' \in [Slots -> LmsResults]
    BY <2>2 DEF RestTypes, LmsResults
  <2>8. PushTypes'
    BY <1>6, <2>5, <2>6 DEF PushTypes
  <2>9. RestTypes'
    BY <1>2, <1>5, <1>6, <2>2, <2>3, <2>4, <2>7 DEF RestTypes
  <2>10. QED BY <2>8, <2>9
<1>8. CASE i = NoSlot
  <2>1. UNCHANGED <<ff, s_tp, s_st, s_seq, s_lms_last, s_algo>>
    BY <1>8, Zenon DEF InitMsg
  <2>2. PushTypes'
    BY <1>6, <2>1 DEF PushTypes
  <2>3. RestTypes'
    BY <1>5, <1>6, <2>1 DEF RestTypes
  <2>4. QED BY <2>2, <2>3
<1>9. QED BY <1>7, <1>8

(* A step that only moves one session along, or breaks it, is well typed.  *)
LEMMA SessionStepTypes ==
    ASSUME TypeOK, NEW c \in Conns, sess' \in [Conns -> Session],
           s_cluster' \in Names \cup {NoName},
           UNCHANGED <<s_algo, ff, s_lms_last, s_tp, up, cvote, pushVars>>
    PROVE  TypeOK'
<1>1. RestTypes'
  BY TypeParts DEF RestTypes
<1>2. PushTypes'
  BY TypeParts DEF PushTypes, pushVars
<1>3. QED BY <1>1, <1>2, TypeParts

(* So is one that stores a report. *)
LEMMA ReportStepTypes ==
    ASSUME TypeOK, sess' \in [Conns -> Session], ff' \in Tables, PushTypes',
           s_lms_last' \in [Slots -> LmsResults],
           UNCHANGED <<s_cluster, s_algo, s_tp, up, cvote>>
    PROVE  TypeOK'
<1>1. RestTypes'
  BY TypeParts DEF RestTypes
<1>2. QED BY <1>1, TypeParts

(* Every step keeps the types. *)
LEMMA TypeStep ==
    ASSUME TypeOK, ActiveHasSlot, Next
    PROVE  TypeOK'
<1> USE TypeParts
<1>0. PICK c \in Conns :
      \/ Connect(c)
      \/ \E name \in Names : Preinit(c, name)
      \/ \E name \in Names : PreinitRefused(c, name)
      \/ \E n \in NodeIds, algo \in Algos, tb \in TieBreakers :
            InitMsg(c, n, algo, tb)
      \/ \E cfg \in Configs : ConfigList(c, cfg)
      \/ \E v \in Views, h \in Heurs : MembershipList(c, v, h)
      \/ \E h \in Heurs : HeuristicsChange(c, h)
      \/ \E kap \in Kaps : SetOption(c, kap)
      \/ \E v \in Views, h \in Heurs : LmsMembershipList(c, v, h)
      \/ LmsQuorumList(c)
      \/ AskForVote(c)
      \/ VoteInfoReply(c)
      \/ ClientRecv(c)
      \/ Break(c)
      \/ LeaveHandshake(c)
      \/ LeaveLast(c)
      \/ LeaveFFSplit(c)
      \/ LeaveLms(c)
  BY Zenon DEF Next
<1> DEFINE i == sess[c].ff_idx
<1>types. /\ sess \in [Conns -> Session] /\ sess[c] \in Session
          /\ ff \in Tables /\ s_lms_last \in [Slots -> LmsResults]
          /\ s_cluster \in Names \cup {NoName}
          /\ down \in Queues
  BY DEF RestTypes, PushTypes
<1>slot. sess[c].st = "ACTIVE" => i \in Slots
  BY DEF ActiveHasSlot
<1>1. CASE Connect(c)
  <2>1. sess' \in [Conns -> Session]
    BY <1>1, <1>types DEF Connect, Session
  <2>2. QED BY <1>1, <2>1, <1>types, SessionStepTypes DEF Connect
<1>2. ASSUME NEW name \in Names, Preinit(c, name) PROVE TypeOK'
  <2>1. sess' \in [Conns -> Session]
    BY <1>2, <1>types DEF Preinit, Session
  <2>2. s_cluster' \in Names \cup {NoName}
    BY <1>2, <1>types DEF Preinit
  <2>3. QED BY <1>2, <2>1, <2>2, SessionStepTypes DEF Preinit
<1>3. ASSUME NEW name \in Names, PreinitRefused(c, name) PROVE TypeOK'
  <2>1. sess' \in [Conns -> Session]
    BY <1>3, <1>types DEF PreinitRefused, Session
  <2>2. QED BY <1>3, <2>1, <1>types, SessionStepTypes DEF PreinitRefused
<1>4. ASSUME NEW n \in NodeIds, NEW algo \in Algos, NEW tb \in TieBreakers,
             InitMsg(c, n, algo, tb)
      PROVE TypeOK'
  BY <1>4, InitMsgTypes
<1>5. ASSUME NEW cfg \in Configs, ConfigList(c, cfg) PROVE TypeOK'
  <2> DEFINE s == [sess[c] EXCEPT !.has_config = TRUE]
             t == [ff EXCEPT ![i].cfg = cfg]
  <2>1. s.ff_idx = i /\ s \in Session
    BY <1>types DEF Session
  <2>2. /\ sess' = [sess EXCEPT ![c] = s]
        /\ ff' = t
        /\ RecomputeIfComplete(s, t)
        /\ UNCHANGED <<s_cluster, s_algo, s_lms_last, s_tp, up, cvote>>
    BY <1>5, <2>1 DEF ConfigList
  <2>3. t \in Tables
    BY <1>5, <1>slot, <1>types, FieldTypes DEF ConfigList, Reports
  <2> HIDE DEF s, t
  <2>4. sess' \in [Conns -> Session]
    BY <2>1, <2>2, <1>types
  <2>5. PushTypes'
    BY <2>2, <2>3, RecomputeIfCompleteType
  <2>6. QED BY <2>2, <2>3, <2>4, <2>5, <1>types, ReportStepTypes
<1>6. ASSUME NEW v \in Views, NEW h \in Heurs, MembershipList(c, v, h)
      PROVE TypeOK'
  <2> DEFINE s == [sess[c] EXCEPT !.has_memb = TRUE]
             t == StoreMembership(ff, i, v, h)
  <2>1. s.ff_idx = i /\ s \in Session
    BY <1>types DEF Session
  <2>2. /\ sess' = [sess EXCEPT ![c] = s]
        /\ ff' = t
        /\ RecomputeIfComplete(s, t)
        /\ UNCHANGED <<s_cluster, s_algo, s_lms_last, s_tp, up, cvote>>
    BY <1>6, <2>1 DEF MembershipList
  <2>3. t \in Tables
    BY <1>6, <1>slot, <1>types, StoreMembershipType DEF MembershipList, Reports
  <2> HIDE DEF s, t
  <2>4. sess' \in [Conns -> Session]
    BY <2>1, <2>2, <1>types
  <2>5. PushTypes'
    BY <2>2, <2>3, RecomputeIfCompleteType
  <2>6. QED BY <2>2, <2>3, <2>4, <2>5, <1>types, ReportStepTypes
<1>7. ASSUME NEW h \in Heurs, HeuristicsChange(c, h) PROVE TypeOK'
  <2> DEFINE t == [ff EXCEPT ![i].heur = h]
  <2>1. /\ ff' = t
        /\ RecomputeIfComplete(sess[c], t)
        /\ UNCHANGED <<sess, s_cluster, s_algo, s_lms_last, s_tp, up, cvote>>
    BY <1>7 DEF HeuristicsChange
  <2>2. h \in Heuristics
    BY <1>7 DEF HeuristicsChange, Heuristics
  <2>3. t \in Tables
    BY <1>7, <2>2, <1>slot, <1>types, FieldTypes DEF HeuristicsChange, Reports
  <2> HIDE DEF t
  <2>4. PushTypes'
    BY <2>1, <2>3, RecomputeIfCompleteType
  <2>5. QED BY <2>1, <2>3, <2>4, <1>types, ReportStepTypes
<1>8. ASSUME NEW kap \in Kaps, SetOption(c, kap) PROVE TypeOK'
  <2>1. ff' \in Tables
    BY <1>8, <1>slot, <1>types, FieldTypes DEF SetOption, Reports
  <2>2. PushTypes'
    BY <1>8 DEF SetOption, pushVars, PushTypes
  <2>3. QED BY <1>8, <2>1, <2>2, <1>types, ReportStepTypes DEF SetOption
<1>9. ASSUME NEW v \in Views, NEW h \in Heurs, LmsMembershipList(c, v, h)
      PROVE TypeOK'
  <2> DEFINE t == StoreMembership(ff, i, v, h)
  <2>1. i \in Slots
    BY <1>9, <1>slot DEF LmsMembershipList, Reports
  <2>2. /\ sess' = [sess EXCEPT ![c].has_memb = TRUE]
        /\ ff' = t
        /\ LmsDecideAndRefresh(c, t)
        /\ UNCHANGED <<s_cluster, s_algo, s_tp, up, cvote,
                       quorate, s_decided, s_st, s_phase>>
    BY <1>9 DEF LmsMembershipList
  <2>3. t \in Tables
    BY <2>1, <1>types, StoreMembershipType
  <2> HIDE DEF t
  <2>4. sess' \in [Conns -> Session]
    BY <2>2, <1>types DEF Session
  <2>5. /\ s_lms_last' \in [Slots -> LmsResults]
        /\ s_seq' \in [Slots -> Seqs]
        /\ down' \in Queues
    BY <2>1, <2>2, <1>types, LmsDecideAndRefreshType
  <2>6. PushTypes'
    BY <2>2, <2>5 DEF PushTypes
  <2>7. QED BY <2>2, <2>3, <2>4, <2>5, <2>6, ReportStepTypes
<1>10. CASE LmsQuorumList(c)
  <2> DEFINE vote == LmsVote(ff, i, s_lms_last)
             last == [s_lms_last EXCEPT ![i] = LmsSaved(ff, i, s_lms_last)]
  <2>1. i \in Slots
    BY <1>10, <1>slot DEF LmsQuorumList, Reports
  <2>2. /\ s_lms_last' = last
        /\ down' = WithReply(c, vote)
        /\ UNCHANGED <<sess, s_cluster, s_algo, ff, s_tp, up, cvote,
                       quorate, s_decided, s_st, s_seq, s_phase>>
    BY <1>10 DEF LmsQuorumList
  <2>3. last \in [Slots -> LmsResults] /\ vote \in {"WAIT", "ACK", "NACK"}
    BY <2>1, <1>types, LmsTypes
  <2> HIDE DEF vote, last
  <2>4. down' \in Queues
    BY <2>2, <2>3, <1>types, WithReplyType
  <2>5. PushTypes'
    BY <2>2, <2>4 DEF PushTypes
  <2>6. QED BY <2>2, <2>3, <2>5, <1>types, ReportStepTypes
<1>11. CASE AskForVote(c)
  <2>1. /\ i \in Slots
        /\ LmsDecideAndRefresh(c, ff)
        /\ UNCHANGED <<sess, s_cluster, s_algo, ff, s_tp, up, cvote,
                       quorate, s_decided, s_st, s_phase>>
    BY <1>11, <1>slot DEF AskForVote, Reports
  <2>2. /\ s_lms_last' \in [Slots -> LmsResults]
        /\ s_seq' \in [Slots -> Seqs]
        /\ down' \in Queues
    BY <2>1, <1>types, LmsDecideAndRefreshType
  <2>3. PushTypes'
    BY <2>1, <2>2 DEF PushTypes
  <2>4. QED BY <2>1, <2>2, <2>3, <1>types, ReportStepTypes
<1>12. CASE VoteInfoReply(c)
  <2>1. /\ up[c] # <<>>
        /\ up' = [up EXCEPT ![c] = Tail(up[c])]
        /\ UNCHANGED <<sess, s_cluster, s_algo, ff, s_lms_last, s_tp, cvote,
                       quorate, s_decided>>
    BY <1>12 DEF VoteInfoReply, RestTypes
  <2>2. up' \in [Conns -> Seq(Seqs)]
    <3>1. up[c] \in Seq(Seqs) /\ up \in [Conns -> Seq(Seqs)]
      BY DEF RestTypes
    <3>2. Tail(up[c]) \in Seq(Seqs)
      BY <2>1, <3>1
    <3>3. QED BY <2>1, <3>1, <3>2
  <2>3. PushTypes'
    <3>1. CASE AdvancePhase([s_st EXCEPT ![i] = Idle])
      <4>1. s_st \in [Slots -> 0 .. 4] /\ Idle \in 0 .. 4
        BY DEF PushTypes, Idle
      <4>2. [s_st EXCEPT ![i] = Idle] \in [Slots -> 0 .. 4]
        BY <4>1
      <4>3. QED BY <2>1, <3>1, <4>2, AdvancePhaseType
    <3>2. CASE UNCHANGED <<s_st, s_seq, s_phase, down>>
      BY <2>1, <3>2 DEF PushTypes
    <3>3. QED BY <1>12, <3>1, <3>2, Zenon DEF VoteInfoReply
  <2>4. RestTypes'
    BY <2>1, <2>2 DEF RestTypes
  <2>5. QED BY <2>3, <2>4
<1>13. CASE ClientRecv(c)
  <2> DEFINE m == Head(down[c])
  <2>1. /\ down[c] # <<>>
        /\ down' = [down EXCEPT ![c] = Tail(down[c])]
        /\ cvote' = [cvote EXCEPT ![c] = m.vote]
        /\ up' = IF m.kind = "VOTE_INFO"
                 THEN [up EXCEPT ![c] = Append(up[c], m.seq)] ELSE up
        /\ UNCHANGED <<sess, s_cluster, s_algo, ff, s_lms_last, s_tp,
                       quorate, s_decided, s_st, s_seq, s_phase>>
    BY <1>13, <1>types DEF ClientRecv, Queues, RestTypes
  <2>2. down[c] \in Seq(Message)
    BY <1>types DEF Queues
  <2>3. m \in Message /\ Tail(down[c]) \in Seq(Message)
    BY <2>1, <2>2
  <2> HIDE DEF m
  <2>4. m.seq \in Seqs /\ m.vote \in {"ACK", "NACK"}
    BY <2>3 DEF Message, Seqs
  <2>5. down' \in Queues
    BY <2>1, <2>3, <1>types DEF Queues
  <2>6. up' \in [Conns -> Seq(Seqs)]
    <3>1. up \in [Conns -> Seq(Seqs)] /\ up[c] \in Seq(Seqs)
      BY DEF RestTypes
    <3>2. Append(up[c], m.seq) \in Seq(Seqs)
      BY <2>4, <3>1
    <3>3. QED BY <2>1, <3>1, <3>2
  <2>7. cvote' \in [Conns -> {"NONE", "ACK", "NACK"}]
    BY <2>1, <2>4 DEF RestTypes
  <2>8. PushTypes'
    BY <2>1, <2>5 DEF PushTypes
  <2>9. RestTypes'
    BY <2>1, <2>6, <2>7 DEF RestTypes
  <2>10. QED BY <2>8, <2>9
<1>14. CASE Break(c)
  <2>1. sess' \in [Conns -> Session]
    BY <1>14, <1>types DEF Break, Session
  <2>2. QED BY <1>14, <2>1, <1>types, SessionStepTypes DEF Break
<1>15. CASE LeaveHandshake(c)
  <2>1. FreeSession \in Session
    BY DEF FreeSession, Session, NoName, NoNode, NoSlot
  <2>2. \A S : <<>> \in Seq(S)
    OBVIOUS
  <2>3. UNCHANGED <<s_cluster, s_algo, ff, s_lms_last, s_tp,
                    quorate, s_decided, s_st, s_seq, s_phase>>
    BY <1>15 DEF LeaveHandshake
  <2>4. sess' \in [Conns -> Session]
    BY <1>15, <2>1, <1>types DEF LeaveHandshake, Hangup
  <2>5. up' \in [Conns -> Seq(Seqs)]
    BY <1>15, <2>2 DEF LeaveHandshake, Hangup, RestTypes
  <2>6. cvote' \in [Conns -> {"NONE", "ACK", "NACK"}]
    BY <1>15 DEF LeaveHandshake, Hangup, RestTypes
  <2>7. down' \in Queues
    BY <1>15, <2>2, <1>types DEF LeaveHandshake, Drained, Queues
  <2>8. PushTypes'
    BY <2>3, <2>7 DEF PushTypes
  <2>9. RestTypes'
    BY <2>3, <2>4, <2>5, <2>6 DEF RestTypes
  <2>10. QED BY <2>8, <2>9
<1>16. CASE LeaveLast(c)
  <2>1. ReleaseSlot(c)
    BY <1>16 DEF LeaveLast
  <2>2. /\ s_lms_last' = [s_lms_last EXCEPT ![i] = "NEW"]
        /\ s_algo' \in {"NONE", s_algo}
        /\ quorate' = {} /\ s_decided' = FALSE /\ s_phase' = 0
        /\ down' = Drained(c)
        /\ UNCHANGED <<s_st, s_seq>>
    BY <1>16, Zenon DEF LeaveLast, AlgoAfterLeave
  <2>3. s_lms_last' \in [Slots -> LmsResults]
    BY <2>2, <1>types DEF LmsResults
  <2>4. PushTypes'
    <3>1. s_decided' \in BOOLEAN /\ quorate' \in SUBSET NodeIds
      BY <2>2, Zenon
    <3>2. s_phase' \in 0 .. 2
      BY <2>2
    <3>3. QED BY <2>1, <2>2, <3>1, <3>2, ReleaseTypes DEF PushTypes
  <2>5. s_algo' \in {"NONE", "FFSPLIT", "LMS"}
    BY <2>2 DEF RestTypes
  <2>6. RestTypes'
    BY <2>1, <2>3, <2>5, <1>types, ReleaseTypes DEF RestTypes
  <2>7. QED BY <2>4, <2>6
<1>17. CASE LeaveFFSplit(c)
  <2> DEFINE t == Remove(ff, i)
             tp == [s_tp EXCEPT ![i] = NoConn]
  <2>1. ReleaseSlot(c)
    BY <1>17 DEF LeaveFFSplit
  <2>2. /\ s_lms_last' = [s_lms_last EXCEPT ![i] = "NEW"]
        /\ s_algo' \in {"NONE", s_algo}
        /\ Recompute(t, tp, Drained(c))
        /\ ff' = t
    BY <1>17, Zenon DEF LeaveFFSplit, AlgoAfterLeave, ReleaseSlot
  <2> HIDE DEF t, tp
  <2>3. s_lms_last' \in [Slots -> LmsResults]
    BY <2>2, <1>types DEF LmsResults
  <2>4. PushTypes'
    <3>1. t \in Tables /\ Drained(c) \in Queues
      BY <2>1, <2>2, ReleaseTypes
    <3>2. QED BY <2>2, <3>1, RecomputeType
  <2>5. s_algo' \in {"NONE", "FFSPLIT", "LMS"}
    BY <2>2 DEF RestTypes
  <2>6. RestTypes'
    BY <2>1, <2>3, <2>5, <1>types, ReleaseTypes DEF RestTypes
  <2>7. QED BY <2>4, <2>6
<1>18. CASE LeaveLms(c)
  <2> DEFINE t == Remove(ff, i)
             tp == [s_tp EXCEPT ![i] = NoConn]
             last == [s_lms_last EXCEPT ![i] = "NEW"]
  <2>1. ReleaseSlot(c)
    BY <1>18 DEF LeaveLms
  <2>2. /\ s_algo' \in {"NONE", s_algo}
        /\ Refresh(t, tp, last, {}, Drained(c))
        /\ UNCHANGED <<quorate, s_decided, s_st, s_phase>>
    BY <1>18, Zenon DEF LeaveLms, AlgoAfterLeave
  <2>3. last \in [Slots -> LmsResults]
    BY <1>types DEF LmsResults
  <2> HIDE DEF t, tp, last
  <2>4. /\ s_lms_last' \in [Slots -> LmsResults]
        /\ s_seq' \in [Slots -> Seqs]
        /\ down' \in Queues
    BY <2>1, <2>2, <2>3, ReleaseTypes, RefreshType DEF PushTypes
  <2>5. PushTypes'
    BY <2>2, <2>4 DEF PushTypes
  <2>6. s_algo' \in {"NONE", "FFSPLIT", "LMS"}
    BY <2>2 DEF RestTypes
  <2>7. RestTypes'
    BY <2>1, <2>4, <2>6, <1>types, ReleaseTypes DEF RestTypes
  <2>8. QED BY <2>5, <2>7
<1>19. QED
  BY <1>0, <1>1, <1>2, <1>3, <1>4, <1>5, <1>6, <1>7, <1>8, <1>9, <1>10,
     <1>11, <1>12, <1>13, <1>14, <1>15, <1>16, <1>17, <1>18

-----------------------------------------------------------------------------
(* Who owns which slot *)

(* What a session with a slot can rely on while no node has two sessions.  *)
OwnSlots ==
    \A c \in Conns : sess[c].ff_idx # NoSlot =>
      /\ sess[c].ff_idx \in Used(ff)
      /\ s_tp[sess[c].ff_idx] = c
      /\ ff[sess[c].ff_idx].node_id = sess[c].node
      /\ sess[c].algo = s_algo

(* The inductive invariant. *)
SlotInv ==
    /\ ActiveHasSlot
    /\ SlotsAccounted
    /\ NodeIdsUnique
    /\ AlgoBoundWhileUsed
    /\ ~AllowOverlap => OwnSlots

(* A step that neither takes nor frees a slot. *)
SlotFrame ==
    /\ \A d \in Conns :
         /\ sess'[d].node = sess[d].node
         /\ sess'[d].algo = sess[d].algo
         /\ sess'[d].ff_idx = sess[d].ff_idx
         /\ sess'[d].st = "ACTIVE" => sess[d].st = "ACTIVE"
         /\ sess[d].st \in {"ACTIVE", "CLOSING"} =>
              sess'[d].st \in {"ACTIVE", "CLOSING"}
    /\ Used(ff') = Used(ff)
    /\ \A i \in Slots : ff'[i].node_id = ff[i].node_id
    /\ UNCHANGED <<s_tp, s_algo>>

LEMMA SlotFrameKeeps ==
    ASSUME TypeOK, SlotInv, SlotFrame
    PROVE  SlotInv'
<1>1. Used(ff) \subseteq Slots
  BY DEF Used
<1>2. ActiveHasSlot'
  BY DEF SlotInv, SlotFrame, ActiveHasSlot
<1>3. SlotsAccounted'
  BY <1>1 DEF SlotInv, SlotFrame, SlotsAccounted
<1>4. NodeIdsUnique'
  BY <1>1 DEF SlotInv, SlotFrame, NodeIdsUnique
<1>5. AlgoBoundWhileUsed'
  BY DEF SlotInv, SlotFrame, AlgoBoundWhileUsed
<1>6. ~AllowOverlap => OwnSlots'
  BY <1>1 DEF SlotInv, SlotFrame, OwnSlots
<1>7. QED BY <1>2, <1>3, <1>4, <1>5, <1>6 DEF SlotInv

(* Storing a report touches neither used nor node_id. *)
LEMMA StoreFrame ==
    ASSUME NEW t \in Tables, NEW i \in Slots, NEW v, NEW h
    PROVE  /\ Used(StoreMembership(t, i, v, h)) = Used(t)
           /\ \A j \in Slots :
                StoreMembership(t, i, v, h)[j].node_id = t[j].node_id
BY DEF StoreMembership, Used, Tables, Client

(* INIT takes the node's slot, or a free one. *)
LEMMA InitMsgSlots ==
    ASSUME TypeOK, SlotInv, NEW c \in Conns, NEW n \in NodeIds,
           NEW algo \in Algos, NEW tb \in TieBreakers, InitMsg(c, n, algo, tb)
    PROVE  SlotInv'
<1> USE TypeParts
<1> DEFINE i == SlotFor(ff, n)
           s == [sess[c] EXCEPT !.node = n, !.algo = algo]
<1>1. /\ i \in Slots \cup {NoSlot}
      /\ i # NoSlot => \/ i \in SlotsOf(ff, n)
                       \/ i \in Slots \ Used(ff) /\ SlotsOf(ff, n) = {}
  BY SlotForType
<1>2. /\ sess \in [Conns -> Session] /\ sess[c] \in Session
      /\ ff \in Tables /\ s_tp \in [Slots -> Conns \cup {NoConn}]
  BY DEF RestTypes
<1>3. sess[c].ff_idx = NoSlot
  <2>1. sess[c].st = "PREINIT_DONE"
    BY DEF InitMsg
  <2>2. QED BY <2>1 DEF SlotInv, ActiveHasSlot
<1>4. \A j \in Used(ff) : s_tp[j] # c
  BY <1>3, NoSlotIsNoSlot DEF SlotInv, SlotsAccounted, Used
<1>5. CASE i = NoSlot
  <2>1. /\ sess' = [sess EXCEPT ![c] = [s EXCEPT !.st = "CLOSING"]]
        /\ UNCHANGED <<ff, s_tp, s_algo>>
    BY <1>5, Zenon DEF InitMsg
  <2>2. /\ sess'[c].ff_idx = NoSlot /\ sess'[c].st = "CLOSING"
        /\ \A d \in Conns \ {c} : sess'[d] = sess[d]
    BY <2>1, <1>2, <1>3 DEF Session
  <2>3. ActiveHasSlot'
    BY <2>2 DEF SlotInv, ActiveHasSlot
  <2>4. SlotsAccounted'
    BY <2>1, <2>2, <1>4 DEF SlotInv, SlotsAccounted
  <2>5. NodeIdsUnique' /\ AlgoBoundWhileUsed'
    BY <2>1 DEF SlotInv, NodeIdsUnique, AlgoBoundWhileUsed
  <2>6. ~AllowOverlap => OwnSlots'
    BY <2>1, <2>2 DEF SlotInv, OwnSlots
  <2>7. QED BY <2>3, <2>4, <2>5, <2>6 DEF SlotInv
<1>6. CASE i # NoSlot
  <2>0. i \in Slots
    BY <1>1, <1>6
  <2>1. /\ sess' = [sess EXCEPT ![c] =
                      [s EXCEPT !.st = "ACTIVE", !.ff_idx = i,
                                !.has_config = FALSE, !.has_memb = FALSE]]
        /\ ff' = [Allocate(ff, n, i) EXCEPT ![i].tb_mode = tb.mode,
                                            ![i].tb_node = tb.node,
                                            ![i].heur = "UNDEFINED"]
        /\ s_tp' = [s_tp EXCEPT ![i] = c]
        /\ s_algo' = algo
    BY <1>6, Zenon DEF InitMsg
  <2>2. /\ sess'[c].ff_idx = i /\ sess'[c].st = "ACTIVE"
        /\ sess'[c].node = n /\ sess'[c].algo = algo
        /\ \A d \in Conns \ {c} : sess'[d] = sess[d]
    <3> HIDE DEF i
    <3>1. QED BY <2>1, <1>2 DEF Session
  <2>3. /\ Used(ff') = Used(ff) \cup {i}
        /\ ff'[i].node_id = n
        /\ \A j \in Slots \ {i} : ff'[j].node_id = ff[j].node_id
    <3> DEFINE u == Allocate(ff, n, i)
    <3>1. /\ u \in Tables /\ u[i].used /\ u[i].node_id = n
          /\ \A j \in Slots \ {i} : u[j] = ff[j]
      <4>1. CASE ff[i].used
        <5>1. i \in SlotsOf(ff, n)
          BY <4>1, <1>1, <1>6 DEF Used
        <5> HIDE DEF i
        <5>2. QED BY <4>1, <5>1, <1>2 DEF Allocate, SlotsOf
      <4>2. CASE ~ ff[i].used
        <5> HIDE DEF i
        <5>1. u = [ff EXCEPT ![i] = [ZeroClient EXCEPT !.used = TRUE,
                                                       !.node_id = n]]
          BY <4>2 DEF Allocate
        <5>2. /\ [ZeroClient EXCEPT !.used = TRUE, !.node_id = n] \in Client
              /\ [ZeroClient EXCEPT !.used = TRUE, !.node_id = n].used
              /\ [ZeroClient EXCEPT !.used = TRUE, !.node_id = n].node_id = n
          BY ZeroClientType DEF Client
        <5>3. QED BY <5>1, <5>2, <2>0, <1>2 DEF Tables
      <4>3. QED BY <4>1, <4>2
    <3>2. ff' = [u EXCEPT ![i].tb_mode = tb.mode, ![i].tb_node = tb.node,
                          ![i].heur = "UNDEFINED"]
      BY <2>1, Zenon
    <3> HIDE DEF u, i
    <3>3. \A j \in Slots : /\ ff'[j].used = u[j].used
                           /\ ff'[j].node_id = u[j].node_id
      BY <2>0, <3>1, <3>2 DEF Tables, Client
    <3>4. QED BY <2>0, <3>1, <3>3 DEF Used
  <2>4. s_tp'[i] = c /\ \A j \in Slots \ {i} : s_tp'[j] = s_tp[j]
    <3> HIDE DEF i
    <3>1. QED BY <2>0, <2>1, <1>2
  <2>5. Used(ff) \subseteq Slots /\ NoSlot \notin Slots
    BY NoSlotIsNoSlot DEF Used
  <2>6. \A j \in Used(ff) : ff[j].node_id = n => j = i
    <3>1. CASE i \in SlotsOf(ff, n)
      BY <3>1 DEF SlotInv, NodeIdsUnique, SlotsOf
    <3>2. CASE SlotsOf(ff, n) = {}
      BY <3>2 DEF SlotsOf
    <3>3. QED BY <1>1, <1>6, <3>1, <3>2
  <2>7. algo # "NONE"
    BY AlgosAssumption
  <2> HIDE DEF i, s
  <2>8. ActiveHasSlot'
    BY <2>0, <2>2 DEF SlotInv, ActiveHasSlot
  <2>9. SlotsAccounted'
    BY <2>0, <2>2, <2>3, <2>4, <2>5, <1>4 DEF SlotInv, SlotsAccounted
  <2>10. NodeIdsUnique'
    BY <2>0, <2>3, <2>5, <2>6 DEF SlotInv, NodeIdsUnique
  <2>11. AlgoBoundWhileUsed'
    BY <2>1, <2>3, <2>7 DEF AlgoBoundWhileUsed
  <2>12. ASSUME ~AllowOverlap PROVE OwnSlots'
    <3>1. n \notin OtherNodes(c) /\ s_algo \in {"NONE", algo}
      BY <2>12 DEF InitMsg
    <3>2. OwnSlots
      BY <2>12 DEF SlotInv
    <3>3. ASSUME NEW d \in Conns, d # c, sess[d].ff_idx # NoSlot
          PROVE  /\ sess[d].ff_idx # i
                 /\ s_algo = algo
      <4>1. /\ sess[d].ff_idx \in Used(ff)
            /\ ff[sess[d].ff_idx].node_id = sess[d].node
        BY <3>2, <3>3 DEF OwnSlots
      <4>2. sess[d].node # n
        BY <3>1, <3>3 DEF OtherNodes
      <4>3. sess[d].ff_idx # i
        <5>1. CASE i \in SlotsOf(ff, n)
          BY <4>1, <4>2, <5>1 DEF SlotsOf
        <5>2. CASE i \in Slots \ Used(ff)
          BY <4>1, <5>2
        <5>3. QED BY <1>1, <1>6, <5>1, <5>2 DEF i
      <4>4. s_algo # "NONE"
        BY <4>1 DEF SlotInv, AlgoBoundWhileUsed
      <4>5. QED BY <3>1, <4>3, <4>4
    <3>4. ASSUME NEW d \in Conns, sess'[d].ff_idx # NoSlot
          PROVE  /\ sess'[d].ff_idx \in Used(ff')
                 /\ s_tp'[sess'[d].ff_idx] = d
                 /\ ff'[sess'[d].ff_idx].node_id = sess'[d].node
                 /\ sess'[d].algo = s_algo'
      <4>1. CASE d = c
        BY <4>1, <2>1, <2>2, <2>3, <2>4
      <4>2. CASE d # c
        <5>1. sess'[d] = sess[d]
          BY <4>2, <2>2
        <5>2. sess[d].ff_idx # i /\ s_algo = algo
          BY <3>3, <3>4, <4>2, <5>1
        <5>3. /\ sess[d].ff_idx \in Used(ff)
              /\ s_tp[sess[d].ff_idx] = d
              /\ ff[sess[d].ff_idx].node_id = sess[d].node
              /\ sess[d].algo = s_algo
          BY <3>2, <3>4, <5>1 DEF OwnSlots
        <5>4. QED BY <5>1, <5>2, <5>3, <2>1, <2>3, <2>4, <2>5
      <4>3. QED BY <4>1, <4>2
    <3>5. QED BY <3>4 DEF OwnSlots
  <2>13. QED BY <2>8, <2>9, <2>10, <2>11, <2>12 DEF SlotInv
<1>7. QED BY <1>5, <1>6

(* INIT leaves the other slots alone; a slot it takes over keeps what its  *)
(* node reported, a fresh one has no ring and no membership.               *)
LEMMA InitMsgTable ==
    ASSUME TypeOK, NEW c \in Conns, NEW n \in NodeIds, NEW algo \in Algos,
           NEW tb \in TieBreakers, InitMsg(c, n, algo, tb),
           SlotFor(ff, n) # NoSlot
    PROVE  LET i == SlotFor(ff, n)
           IN  /\ i \in Slots /\ ff[i].used \in BOOLEAN
               /\ ff'[i].used
               /\ \A j \in Slots \ {i} : ff'[j] = ff[j]
               /\ ff[i].used => /\ ff'[i].node_id = ff[i].node_id
                                /\ ff'[i].memb = ff[i].memb
                                /\ ff'[i].ring = ff[i].ring
                                /\ ff'[i].cfg = ff[i].cfg
               /\ ~ff[i].used => /\ ff'[i].memb = {} /\ ff'[i].ring = NoRing
                                 /\ ff'[i].cfg = {}
               /\ ff'[i].tb_mode = tb.mode /\ ff'[i].tb_node = tb.node
<1> DEFINE i == SlotFor(ff, n)
           u == Allocate(ff, n, i)
<1>1. i \in Slots /\ ff \in Tables
  BY SlotForType, TypeParts DEF RestTypes
<1>2. ff' = [u EXCEPT ![i].tb_mode = tb.mode, ![i].tb_node = tb.node,
                      ![i].heur = "UNDEFINED"]
  BY Zenon DEF InitMsg
<1> HIDE DEF i
<1>3. u \in Tables /\ \A j \in Slots \ {i} : u[j] = ff[j]
  <2>1. [ZeroClient EXCEPT !.used = TRUE, !.node_id = n] \in Client
    BY ZeroClientType DEF Client
  <2>2. QED BY <1>1, <2>1 DEF Allocate, Tables
<1>4. ff[i].used \in BOOLEAN
  BY <1>1 DEF Tables, Client
<1>5. ff[i].used => u = ff
  BY DEF Allocate
<1>6. ~ff[i].used => /\ u[i].used /\ u[i].memb = {} /\ u[i].ring = NoRing
                     /\ u[i].cfg = {}
  BY <1>1 DEF Allocate, ZeroClient, Tables
<1> HIDE DEF u
<1>7. /\ \A j \in Slots \ {i} : ff'[j] = u[j]
      /\ ff'[i].used = u[i].used /\ ff'[i].node_id = u[i].node_id
      /\ ff'[i].memb = u[i].memb /\ ff'[i].ring = u[i].ring
      /\ ff'[i].cfg = u[i].cfg
      /\ ff'[i].tb_mode = tb.mode /\ ff'[i].tb_node = tb.node
  BY <1>1, <1>2, <1>3 DEF Tables, Client
<1>8. QED BY <1>1, <1>3, <1>4, <1>5, <1>6, <1>7 DEF i

(* The end of a session frees its slot and no other. *)
LEMMA ReleaseSlots ==
    ASSUME TypeOK, SlotInv, NEW c \in Conns, ReleaseSlot(c),
           s_algo' = AlgoAfterLeave(ff')
    PROVE  SlotInv'
<1> USE TypeParts
<1> DEFINE i == sess[c].ff_idx
<1>1. /\ sess \in [Conns -> Session]
      /\ ff \in Tables /\ s_tp \in [Slots -> Conns \cup {NoConn}]
      /\ i \in Slots
  BY ReleaseTypes DEF RestTypes
<1>2. /\ ff' = Remove(ff, i)
      /\ s_tp' = [s_tp EXCEPT ![i] = NoConn]
      /\ sess' = [sess EXCEPT ![c] = FreeSession]
      /\ sess[c].st = "CLOSING"
  BY Zenon DEF ReleaseSlot, Hangup
<1>3. /\ sess'[c].ff_idx = NoSlot /\ sess'[c].st = "FREE"
      /\ \A d \in Conns \ {c} : sess'[d] = sess[d]
  BY <1>1, <1>2 DEF FreeSession
<1> HIDE DEF i
<1>4. /\ Used(ff') = Used(ff) \ {i}
      /\ \A j \in Slots : ff'[j].node_id = ff[j].node_id
  <2>1. Used(ff') = Used(ff) \ {i}
    BY <1>1, <1>2, RemoveType
  <2>2. \A j \in Slots : ff'[j].node_id = ff[j].node_id
    BY <1>1, <1>2 DEF Remove, Tables, Client
  <2>3. QED BY <2>1, <2>2
<1>5. \A j \in Slots \ {i} : s_tp'[j] = s_tp[j]
  BY <1>1, <1>2
<1>6. Used(ff) \subseteq Slots /\ NoSlot \notin Slots
  BY NoSlotIsNoSlot DEF Used
<1>7. ActiveHasSlot'
  BY <1>3 DEF SlotInv, ActiveHasSlot
<1>8. SlotsAccounted'
  <2>1. \A j \in Used(ff) \ {i} : s_tp[j] # c
    BY DEF SlotInv, SlotsAccounted, i
  <2>2. QED BY <2>1, <1>3, <1>4, <1>5, <1>6 DEF SlotInv, SlotsAccounted
<1>9. NodeIdsUnique'
  BY <1>4, <1>6 DEF SlotInv, NodeIdsUnique
<1>10. AlgoBoundWhileUsed'
  BY <1>4 DEF SlotInv, AlgoBoundWhileUsed, AlgoAfterLeave
<1>11. ASSUME ~AllowOverlap PROVE OwnSlots'
  <2>1. OwnSlots
    BY <1>11 DEF SlotInv
  <2>2. ASSUME NEW d \in Conns, sess'[d].ff_idx # NoSlot
        PROVE  /\ sess'[d].ff_idx \in Used(ff')
               /\ s_tp'[sess'[d].ff_idx] = d
               /\ ff'[sess'[d].ff_idx].node_id = sess'[d].node
               /\ sess'[d].algo = s_algo'
    <3>1. d # c /\ sess'[d] = sess[d]
      BY <1>3, <2>2
    <3>2. /\ sess[d].ff_idx \in Used(ff)
          /\ s_tp[sess[d].ff_idx] = d
          /\ ff[sess[d].ff_idx].node_id = sess[d].node
          /\ sess[d].algo = s_algo
      BY <2>1, <2>2, <3>1 DEF OwnSlots
    <3>3. s_tp[i] = c
      BY <2>1, <1>1, <1>6 DEF OwnSlots, i
    <3>4. sess[d].ff_idx # i
      BY <3>1, <3>2, <3>3
    <3>5. sess[d].ff_idx \in Used(ff')
      BY <3>2, <3>4, <1>4
    <3>6. s_algo' = s_algo
      BY <3>5 DEF AlgoAfterLeave
    <3>7. QED BY <3>1, <3>2, <3>4, <3>5, <3>6, <1>4, <1>5, <1>6
  <2>3. QED BY <2>2 DEF OwnSlots
<1>12. QED BY <1>7, <1>8, <1>9, <1>10, <1>11 DEF SlotInv

(* A session that leaves during the handshake owns no slot. *)
LEMMA LeaveHandshakeSlots ==
    ASSUME TypeOK, SlotInv, NEW c \in Conns, LeaveHandshake(c)
    PROVE  SlotInv'
<1>1. /\ sess' = [sess EXCEPT ![c] = FreeSession]
      /\ sess[c].ff_idx = NoSlot
      /\ UNCHANGED <<ff, s_tp, s_algo>>
  BY DEF LeaveHandshake, Hangup
<1>2. /\ sess'[c].ff_idx = NoSlot /\ sess'[c].st = "FREE"
      /\ \A d \in Conns \ {c} : sess'[d] = sess[d]
  BY <1>1, TypeParts DEF FreeSession, RestTypes
<1>3. ActiveHasSlot'
  BY <1>2 DEF SlotInv, ActiveHasSlot
<1>4. SlotsAccounted'
  BY <1>1, <1>2, NoSlotIsNoSlot DEF SlotInv, SlotsAccounted, Used
<1>5. NodeIdsUnique' /\ AlgoBoundWhileUsed'
  BY <1>1 DEF SlotInv, NodeIdsUnique, AlgoBoundWhileUsed
<1>6. ~AllowOverlap => OwnSlots'
  BY <1>1, <1>2 DEF SlotInv, OwnSlots
<1>7. QED BY <1>3, <1>4, <1>5, <1>6 DEF SlotInv

(* Reports, deliveries and the handshake before INIT leave slots alone.    *)
LEMMA FrameSteps ==
    ASSUME TypeOK, SlotInv, NEW c \in Conns,
           \/ Connect(c) \/ Break(c)
           \/ \E name \in Names : Preinit(c, name) \/ PreinitRefused(c, name)
           \/ \E cfg \in Configs : ConfigList(c, cfg)
           \/ \E v \in Views, h \in Heurs : MembershipList(c, v, h)
           \/ \E h \in Heurs : HeuristicsChange(c, h)
           \/ \E kap \in Kaps : SetOption(c, kap)
           \/ \E v \in Views, h \in Heurs : LmsMembershipList(c, v, h)
           \/ LmsQuorumList(c) \/ AskForVote(c)
           \/ VoteInfoReply(c) \/ ClientRecv(c)
    PROVE  SlotFrame
<1>types. sess \in [Conns -> Session] /\ sess[c] \in Session /\ ff \in Tables
  BY TypeParts DEF RestTypes
<1>slot. sess[c].st = "ACTIVE" => sess[c].ff_idx \in Slots
  BY DEF SlotInv, ActiveHasSlot
<1>1. ASSUME NEW cfg \in Configs, ConfigList(c, cfg) PROVE SlotFrame
  <2>1. /\ sess' = [sess EXCEPT ![c] = [sess[c] EXCEPT !.has_config = TRUE]]
        /\ sess[c].st = "ACTIVE"
        /\ ff' = [ff EXCEPT ![sess[c].ff_idx].cfg = cfg]
        /\ UNCHANGED <<s_tp, s_algo>>
    BY <1>1, <1>types DEF ConfigList, Reports, Session
  <2>2. /\ Used(ff') = Used(ff)
        /\ \A i \in Slots : ff'[i].node_id = ff[i].node_id
    BY <2>1, <1>types, <1>slot DEF Used, Tables, Client
  <2>3. QED BY <2>1, <2>2, <1>types DEF SlotFrame, Session
<1>2. ASSUME NEW v \in Views, NEW h \in Heurs, MembershipList(c, v, h)
      PROVE  SlotFrame
  <2>1. /\ sess' = [sess EXCEPT ![c] = [sess[c] EXCEPT !.has_memb = TRUE]]
        /\ sess[c].st = "ACTIVE"
        /\ ff' = StoreMembership(ff, sess[c].ff_idx, v, h)
        /\ UNCHANGED <<s_tp, s_algo>>
    BY <1>2, <1>types DEF MembershipList, Reports, Session
  <2>2. /\ Used(ff') = Used(ff)
        /\ \A i \in Slots : ff'[i].node_id = ff[i].node_id
    BY <2>1, <1>types, <1>slot, StoreFrame
  <2>3. QED BY <2>1, <2>2, <1>types DEF SlotFrame, Session
<1>3. ASSUME NEW h \in Heurs, HeuristicsChange(c, h) PROVE SlotFrame
  <2>1. /\ sess[c].st = "ACTIVE"
        /\ ff' = [ff EXCEPT ![sess[c].ff_idx].heur = h]
        /\ UNCHANGED <<sess, s_tp, s_algo>>
    BY <1>3 DEF HeuristicsChange, Reports
  <2>2. /\ Used(ff') = Used(ff)
        /\ \A i \in Slots : ff'[i].node_id = ff[i].node_id
    BY <2>1, <1>types, <1>slot DEF Used, Tables, Client
  <2>3. QED BY <2>1, <2>2 DEF SlotFrame
<1>4. ASSUME NEW kap \in Kaps, SetOption(c, kap) PROVE SlotFrame
  <2>1. /\ sess[c].st = "ACTIVE"
        /\ ff' = [ff EXCEPT ![sess[c].ff_idx].kap = kap]
        /\ UNCHANGED <<sess, s_tp, s_algo>>
    BY <1>4 DEF SetOption, Reports
  <2>2. /\ Used(ff') = Used(ff)
        /\ \A i \in Slots : ff'[i].node_id = ff[i].node_id
    BY <2>1, <1>types, <1>slot DEF Used, Tables, Client
  <2>3. QED BY <2>1, <2>2 DEF SlotFrame
<1>5. ASSUME NEW v \in Views, NEW h \in Heurs, LmsMembershipList(c, v, h)
      PROVE  SlotFrame
  <2>1. /\ sess' = [sess EXCEPT ![c].has_memb = TRUE]
        /\ sess[c].st = "ACTIVE"
        /\ ff' = StoreMembership(ff, sess[c].ff_idx, v, h)
        /\ UNCHANGED <<s_tp, s_algo>>
    BY <1>5 DEF LmsMembershipList, Reports
  <2>2. /\ Used(ff') = Used(ff)
        /\ \A i \in Slots : ff'[i].node_id = ff[i].node_id
    BY <2>1, <1>types, <1>slot, StoreFrame
  <2>3. QED BY <2>1, <2>2, <1>types DEF SlotFrame, Session
<1>6. CASE UNCHANGED <<sess, ff, s_tp, s_algo>>
  BY <1>6 DEF SlotFrame
<1>7. LmsQuorumList(c) \/ AskForVote(c) \/ VoteInfoReply(c) \/ ClientRecv(c)
        => UNCHANGED <<sess, ff, s_tp, s_algo>>
  BY DEF LmsQuorumList, AskForVote, VoteInfoReply, ClientRecv
<1>8. CASE Connect(c)
  BY <1>8, <1>types DEF Connect, SlotFrame, Session
<1>9. CASE Break(c)
  BY <1>9, <1>types DEF Break, SlotFrame, Session
<1>10. ASSUME NEW name \in Names, Preinit(c, name) PROVE SlotFrame
  BY <1>10, <1>types DEF Preinit, SlotFrame, Session
<1>11. ASSUME NEW name \in Names, PreinitRefused(c, name) PROVE SlotFrame
  BY <1>11, <1>types DEF PreinitRefused, SlotFrame, Session
<1>12. QED
  BY <1>1, <1>2, <1>3, <1>4, <1>5, <1>6, <1>7, <1>8, <1>9, <1>10, <1>11

-----------------------------------------------------------------------------
LEMMA InitialSlots == Init => SlotInv
<1> SUFFICES ASSUME Init PROVE SlotInv
  OBVIOUS
<1>1. Used(ff) = {} /\ s_algo = "NONE"
  BY EmptyTableType DEF Init
<1>2. \A c \in Conns : sess[c].ff_idx = NoSlot /\ sess[c].st = "FREE"
  BY DEF Init, FreeSession
<1>3. SlotsAccounted /\ NodeIdsUnique /\ AlgoBoundWhileUsed
  BY <1>1 DEF SlotsAccounted, NodeIdsUnique, AlgoBoundWhileUsed
<1>4. ActiveHasSlot /\ OwnSlots
  BY <1>2 DEF ActiveHasSlot, OwnSlots
<1>5. QED BY <1>3, <1>4 DEF SlotInv

(* Every step keeps the slot invariant. *)
LEMMA SlotStep ==
    ASSUME TypeOK, SlotInv, [Next]_vars
    PROVE  SlotInv'
<1>1. CASE UNCHANGED vars
  <2>1. UNCHANGED <<sess, ff, s_tp, s_algo>>
    BY <1>1 DEF vars
  <2>2. SlotFrame
    BY <2>1 DEF SlotFrame
  <2>3. QED BY <2>2, SlotFrameKeeps
<1>2. ASSUME NEW c \in Conns, NEW n \in NodeIds, NEW algo \in Algos,
             NEW tb \in TieBreakers, InitMsg(c, n, algo, tb)
      PROVE  SlotInv'
  BY <1>2, InitMsgSlots
<1>3. ASSUME NEW c \in Conns, LeaveHandshake(c) PROVE SlotInv'
  BY <1>3, LeaveHandshakeSlots
<1>4. ASSUME NEW c \in Conns, LeaveLast(c) \/ LeaveFFSplit(c) \/ LeaveLms(c)
      PROVE  SlotInv'
  <2>1. ReleaseSlot(c) /\ s_algo' = AlgoAfterLeave(Remove(ff, sess[c].ff_idx))
    BY <1>4, Zenon DEF LeaveLast, LeaveFFSplit, LeaveLms
  <2>2. ff' = Remove(ff, sess[c].ff_idx)
    BY <2>1, Zenon DEF ReleaseSlot
  <2>3. s_algo' = AlgoAfterLeave(ff')
    BY <2>1, <2>2
  <2>4. QED BY <2>1, <2>3, ReleaseSlots
<1>5. ASSUME NEW c \in Conns,
             \/ Connect(c) \/ Break(c)
             \/ \E name \in Names : Preinit(c, name) \/ PreinitRefused(c, name)
             \/ \E cfg \in Configs : ConfigList(c, cfg)
             \/ \E v \in Views, h \in Heurs : MembershipList(c, v, h)
             \/ \E h \in Heurs : HeuristicsChange(c, h)
             \/ \E kap \in Kaps : SetOption(c, kap)
             \/ \E v \in Views, h \in Heurs : LmsMembershipList(c, v, h)
             \/ LmsQuorumList(c) \/ AskForVote(c)
             \/ VoteInfoReply(c) \/ ClientRecv(c)
      PROVE  SlotInv'
  BY <1>5, FrameSteps, SlotFrameKeeps
<1>6. QED BY <1>1, <1>2, <1>3, <1>4, <1>5, Zenon DEF Next

(* Every reachable state of the server is well typed and satisfies the     *)
(* slot invariant.                                                         *)
THEOREM SlotInvariant == Spec => [](TypeOK /\ SlotInv)
<1>1. Init => TypeOK /\ SlotInv
  BY InitialTypes, InitialSlots
<1>2. TypeOK /\ SlotInv /\ [Next]_vars => (TypeOK /\ SlotInv)'
  <2> SUFFICES ASSUME TypeOK, SlotInv, [Next]_vars PROVE TypeOK' /\ SlotInv'
    OBVIOUS
  <2>1. SlotInv'
    BY SlotStep
  <2>2. CASE Next
    BY <2>1, <2>2, TypeStep DEF SlotInv
  <2>3. CASE UNCHANGED vars
    BY <2>1, <2>3 DEF vars, pushVars, TypeOK
  <2>4. QED BY <2>2, <2>3
<1>3. QED BY <1>1, <1>2, PTL DEF Spec

(* TypeOK always holds; in particular a VOTE_INFO sequence number stays in *)
(* its 32 bits and a slot index inside the table.                          *)
THEOREM TypeCorrect == Spec => []TypeOK
<1>1. QED BY SlotInvariant, PTL

(* Every used slot belongs to a live session whose transport it points to: *)
(* also when a node's sessions overlap and when pushes fail (INIT, the     *)
(* epilogue of session_task).                                              *)
THEOREM SlotSafety == Spec => []SlotsAccounted
<1>1. SlotInv => SlotsAccounted
  BY DEF SlotInv
<1>2. QED BY <1>1, SlotInvariant, PTL

(* No node ever has two slots, however often it reconnects beside a        *)
(* session of its own (qesp_ff_slot reuses the slot of a known node).      *)
THEOREM OneSlotPerNode == Spec => []NodeIdsUnique
<1>1. SlotInv => NodeIdsUnique
  BY DEF SlotInv
<1>2. QED BY <1>1, SlotInvariant, PTL

(* The cluster is bound to an algorithm exactly while it has clients: the  *)
(* last session to leave, and no other, unbinds it.                        *)
THEOREM AlgoBinding == Spec => []AlgoBoundWhileUsed
<1>1. SlotInv => AlgoBoundWhileUsed
  BY DEF SlotInv
<1>2. QED BY <1>1, SlotInvariant, PTL

(* As long as a node reconnects only after its old session has ended, no   *)
(* session loses its slot or its algorithm to another one.                 *)
THEOREM SessionSafety ==
    ASSUME AllowOverlap = FALSE
    PROVE  Spec => [](SessionsIndependent /\ SessionsShareAlgo)
<1>1. TypeOK /\ SlotInv => SessionsIndependent /\ SessionsShareAlgo
  <2> SUFFICES ASSUME TypeOK, SlotInv
               PROVE  SessionsIndependent /\ SessionsShareAlgo
    OBVIOUS
  <2>1. OwnSlots
    BY DEF SlotInv
  <2>2. \A c \in Conns : sess[c].st = "ACTIVE" => sess[c].ff_idx # NoSlot
    BY NoSlotIsNoSlot DEF SlotInv, ActiveHasSlot
  <2>3. QED BY <2>1, <2>2 DEF OwnSlots, SessionsIndependent, SessionsShareAlgo
<1>2. QED BY <1>1, SlotInvariant, PTL

-----------------------------------------------------------------------------
(* LMS: nobody waits for nothing, and newcomers yield *)

(* No client is decided while its rings do not match, or nobody has one.   *)
Undecided(t, i) == ~RingsMatch(t, i) \/ LmsRings(t) = {}

(* qesp_lms_decide: the answer is WAIT exactly for an undecided client,    *)
(* whatever is saved, and WAIT is saved for no other.                      *)
LEMMA WaitMeansUndecided ==
    ASSUME NEW t, NEW i, NEW last
    PROVE  /\ LmsVote(t, i, last) = "WAIT" <=> Undecided(t, i)
           /\ LmsSaved(t, i, last) = "WAIT" => Undecided(t, i)
<1>1. \A b : Vote(b) # "WAIT"
  BY DEF Vote
<1>2. TieBreakVote(t, i) # "WAIT"
  BY <1>1 DEF TieBreakVote
<1>3. LmsVote(t, i, last) = "WAIT" <=> Undecided(t, i)
  BY <1>1, <1>2 DEF LmsVote, Undecided
<1>4. LmsSaved(t, i, last) = "WAIT" => LmsVote(t, i, last) = "WAIT"
  BY DEF LmsSaved, Newcomer
<1>5. QED BY <1>3, <1>4

(* lms_refresh_others: only waiting clients are decided again, and those   *)
(* that go on waiting have nothing to be decided by.                       *)
LEMMA RefreshResults ==
    ASSUME NEW t, NEW tp, NEW last \in [Slots -> LmsResults], NEW excl, NEW q,
           Refresh(t, tp, last, excl, q), NEW k \in Used(t)
    PROVE  /\ last[k] # "WAIT" \/ k \in excl => s_lms_last'[k] = last[k]
           /\ k \notin excl /\ s_lms_last'[k] = "WAIT" => Undecided(t, k)
<1> DEFINE waiting == WaitingOthers(t, last, excl)
<1>1. s_lms_last' = [i \in Slots |-> IF i \in waiting
                                     THEN LmsSaved(t, i, last) ELSE last[i]]
  BY Zenon DEF Refresh
<1>2. k \in Slots
  BY DEF Used
<1>3. k \in waiting <=> k \notin excl /\ last[k] = "WAIT"
  BY DEF WaitingOthers
<1> HIDE DEF waiting
<1>4. s_lms_last'[k] = IF k \in waiting THEN LmsSaved(t, k, last) ELSE last[k]
  BY <1>1, <1>2
<1>5. QED BY <1>3, <1>4, WaitMeansUndecided

(* A client asks: what is saved for it, and for the others.                *)
LEMMA AskResults ==
    ASSUME s_lms_last \in [Slots -> LmsResults], NEW c \in Conns, NEW t,
           sess[c].ff_idx \in Slots, LmsDecideAndRefresh(c, t),
           NEW k \in Used(t)
    PROVE  /\ s_lms_last'[k] = "WAIT" => Undecided(t, k)
           /\ s_lms_last[k] = "NEW" =>
                s_lms_last'[k] \in {"NEW", LmsSaved(t, k, s_lms_last)}
<1> DEFINE i == sess[c].ff_idx
           saved == LmsSaved(t, i, s_lms_last)
           last == [s_lms_last EXCEPT ![i] = saved]
           q == WithReply(c, LmsVote(t, i, s_lms_last))
<1>1. Refresh(t, s_tp, last, {i}, q)
  BY Zenon DEF LmsDecideAndRefresh
<1>2. saved \in LmsResults
  BY LmsTypes
<1>3. k \in Slots
  BY DEF Used
<1>4. saved = "WAIT" => Undecided(t, i)
  BY WaitMeansUndecided
<1> HIDE DEF q, saved, i
<1>5. /\ last \in [Slots -> LmsResults]
      /\ last[k] = IF k = i THEN saved ELSE s_lms_last[k]
  BY <1>2, <1>3 DEF i
<1> HIDE DEF last
<1>6. /\ last[k] # "WAIT" \/ k \in {i} => s_lms_last'[k] = last[k]
      /\ k \notin {i} /\ s_lms_last'[k] = "WAIT" => Undecided(t, k)
  BY <1>1, <1>5, RefreshResults
<1>7. CASE k = i
  <2>1. s_lms_last'[k] = saved
    BY <1>5, <1>6, <1>7
  <2>2. QED BY <2>1, <1>4, <1>7 DEF saved
<1>8. CASE k # i
  BY <1>5, <1>6, <1>8
<1>9. QED BY <1>7, <1>8

(* A client that nothing decided is not decided by a newcomer that has     *)
(* reported nothing, nor by one that takes its slot over.                  *)
LEMMA InitMsgUndecided ==
    ASSUME TypeOK, NEW c \in Conns, NEW n \in NodeIds, NEW algo \in Algos,
           NEW tb \in TieBreakers, InitMsg(c, n, algo, tb),
           SlotFor(ff, n) # NoSlot, NEW k \in Used(ff), k # SlotFor(ff, n),
           Undecided(ff, k)
    PROVE  Undecided(ff', k)
<1> DEFINE i == SlotFor(ff, n)
<1>1. /\ i \in Slots /\ ff[i].used \in BOOLEAN
      /\ ff'[i].used
      /\ \A j \in Slots \ {i} : ff'[j] = ff[j]
      /\ ff[i].used => /\ ff'[i].node_id = ff[i].node_id
                       /\ ff'[i].memb = ff[i].memb
                       /\ ff'[i].ring = ff[i].ring
      /\ ~ff[i].used => ff'[i].memb = {} /\ ff'[i].ring = NoRing
  BY InitMsgTable
<1>2. k \in Slots \ {i}
  BY DEF Used
<1> HIDE DEF i
<1>3. CASE ~RingsMatch(ff, k)
  <2>1. PICK j \in Used(ff) \ {k} :
          /\ ff[j].node_id \in ff[k].memb \/ ff[k].node_id \in ff[j].memb
          /\ ff[j].ring # ff[k].ring
    BY <1>3 DEF RingsMatch
  <2>2. /\ j \in Used(ff') /\ ff'[j].node_id = ff[j].node_id
        /\ ff'[j].memb = ff[j].memb /\ ff'[j].ring = ff[j].ring
    BY <1>1, <2>1 DEF Used
  <2>3. ff'[k] = ff[k]
    BY <1>1, <1>2
  <2>4. ~RingsMatch(ff', k)
    BY <2>1, <2>2, <2>3 DEF RingsMatch
  <2>5. QED BY <2>4 DEF Undecided
<1>4. CASE LmsRings(ff) = {}
  <2>1. \A j \in Used(ff) : ff[j].ring = NoRing
    BY <1>4 DEF LmsRings
  <2>2. \A j \in Used(ff') : ff'[j].ring = NoRing
    BY <1>1, <2>1 DEF Used
  <2>3. QED BY <2>2 DEF Undecided, LmsRings
<1>5. QED BY <1>3, <1>4 DEF Undecided

(* What every step does to the saved results: a client that waits after it *)
(* is undecided, and a first vote is the one qesp_lms_decide saves for the *)
(* reports the step leaves.                                                *)
LmsStep ==
    /\ s_algo' = "LMS" => \A k \in Used(ff') :
         s_lms_last'[k] = "WAIT" =>
           \/ Undecided(ff', k)
           \/ s_algo = "LMS" /\ k \in Used(ff) /\ s_lms_last[k] = "WAIT"
                /\ (Undecided(ff, k) => Undecided(ff', k))
    /\ \A k \in Used(ff') : s_lms_last[k] = "NEW" =>
         s_lms_last'[k] \in {"NEW", LmsSaved(ff', k, s_lms_last)}

LEMMA EveryLmsStep ==
    ASSUME TypeOK, SlotInv, Next
    PROVE  LmsStep
<1>0. PICK c \in Conns :
      \/ Connect(c)
      \/ \E name \in Names : Preinit(c, name)
      \/ \E name \in Names : PreinitRefused(c, name)
      \/ \E n \in NodeIds, algo \in Algos, tb \in TieBreakers :
            InitMsg(c, n, algo, tb)
      \/ \E cfg \in Configs : ConfigList(c, cfg)
      \/ \E v \in Views, h \in Heurs : MembershipList(c, v, h)
      \/ \E h \in Heurs : HeuristicsChange(c, h)
      \/ \E kap \in Kaps : SetOption(c, kap)
      \/ \E v \in Views, h \in Heurs : LmsMembershipList(c, v, h)
      \/ LmsQuorumList(c)
      \/ AskForVote(c)
      \/ VoteInfoReply(c)
      \/ ClientRecv(c)
      \/ Break(c)
      \/ LeaveHandshake(c)
      \/ LeaveLast(c)
      \/ LeaveFFSplit(c)
      \/ LeaveLms(c)
  BY Zenon DEF Next
<1> DEFINE i == sess[c].ff_idx
<1>types. /\ ff \in Tables /\ s_lms_last \in [Slots -> LmsResults]
          /\ sess[c].st = "ACTIVE" => i \in Slots
          /\ Used(ff) \subseteq Slots /\ Used(ff') \subseteq Slots
  BY TypeParts DEF SlotInv, ActiveHasSlot, RestTypes, Used
<1>1. CASE UNCHANGED <<ff, s_lms_last, s_algo>>
  BY <1>1 DEF LmsStep
<1>2. ASSUME \/ Connect(c) \/ Break(c) \/ LeaveHandshake(c)
             \/ \E name \in Names : Preinit(c, name) \/ PreinitRefused(c, name)
             \/ VoteInfoReply(c) \/ ClientRecv(c)
      PROVE  UNCHANGED <<ff, s_lms_last, s_algo>>
  BY <1>2 DEF Connect, Break, LeaveHandshake, Preinit, PreinitRefused,
         VoteInfoReply, ClientRecv
<1>3. CASE UNCHANGED <<s_lms_last, s_algo>> /\ s_algo # "LMS"
  BY <1>3 DEF LmsStep
<1>4. ASSUME \/ \E cfg \in Configs : ConfigList(c, cfg)
             \/ \E v \in Views, h \in Heurs : MembershipList(c, v, h)
             \/ \E h \in Heurs : HeuristicsChange(c, h)
      PROVE  UNCHANGED <<s_lms_last, s_algo>> /\ s_algo # "LMS"
  BY <1>4, Zenon DEF ConfigList, MembershipList, HeuristicsChange
<1>5. ASSUME NEW n \in NodeIds, NEW algo \in Algos, NEW tb \in TieBreakers,
             InitMsg(c, n, algo, tb)
      PROVE  LmsStep
  <2> DEFINE j == SlotFor(ff, n)
  <2>1. CASE j = NoSlot
    <3>1. UNCHANGED <<ff, s_lms_last, s_algo>>
      BY <1>5, <2>1, Zenon DEF InitMsg
    <3>2. QED BY <1>1, <3>1
  <2>2. CASE j # NoSlot
    <3>1. /\ s_lms_last' = [s_lms_last EXCEPT ![j] = "NEW"]
          /\ s_algo' = algo
          /\ s_algo \in {"NONE", algo}
      BY <1>5, <2>2, Zenon DEF InitMsg
    <3>2. j \in Slots /\ \A k \in Slots \ {j} : ff'[k] = ff[k]
      BY <1>5, <2>2, InitMsgTable
    <3>3. \A k \in Used(ff') \ {j} :
            k \in Used(ff) /\ (Undecided(ff, k) => Undecided(ff', k))
      <4>1. \A k \in Used(ff') \ {j} : k \in Used(ff)
        BY <3>2 DEF Used
      <4>2. QED BY <1>5, <2>2, <4>1, InitMsgUndecided
    <3> HIDE DEF j
    <3>4. /\ s_lms_last'[j] = "NEW"
          /\ \A k \in Slots \ {j} : s_lms_last'[k] = s_lms_last[k]
      BY <3>1, <3>2, <1>types
    <3>5. \A k \in Used(ff') \ {j} : s_algo # "NONE"
      BY <3>3 DEF SlotInv, AlgoBoundWhileUsed
    <3>6. QED BY <3>1, <3>3, <3>4, <3>5, <1>types DEF LmsStep
  <2>3. QED BY <2>1, <2>2
<1>6. ASSUME NEW kap \in Kaps, SetOption(c, kap) PROVE LmsStep
  <2>1. /\ ff' = [ff EXCEPT ![i].kap = kap] /\ i \in Slots
        /\ UNCHANGED <<s_lms_last, s_algo>>
    BY <1>6, <1>types DEF SetOption, Reports
  <2>2. \A k \in Slots : /\ ff'[k].used = ff[k].used
                         /\ ff'[k].node_id = ff[k].node_id
                         /\ ff'[k].memb = ff[k].memb
                         /\ ff'[k].ring = ff[k].ring
    BY <2>1, <1>types DEF Tables, Client
  <2>3. Used(ff') = Used(ff)
    BY <2>2 DEF Used
  <2>4. \A k \in Used(ff) : Undecided(ff', k) <=> Undecided(ff, k)
    <3>1. LmsRings(ff') = LmsRings(ff)
      BY <2>2, <2>3, <1>types DEF LmsRings
    <3>2. \A k \in Used(ff) : RingsMatch(ff', k) <=> RingsMatch(ff, k)
      BY <2>2, <2>3, <1>types DEF RingsMatch
    <3>3. QED BY <3>1, <3>2 DEF Undecided
  <2>5. QED BY <2>1, <2>3, <2>4 DEF LmsStep
<1>7. ASSUME NEW t, ff' = t, LmsDecideAndRefresh(c, t), i \in Slots
      PROVE  LmsStep
  <2>1. \A k \in Used(t) :
          /\ s_lms_last'[k] = "WAIT" => Undecided(t, k)
          /\ s_lms_last[k] = "NEW" =>
               s_lms_last'[k] \in {"NEW", LmsSaved(t, k, s_lms_last)}
    BY <1>7, <1>types, AskResults
  <2>2. QED BY <1>7, <2>1 DEF LmsStep
<1>8. ASSUME NEW v \in Views, NEW h \in Heurs, LmsMembershipList(c, v, h)
      PROVE  LmsStep
  BY <1>7, <1>8, <1>types, Zenon DEF LmsMembershipList, Reports
<1>9. CASE AskForVote(c)
  BY <1>7, <1>9, <1>types DEF AskForVote, Reports
<1>10. CASE LmsQuorumList(c)
  <2> DEFINE saved == LmsSaved(ff, i, s_lms_last)
  <2>1. /\ s_lms_last' = [s_lms_last EXCEPT ![i] = saved]
        /\ i \in Slots /\ UNCHANGED <<ff, s_algo>> /\ s_algo = "LMS"
    BY <1>10, <1>types DEF LmsQuorumList, Reports
  <2>2. saved = "WAIT" => Undecided(ff, i)
    BY WaitMeansUndecided
  <2>3. \A k \in Slots : s_lms_last'[k] = IF k = i THEN saved
                                          ELSE s_lms_last[k]
    BY <2>1, <1>types
  <2>4. s_algo' = "LMS" => \A k \in Used(ff') :
         s_lms_last'[k] = "WAIT" =>
           \/ Undecided(ff', k)
           \/ s_algo = "LMS" /\ k \in Used(ff) /\ s_lms_last[k] = "WAIT"
                /\ (Undecided(ff, k) => Undecided(ff', k))
    <3> HIDE DEF saved, i
    <3>1. QED BY <2>1, <2>2, <2>3, <1>types
  <2>5. \A k \in Used(ff') : s_lms_last[k] = "NEW" =>
         s_lms_last'[k] \in {"NEW", LmsSaved(ff', k, s_lms_last)}
    <3> HIDE DEF i
    <3>1. QED BY <2>1, <2>3, <1>types
  <2>6. QED BY <2>4, <2>5 DEF LmsStep
<1>11. ASSUME ReleaseSlot(c)
       PROVE  ff' = Remove(ff, i) /\ i \in Slots /\ Used(ff') = Used(ff) \ {i}
  BY <1>11, <1>types, ReleaseTypes, RemoveType DEF ReleaseSlot
<1>12. CASE LeaveLast(c) \/ LeaveFFSplit(c)
  <2>1. /\ ReleaseSlot(c)
        /\ s_lms_last' = [s_lms_last EXCEPT ![i] = "NEW"]
        /\ s_algo' # "LMS"
    <3>1. CASE LeaveLast(c)
      BY <3>1 DEF LeaveLast, AlgoAfterLeave
    <3>2. CASE LeaveFFSplit(c)
      BY <3>2 DEF LeaveFFSplit, AlgoAfterLeave
    <3>3. QED BY <1>12, <3>1, <3>2
  <2>2. \A k \in Used(ff') : s_lms_last'[k] = s_lms_last[k]
    BY <2>1, <1>11, <1>types
  <2>3. QED BY <2>1, <2>2 DEF LmsStep
<1>13. CASE LeaveLms(c)
  <2> DEFINE last == [s_lms_last EXCEPT ![i] = "NEW"]
             tp == [s_tp EXCEPT ![i] = NoConn]
  <2>1. ReleaseSlot(c) /\ Refresh(Remove(ff, i), tp, last, {}, Drained(c))
    BY <1>13, Zenon DEF LeaveLms
  <2>2. /\ last \in [Slots -> LmsResults]
        /\ \A k \in Slots \ {i} : last[k] = s_lms_last[k]
    BY <1>types DEF LmsResults
  <2> HIDE DEF last, tp, i
  <2>3. \A k \in Used(ff') :
          /\ last[k] # "WAIT" => s_lms_last'[k] = last[k]
          /\ s_lms_last'[k] = "WAIT" => Undecided(ff', k)
    BY <2>1, <2>2, <1>11, RefreshResults
  <2>4. \A k \in Used(ff') : last[k] = s_lms_last[k]
    BY <2>1, <2>2, <1>11, <1>types
  <2>5. QED BY <2>3, <2>4 DEF LmsStep
<1>14. QED
  BY <1>0, <1>1, <1>2, <1>3, <1>4, <1>5, <1>6, <1>8, <1>9, <1>10, <1>12, <1>13

(* No LMS client is ever left waiting that the stored reports would        *)
(* decide: lms_refresh_others is called wherever an answer can change,     *)
(* also when pushes fail and sessions overlap.                             *)
THEOREM NobodyStalls == Spec => []NoStalledWaiter
<1>1. Init => NoStalledWaiter
  BY DEF Init, NoStalledWaiter
<1>2. TypeOK /\ SlotInv /\ NoStalledWaiter /\ [Next]_vars => NoStalledWaiter'
  <2> SUFFICES ASSUME TypeOK, SlotInv, NoStalledWaiter, [Next]_vars
               PROVE  NoStalledWaiter'
    OBVIOUS
  <2>1. CASE UNCHANGED vars
    BY <2>1 DEF vars, NoStalledWaiter
  <2>2. CASE Next
    <3>1. LmsStep
      BY <2>2, EveryLmsStep
    <3>2. s_algo = "LMS" => \A k \in Used(ff) :
            s_lms_last[k] = "WAIT" => Undecided(ff, k)
      BY WaitMeansUndecided DEF NoStalledWaiter
    <3>3. s_algo' = "LMS" => \A k \in Used(ff') :
            s_lms_last'[k] = "WAIT" => Undecided(ff', k)
      BY <3>1, <3>2 DEF LmsStep
    <3>4. QED BY <3>3, WaitMeansUndecided DEF NoStalledWaiter
  <2>3. QED BY <2>1, <2>2
<1>3. QED BY <1>1, <1>2, SlotInvariant, PTL DEF Spec

-----------------------------------------------------------------------------
(* The incumbent *)

(* The choice changes only by a decision on the table the step leaves, or  *)
(* when the last client leaves.                                            *)
LEMMA ChoiceStep ==
    ASSUME TypeOK, Next
    PROVE  \/ quorate' \in {{}, quorate}
           \/ Stable(ff') /\ quorate' = Decide(ff', quorate)
<1> DEFINE Goal == \/ quorate' \in {{}, quorate}
                   \/ Stable(ff') /\ quorate' = Decide(ff', quorate)
<1>1. ASSUME NEW t, NEW tp, NEW q, ff' = t, Recompute(t, tp, q) PROVE Goal
  <2>1. CASE RecomputeUnstable(t, q)
    BY <2>1 DEF RecomputeUnstable
  <2>2. CASE RecomputeStable(t, tp, q)
    <3>1. Stable(t) /\ quorate' = Decide(t, quorate)
      BY <2>2, Zenon DEF RecomputeStable
    <3>2. QED BY <1>1, <3>1
  <2>3. QED BY <1>1, <2>1, <2>2 DEF Recompute
<1>2. ASSUME NEW s, NEW t, ff' = t, RecomputeIfComplete(s, t) PROVE Goal
  <2>1. CASE Recompute(t, s_tp, down)
    BY <1>1, <1>2, <2>1
  <2>2. CASE UNCHANGED pushVars
    BY <2>2 DEF pushVars
  <2>3. QED BY <1>2, <2>1, <2>2, Zenon DEF RecomputeIfComplete
<1>3. PICK c \in Conns :
        \/ Connect(c)
        \/ \E name \in Names : Preinit(c, name)
        \/ \E name \in Names : PreinitRefused(c, name)
        \/ \E n \in NodeIds, algo \in Algos, tb \in TieBreakers :
              InitMsg(c, n, algo, tb)
        \/ \E cfg \in Configs : ConfigList(c, cfg)
        \/ \E v \in Views, h \in Heurs : MembershipList(c, v, h)
        \/ \E h \in Heurs : HeuristicsChange(c, h)
        \/ \E kap \in Kaps : SetOption(c, kap)
        \/ \E v \in Views, h \in Heurs : LmsMembershipList(c, v, h)
        \/ LmsQuorumList(c)
        \/ AskForVote(c)
        \/ VoteInfoReply(c)
        \/ ClientRecv(c)
        \/ Break(c)
        \/ LeaveHandshake(c)
        \/ LeaveLast(c)
        \/ LeaveFFSplit(c)
        \/ LeaveLms(c)
  BY Zenon DEF Next
<1>4. ASSUME NEW cfg, ConfigList(c, cfg) PROVE Goal
  <2> HIDE DEF Goal
  <2>1. QED BY <1>2, <1>4, Zenon DEF ConfigList
<1>5. ASSUME NEW v, NEW h, MembershipList(c, v, h) PROVE Goal
  <2> HIDE DEF Goal
  <2>1. QED BY <1>2, <1>5, Zenon DEF MembershipList
<1>6. ASSUME NEW h, HeuristicsChange(c, h) PROVE Goal
  <2> HIDE DEF Goal
  <2>1. QED BY <1>2, <1>6, Zenon DEF HeuristicsChange
<1>7. ASSUME LeaveFFSplit(c) PROVE Goal
  <2> HIDE DEF Goal
  <2>1. QED BY <1>1, <1>7, Zenon DEF LeaveFFSplit, ReleaseSlot
<1>8. ASSUME LeaveLast(c) PROVE Goal
  BY <1>8, Zenon DEF LeaveLast
<1>9. ASSUME \/ Connect(c)
             \/ \E name \in Names : Preinit(c, name)
             \/ \E name \in Names : PreinitRefused(c, name)
             \/ \E kap \in Kaps : SetOption(c, kap)
             \/ Break(c)
      PROVE  UNCHANGED pushVars
  BY <1>9, Zenon DEF Connect, Preinit, PreinitRefused, SetOption, Break
<1>10. ASSUME \/ \E n \in NodeIds, algo \in Algos, tb \in TieBreakers :
                    InitMsg(c, n, algo, tb)
              \/ \E v \in Views, h \in Heurs : LmsMembershipList(c, v, h)
              \/ LmsQuorumList(c) \/ AskForVote(c) \/ VoteInfoReply(c)
              \/ ClientRecv(c) \/ LeaveHandshake(c) \/ LeaveLms(c)
       PROVE  UNCHANGED quorate
  BY <1>10, Zenon DEF InitMsg, LmsMembershipList, LmsQuorumList, AskForVote,
                      VoteInfoReply, ClientRecv, LeaveHandshake, LeaveLms
<1>11. UNCHANGED pushVars \/ UNCHANGED quorate => Goal
  BY DEF pushVars
<1> HIDE DEF Goal
<1>12. Goal
  BY <1>3, <1>4, <1>5, <1>6, <1>7, <1>8, <1>9, <1>10, <1>11, Zenon
<1>13. QED BY <1>12 DEF Goal

(* Keep-active, for every step of the server: a decision takes the vote    *)
(* from a partition that a connected member still reports only for a       *)
(* better one, never by the tie-breaker, whoever reports, leaves or        *)
(* returns in whichever slot.                                              *)
THEOREM IncumbentIsKept ==
    ASSUME IsFiniteSet(NodeIds)
    PROVE  Spec => IncumbentKeeps
<1> DEFINE Beaten(i, j) ==
             \/ 2 * Cardinality(quorate') > Cardinality(ff'[j].cfg)
             \/ 2 * Cardinality(quorate) < Cardinality(ff'[j].cfg)
             \/ Score(ff', j) > Score(ff', i)
             \/ /\ Score(ff', j) = Score(ff', i)
                /\ Cardinality(Active(ff', j)) > Cardinality(Active(ff', i))
           A == \A i \in Used(ff') :
                  (/\ KapOn(ff') /\ s_decided' /\ NoHalfBesideMajority(ff')
                   /\ quorate' \notin {{}, quorate}
                   /\ ff'[i].node_id \in quorate /\ ff'[i].memb = quorate)
                    => \E j \in Used(ff') :
                         /\ ff'[j].memb = quorate'
                         /\ Beaten(i, j)
<1>1. TypeOK /\ (TypeOK /\ SlotInv)' /\ [Next]_vars => [A]_vars
  <2> SUFFICES ASSUME TypeOK, TypeOK', SlotInv', Next,
                      NEW i \in Used(ff'),
                      KapOn(ff'), NoHalfBesideMajority(ff'),
                      quorate' \notin {{}, quorate},
                      ff'[i].node_id \in quorate, ff'[i].memb = quorate
               PROVE  \E j \in Used(ff') : ff'[j].memb = quorate' /\ Beaten(i, j)
    BY Zenon
  <2>1. Stable(ff') /\ quorate' = Decide(ff', quorate)
    BY ChoiceStep
  <2>2. ff' \in Tables
    BY DEF TypeOK
  <2>3. OneSlotEach(ff')
    BY DEF SlotInv, NodeIdsUnique, OneSlotEach
  <2> DEFINE t == ff'
             q == quorate
             r == quorate'
  <2>4. PICK j \in Used(t) :
          /\ t[j].memb = Decide(t, q)
          /\ \/ Majority(t[j])
             \/ 2 * Cardinality(q) < Cardinality(t[j].cfg)
             \/ Score(t, j) > Score(t, i)
             \/ /\ Score(t, j) = Score(t, i)
                /\ Cardinality(Active(t, j)) > Cardinality(Active(t, i))
    <3>1. t \in Tables /\ Stable(t) /\ OneSlotEach(t) /\ KapOn(t)
      BY <2>1, <2>2, <2>3
    <3>2. NoHalfBesideMajority(t) /\ Decide(t, q) \notin {{}, q}
      BY <2>1
    <3>3. i \in Used(t) /\ t[i].node_id \in q /\ t[i].memb = q
      OBVIOUS
    <3> HIDE DEF t, q
    <3>4. QED BY <3>1, <3>2, <3>3, TieBreakerKeepsIncumbent
  <2>5. ff'[j].memb = quorate'
    BY <2>1, <2>4
  <2>6. Majority(ff'[j]) => 2 * Cardinality(quorate') > Cardinality(ff'[j].cfg)
    BY <2>5 DEF Majority
  <2>7. Beaten(i, j)
    BY <2>4, <2>6, Zenon
  <2>8. QED BY <2>4, <2>5, <2>7
<1>2. QED BY <1>1, SlotInvariant, PTL DEF Spec, IncumbentKeeps

-----------------------------------------------------------------------------
(* The tables that are decided on *)

(* What a used slot holds was sent by clients; its node is in what it      *)
(* reports while no node has two sessions.                                 *)
SlotSent(t, i) ==
    /\ \E tb \in TieBreakers : t[i].tb_mode = tb.mode /\ t[i].tb_node = tb.node
    /\ t[i].cfg \in Configs \cup {{}}
    /\ t[i].memb = {} \/ \E v \in Views : t[i].memb = v.memb
    /\ ~AllowOverlap => (t[i].memb # {} => t[i].node_id \in t[i].memb)

(* The inductive invariant. *)
SentInv == \A i \in Used(ff) : SlotSent(ff, i)

(* Every slot of the next table holds what was sent. *)
LEMMA SentStep ==
    ASSUME TypeOK, SlotInv, SentInv, [Next]_vars
    PROVE  SentInv'
<1>types. ff \in Tables /\ sess \in [Conns -> Session]
  BY TypeParts DEF RestTypes
<1>slot. \A c \in Conns : sess[c].st = "ACTIVE" => sess[c].ff_idx \in Slots
  BY DEF SlotInv, ActiveHasSlot
<1> DEFINE Same(i) == /\ ff'[i].node_id = ff[i].node_id
                      /\ ff'[i].tb_mode = ff[i].tb_mode
                      /\ ff'[i].tb_node = ff[i].tb_node
           Kept(i) == Same(i) /\ ff'[i].cfg = ff[i].cfg /\ ff'[i].memb = ff[i].memb
<1>keep. ASSUME NEW i \in Used(ff), Kept(i) PROVE SlotSent(ff', i)
  <2>1. SlotSent(ff, i)
    BY DEF SentInv
  <2>2. QED BY <1>keep, <2>1, Zenon DEF SlotSent
<1>1. CASE UNCHANGED ff
  BY <1>1 DEF SentInv, SlotSent
<1>2. ASSUME NEW c \in Conns, NEW n \in NodeIds, NEW algo \in Algos,
             NEW tb \in TieBreakers, InitMsg(c, n, algo, tb)
      PROVE  SentInv'
  <2> DEFINE k == SlotFor(ff, n)
  <2>1. CASE k = NoSlot
    <3>1. UNCHANGED ff
      BY <1>2, <2>1, Zenon DEF InitMsg
    <3>2. QED BY <1>1, <3>1
  <2>2. CASE k # NoSlot
    <3>1. /\ k \in Slots /\ ff[k].used \in BOOLEAN /\ ff'[k].used
          /\ \A j \in Slots \ {k} : ff'[j] = ff[j]
          /\ ff[k].used => /\ ff'[k].node_id = ff[k].node_id
                           /\ ff'[k].memb = ff[k].memb
                           /\ ff'[k].cfg = ff[k].cfg
          /\ ~ff[k].used => ff'[k].memb = {} /\ ff'[k].cfg = {}
          /\ ff'[k].tb_mode = tb.mode /\ ff'[k].tb_node = tb.node
      BY <1>2, <2>2, InitMsgTable
    <3> HIDE DEF k
    <3>2. SlotSent(ff', k)
      <4>1. CASE k \in Used(ff)
        <5>1. SlotSent(ff, k) /\ ff[k].used
          BY <4>1 DEF SentInv, Used
        <5>2. QED BY <3>1, <5>1 DEF SlotSent
      <4>2. CASE k \notin Used(ff)
        <5>1. ~ff[k].used
          BY <3>1, <4>2 DEF Used
        <5>2. QED BY <3>1, <5>1 DEF SlotSent
      <4>3. QED BY <4>1, <4>2
    <3>3. ASSUME NEW i \in Used(ff'), i # k PROVE SlotSent(ff', i)
      <4>1. i \in Slots /\ ff'[i] = ff[i] /\ i \in Used(ff)
        BY <3>1, <3>3 DEF Used
      <4>2. QED BY <1>keep, <4>1
    <3>4. QED BY <3>2, <3>3 DEF SentInv
  <2>3. QED BY <2>1, <2>2
<1>3. ASSUME NEW c \in Conns, NEW cfg \in Configs, ConfigList(c, cfg)
      PROVE  SentInv'
  <2>1. sess[c].st = "ACTIVE" /\ ff' = [ff EXCEPT ![sess[c].ff_idx].cfg = cfg]
    BY <1>3, <1>types DEF ConfigList, Reports, Session
  <2>2. /\ Used(ff') = Used(ff)
        /\ \A i \in Slots : /\ Same(i) /\ ff'[i].memb = ff[i].memb
                            /\ ff'[i].cfg \in {ff[i].cfg, cfg}
    BY <2>1, <1>types, <1>slot DEF Used, Tables, Client
  <2>3. ASSUME NEW i \in Used(ff') PROVE SlotSent(ff', i)
    <3>1. i \in Slots /\ SlotSent(ff, i)
      BY <2>2 DEF SentInv, Used
    <3>2. QED BY <2>2, <3>1 DEF SlotSent
  <2>4. QED BY <2>3 DEF SentInv
<1>4. ASSUME NEW c \in Conns, NEW v \in Views, NEW h \in Heurs,
             sess[c].st = "ACTIVE", sess[c].node \in v.memb,
             ff' = StoreMembership(ff, sess[c].ff_idx, v, h)
      PROVE  SentInv'
  <2> DEFINE k == sess[c].ff_idx
  <2>1. k \in Slots
    BY <1>4, <1>slot
  <2>2. ~AllowOverlap => ff[k].node_id = sess[c].node
    BY <2>1, NoSlotIsNoSlot DEF SlotInv, OwnSlots
  <2> HIDE DEF k
  <2>3. /\ Used(ff') = Used(ff)
        /\ \A i \in Slots :
             /\ Same(i) /\ ff'[i].cfg = ff[i].cfg
             /\ ff'[i].memb = IF i = k THEN v.memb ELSE ff[i].memb
    BY <1>4, <2>1, <1>types DEF k, StoreMembership, Used, Tables, Client
  <2>4. ASSUME NEW i \in Used(ff') PROVE SlotSent(ff', i)
    <3>1. i \in Slots /\ SlotSent(ff, i)
      BY <2>3 DEF SentInv, Used
    <3>2. QED BY <1>4, <2>2, <2>3, <3>1 DEF SlotSent
  <2>5. QED BY <2>4 DEF SentInv
<1>5. ASSUME NEW c \in Conns, NEW v \in Views, NEW h \in Heurs,
             MembershipList(c, v, h) \/ LmsMembershipList(c, v, h)
      PROVE  SentInv'
  <2>1. /\ sess[c].st = "ACTIVE" /\ sess[c].node \in v.memb
        /\ ff' = StoreMembership(ff, sess[c].ff_idx, v, h)
    BY <1>5, <1>types DEF MembershipList, LmsMembershipList, Reports, Session
  <2>2. QED BY <1>4, <2>1
<1>6. ASSUME NEW c \in Conns, NEW x, sess[c].st = "ACTIVE",
             \/ ff' = [ff EXCEPT ![sess[c].ff_idx].heur = x]
             \/ ff' = [ff EXCEPT ![sess[c].ff_idx].kap = x]
      PROVE  SentInv'
  <2>1. Used(ff') = Used(ff) /\ \A i \in Slots : Kept(i)
    BY <1>6, <1>types, <1>slot DEF Used, Tables, Client
  <2>2. QED BY <2>1, <1>keep DEF SentInv, Used
<1>7. ASSUME NEW c \in Conns,
             (\E h \in Heurs : HeuristicsChange(c, h))
               \/ (\E kap \in Kaps : SetOption(c, kap))
      PROVE  SentInv'
  <2>1. /\ sess[c].st = "ACTIVE"
        /\ \E x : \/ ff' = [ff EXCEPT ![sess[c].ff_idx].heur = x]
                  \/ ff' = [ff EXCEPT ![sess[c].ff_idx].kap = x]
    BY <1>7, Zenon DEF HeuristicsChange, SetOption, Reports
  <2>2. QED BY <1>6, <2>1
<1>8. ASSUME NEW c \in Conns, LeaveLast(c) \/ LeaveFFSplit(c) \/ LeaveLms(c)
      PROVE  SentInv'
  <2>1. ReleaseSlot(c)
    BY <1>8, Zenon DEF LeaveLast, LeaveFFSplit, LeaveLms
  <2>2. ff' = Remove(ff, sess[c].ff_idx) /\ sess[c].ff_idx # NoSlot
    BY <2>1, Zenon DEF ReleaseSlot
  <2>3. sess[c].ff_idx \in Slots
    BY <2>2, <1>types DEF Session
  <2>4. Used(ff') \subseteq Used(ff) /\ \A i \in Slots : Kept(i)
    BY <2>2, <2>3, <1>types DEF Remove, Used, Tables, Client
  <2>5. QED BY <2>4, <1>keep DEF SentInv, Used
<1>9. ASSUME NEW c \in Conns,
             \/ Connect(c) \/ Break(c) \/ LeaveHandshake(c)
             \/ \E name \in Names : Preinit(c, name) \/ PreinitRefused(c, name)
             \/ LmsQuorumList(c) \/ AskForVote(c)
             \/ VoteInfoReply(c) \/ ClientRecv(c)
      PROVE  UNCHANGED ff
  BY <1>9, Zenon DEF Connect, Break, LeaveHandshake, Preinit, PreinitRefused,
                     LmsQuorumList, AskForVote, VoteInfoReply, ClientRecv
<1>10. UNCHANGED vars => UNCHANGED ff
  BY DEF vars
<1>11. QED BY <1>1, <1>2, <1>3, <1>5, <1>7, <1>8, <1>9, <1>10, Zenon DEF Next

LEMMA SentInvariant == Spec => [](TypeOK /\ SlotInv /\ SentInv)
<1>1. Init => SentInv
  BY EmptyTableType DEF Init, SentInv
<1>2. TypeOK /\ SlotInv /\ SentInv /\ [Next]_vars => SentInv'
  BY SentStep
<1>3. QED BY <1>1, <1>2, SlotInvariant, PTL DEF Spec

(* While no node has two sessions, a decision of the server is settled:    *)
(* deciding again on its table, whatever the clients have reported so far  *)
(* and whichever have left, would not move the vote.                       *)
THEOREM ServerSettles ==
    ASSUME AllowOverlap = FALSE, IsFiniteSet(NodeIds)
    PROVE  Spec => [](Stable(ff) =>
                        Decide(ff, Decide(ff, quorate)) = Decide(ff, quorate))
<1>1. ASSUME TypeOK, SlotInv, SentInv, Stable(ff)
      PROVE  Decide(ff, Decide(ff, quorate)) = Decide(ff, quorate)
  <2>1. ff \in Tables
    BY <1>1 DEF TypeOK
  <2>2. OneSlotEach(ff) /\ InOwnPartition(ff)
    BY <1>1 DEF SlotInv, NodeIdsUnique, OneSlotEach, SentInv, SlotSent, InOwnPartition
  <2>3. QED BY <1>1, <2>1, <2>2, DecisionSettles
<1>2. QED BY <1>1, SentInvariant, PTL

(* The clients are configured as nodes of one cluster: memberships lie in  *)
(* every configuration, and all have been given one tie-breaker, which     *)
(* names a configured node if it names one.                                *)
NodesOfOneCluster ==
    /\ \A v \in Views, cfg \in Configs : v.memb \subseteq cfg
    /\ \A tb \in TieBreakers :
         /\ \A other \in TieBreakers : other = tb
         /\ tb.mode = "NODE_ID" => \A cfg \in Configs : tb.node \in cfg

(* Whenever the vote moves, it moves to the partition the documented rules *)
(* name: through any reports, departures and returns, in whichever slots   *)
(* the clients sit, as long as the configured clients' views are blocks of *)
(* one split.                                                              *)
THEOREM VoteMovesByTheRules ==
    ASSUME AllowOverlap = FALSE, IsFiniteSet(NodeIds),
           2 * Cardinality(NodeIds) < SizeMod, NodesOfOneCluster
    PROVE  Spec => [][(/\ quorate' \notin {{}, quorate}
                       /\ OneSplit(ff') /\ Config(ff') # {})
                        => quorate' = Reference(ff', quorate)]_vars
<1>1. ASSUME TypeOK, TypeOK', SlotInv', SentInv', Next,
             quorate' \notin {{}, quorate}, OneSplit(ff'), Config(ff') # {}
      PROVE  quorate' = Reference(ff', quorate)
  <2>1. Stable(ff') /\ quorate' = Decide(ff', quorate)
    BY <1>1, ChoiceStep
  <2>2. ff' \in Tables
    BY <1>1 DEF TypeOK
  <2>3. OneSlotEach(ff') /\ InOwnPartition(ff')
    BY <1>1 DEF SlotInv, NodeIdsUnique, OneSlotEach, SentInv, SlotSent, InOwnPartition
  <2>4. OneCluster(ff')
    <3>1. ASSUME NEW i \in Used(ff') PROVE ff'[i].cfg \in Configs
      <4>1. ff'[i].cfg = Config(ff')
        BY <2>1 DEF Config, Stable, SameConfig
      <4>2. QED BY <1>1, <4>1 DEF SentInv, SlotSent
    <3>2. ASSUME NEW i \in Used(ff')
          PROVE  /\ ff'[i].memb \subseteq ff'[i].cfg
                 /\ (ff'[i].tb_mode = "NODE_ID" /\ ff'[i].cfg # {})
                      => ff'[i].tb_node \in ff'[i].cfg
      BY <1>1, <3>1 DEF SentInv, SlotSent, NodesOfOneCluster
    <3>3. ASSUME NEW i \in Used(ff'), NEW j \in Used(ff')
          PROVE  ff'[i].tb_mode = ff'[j].tb_mode /\ ff'[i].tb_node = ff'[j].tb_node
      BY <1>1 DEF SentInv, SlotSent, NodesOfOneCluster
    <3>4. QED BY <3>2, <3>3 DEF OneCluster
  <2> DEFINE t == ff'
             q == quorate
  <2>5. Decide(t, q) = Reference(t, q)
    <3>1. t \in Tables /\ Stable(t) /\ OneSplit(t)
      BY <1>1, <2>1, <2>2
    <3>2. OneSlotEach(t) /\ InOwnPartition(t) /\ OneCluster(t)
      BY <2>3, <2>4
    <3> HIDE DEF t, q
    <3>3. QED BY <3>1, <3>2, DecisionIsReference
  <2>6. QED BY <2>1, <2>5
<1>2. QED BY <1>1, SentInvariant, PTL DEF Spec

-----------------------------------------------------------------------------
(* How much is in flight *)

InFlight(c) == Len(down[c]) + Len(up[c])

(* One more vote may follow the NACKs of an open round. *)
Opening == IF s_phase = 1 THEN 1 ELSE 0

Taken == {c \in Conns : sess[c].st # "FREE"}

(* What is in flight is bounded: clients report only while there is room,  *)
(* and each session that ends can cause two more votes for each other.     *)
FlightInv ==
    \A c \in Conns : InFlight(c) + Opening + 2 * Cardinality(Taken)
                       <= MaxInFlight + 3 + 2 * Cardinality(Conns)

LEMMA FlightTypes ==
    /\ TypeOK =>
         \A c \in Conns : /\ down[c] \in Seq(Message) /\ up[c] \in Seq(Seqs)
                          /\ Len(down[c]) \in Nat /\ Len(up[c]) \in Nat
                          /\ InFlight(c) \in Nat
    /\ TypeOK' =>
         \A c \in Conns : /\ Len(down'[c]) \in Nat /\ Len(up'[c]) \in Nat
                          /\ InFlight(c)' \in Nat
<1>1. \A m, n \in Nat : m + n \in Nat
  OBVIOUS
<1>2. ASSUME TypeOK, NEW c \in Conns
      PROVE  /\ down[c] \in Seq(Message) /\ up[c] \in Seq(Seqs)
             /\ Len(down[c]) \in Nat /\ Len(up[c]) \in Nat
  BY <1>2, TypeParts, LenProperties DEF RestTypes, PushTypes, Queues
<1>3. ASSUME TypeOK', NEW c \in Conns
      PROVE  Len(down'[c]) \in Nat /\ Len(up'[c]) \in Nat
  BY <1>3, TypeParts, LenProperties DEF RestTypes, PushTypes, Queues
<1>4. QED BY <1>1, <1>2, <1>3 DEF InFlight

LEMMA TakenTypes ==
    ASSUME IsFiniteSet(Conns)
    PROVE  /\ IsFiniteSet(Taken) /\ Cardinality(Conns) \in Nat
           /\ Cardinality(Taken) \in Nat
           /\ Cardinality(Taken) <= Cardinality(Conns)
<1>1. Taken \subseteq Conns
  BY DEF Taken
<1>2. QED BY <1>1, FS_Subset, FS_CardinalityType

LEMMA PushedLen ==
    ASSUME NEW q, NEW tp, NEW S, NEW vote, NEW c \in Conns,
           q[c] \in Seq(Message)
    PROVE  Len(Pushed(q, tp, S, vote)[c]) <= Len(q[c]) + 1
<1>0. Len(q[c]) \in Nat
  BY LenProperties
<1>1. CASE \E i \in S : tp[i] = c
  <2> DEFINE i == CHOOSE i \in S : tp[i] = c
             m == [kind |-> "VOTE_INFO", seq |-> (s_seq[i] + 1) % SeqMod,
                   vote |-> vote[i]]
  <2>1. Pushed(q, tp, S, vote)[c] = Append(q[c], m)
    BY <1>1 DEF Pushed
  <2> HIDE DEF m
  <2>2. q[c] \in Seq(Message \cup {m})
    BY SeqMonotonic
  <2>3. Len(Append(q[c], m)) = Len(q[c]) + 1
    BY <2>2, AppendProperties
  <2>4. QED BY <1>0, <2>1, <2>3
<1>2. CASE ~ \E i \in S : tp[i] = c
  BY <1>0, <1>2 DEF Pushed
<1>3. QED BY <1>1, <1>2

LEMMA RecomputeLen ==
    ASSUME NEW t, NEW tp, NEW q, Recompute(t, tp, q), NEW c \in Conns,
           q[c] \in Seq(Message)
    PROVE  Len(down'[c]) <= Len(q[c]) + 1
<1>1. CASE RecomputeUnstable(t, q)
  <2>1. down' = q
    BY <1>1 DEF RecomputeUnstable
  <2>2. Len(q[c]) \in Nat
    BY LenProperties
  <2>3. QED BY <2>1, <2>2
<1>2. CASE RecomputeStable(t, tp, q)
  <2>1. \E S, vote : down' = Pushed(q, tp, S, vote)
    BY <1>2, Zenon DEF RecomputeStable
  <2>2. QED BY <2>1, PushedLen
<1>3. QED BY <1>1, <1>2 DEF Recompute

LEMMA RefreshLen ==
    ASSUME NEW t, NEW tp, NEW last, NEW excl, NEW q, NEW c \in Conns,
           Refresh(t, tp, last, excl, q), q[c] \in Seq(Message)
    PROVE  Len(down'[c]) <= Len(q[c]) + 1
<1>1. \E S, vote : down' = Pushed(q, tp, S, vote)
  BY Zenon DEF Refresh
<1>2. QED BY <1>1, PushedLen

LEMMA WithReplyLen ==
    ASSUME TypeOK, NEW c \in Conns, NEW vote \in {"WAIT", "ACK", "NACK"},
           NEW d \in Conns
    PROVE  /\ WithReply(c, vote)[d] \in Seq(Message)
           /\ Len(WithReply(c, vote)[d]) <= Len(down[d]) + 1
<1>1. down \in Queues /\ down[d] \in Seq(Message) /\ Len(down[d]) \in Nat
  BY TypeParts, FlightTypes DEF PushTypes
<1>2. WithReply(c, vote)[d] \in Seq(Message)
  BY <1>1, WithReplyType DEF Queues
<1>3. CASE vote = "WAIT"
  BY <1>1, <1>2, <1>3 DEF WithReply
<1>4. CASE vote # "WAIT"
  <2> DEFINE m == [kind |-> "REPLY", seq |-> 0, vote |-> vote]
  <2>1. m \in Message
    BY <1>4, SeqsBasics DEF Message, Seqs
  <2>2. WithReply(c, vote) = [down EXCEPT ![c] = Append(down[c], m)]
    BY <1>4 DEF WithReply
  <2> HIDE DEF m
  <2>3. WithReply(c, vote)[d] \in {down[d], Append(down[d], m)}
    BY <1>1, <2>2 DEF Queues
  <2>4. Len(Append(down[d], m)) = Len(down[d]) + 1
    BY <1>1, <2>1, AppendProperties
  <2>5. QED BY <1>1, <1>2, <2>3, <2>4
<1>5. QED BY <1>3, <1>4

-----------------------------------------------------------------------------
(* A client reports or connects: there was room. *)
LEMMA RoomStep ==
    ASSUME IsFiniteSet(Conns), TypeOK, TypeOK', Room,
           \A d \in Conns : InFlight(d)' <= InFlight(d) + 2
    PROVE  FlightInv'
<1> SUFFICES ASSUME NEW d \in Conns
             PROVE  (InFlight(d) + Opening + 2 * Cardinality(Taken)
                      <= MaxInFlight + 3 + 2 * Cardinality(Conns))'
  BY DEF FlightInv
<1>1. InFlight(d) \in Nat /\ InFlight(d)' \in Nat
  BY FlightTypes
<1>2. InFlight(d) <= MaxInFlight
  BY DEF Room, InFlight
<1>3. Opening' \in 0 .. 1
  BY DEF Opening
<1>4. Cardinality(Taken)' \in Nat /\ Cardinality(Taken)' <= Cardinality(Conns)
      /\ Cardinality(Conns) \in Nat
  <2>1. Taken' \subseteq Conns
    BY DEF Taken
  <2>2. QED BY <2>1, FS_Subset, FS_CardinalityType
<1> QED BY <1>1, <1>2, <1>3, <1>4, MaxInFlightAssumption

(* A step that neither opens nor ends a session and pushes no more than    *)
(* the round it closes was still to push.                                  *)
LEMMA QuietFlight ==
    ASSUME IsFiniteSet(Conns), TypeOK, TypeOK', FlightInv, Taken' = Taken,
           \A d \in Conns : InFlight(d)' + Opening' <= InFlight(d) + Opening
    PROVE  FlightInv'
<1> SUFFICES ASSUME NEW d \in Conns
             PROVE  InFlight(d)' + Opening' + 2 * Cardinality(Taken)
                      <= MaxInFlight + 3 + 2 * Cardinality(Conns)
  BY DEF FlightInv
<1>1. InFlight(d) \in Nat /\ InFlight(d)' \in Nat
  BY FlightTypes
<1>2. Opening \in 0 .. 1 /\ Opening' \in 0 .. 1
  BY DEF Opening
<1>3. InFlight(d) + Opening + 2 * Cardinality(Taken)
        <= MaxInFlight + 3 + 2 * Cardinality(Conns)
  BY DEF FlightInv
<1>4. InFlight(d)' + Opening' <= InFlight(d) + Opening
  OBVIOUS
<1> HIDE DEF InFlight, Opening
<1>5. QED BY <1>1, <1>2, <1>3, <1>4, TakenTypes, MaxInFlightAssumption

(* A session ends: at most one vote each, and one more to follow. *)
LEMMA LeaveFlight ==
    ASSUME IsFiniteSet(Conns), TypeOK, TypeOK', FlightInv, NEW c \in Taken,
           Taken' = Taken \ {c},
           \A d \in Conns : InFlight(d)' <= InFlight(d) + 1
    PROVE  FlightInv'
<1> SUFFICES ASSUME NEW d \in Conns
             PROVE  InFlight(d)' + Opening' + 2 * Cardinality(Taken')
                      <= MaxInFlight + 3 + 2 * Cardinality(Conns)
  BY DEF FlightInv
<1>1. InFlight(d) \in Nat /\ InFlight(d)' \in Nat
  BY FlightTypes
<1>2. Opening \in 0 .. 1 /\ Opening' \in 0 .. 1
  BY DEF Opening
<1>3. InFlight(d) + Opening + 2 * Cardinality(Taken)
        <= MaxInFlight + 3 + 2 * Cardinality(Conns)
  BY DEF FlightInv
<1>4. Cardinality(Taken') = Cardinality(Taken) - 1
  BY TakenTypes, FS_RemoveElement
<1>5. InFlight(d)' <= InFlight(d) + 1
  OBVIOUS
<1> HIDE DEF InFlight, Opening
<1>6. QED BY <1>1, <1>2, <1>3, <1>4, <1>5, TakenTypes, MaxInFlightAssumption

LEMMA ReplyFlight ==
    ASSUME TypeOK, TypeOK', NEW c \in Conns, VoteInfoReply(c), NEW d \in Conns
    PROVE  InFlight(d)' + Opening' <= InFlight(d) + Opening
<1> DEFINE st == [s_st EXCEPT ![sess[c].ff_idx] = Idle]
<1>1. /\ up[c] # <<>> /\ up' = [up EXCEPT ![c] = Tail(up[c])]
      /\ AdvancePhase(st) \/ UNCHANGED <<s_phase, down>>
  BY Zenon DEF VoteInfoReply
<1>2. /\ up \in [Conns -> Seq(Seqs)] /\ down[d] \in Seq(Message)
      /\ Len(down[d]) \in Nat /\ Len(up[d]) \in Nat
      /\ Len(down'[d]) \in Nat /\ Len(up'[d]) \in Nat
  BY FlightTypes, TypeParts DEF RestTypes
<1>3. Len(up'[d]) <= Len(up[d])
  <2>1. CASE d = c
    <3>1. up'[c] = Tail(up[c])
      BY <1>1, <1>2
    <3>2. Len(Tail(up[c])) = Len(up[c]) - 1
      BY <1>1, <1>2, HeadTailProperties
    <3>3. QED BY <1>2, <2>1, <3>1, <3>2
  <2>2. CASE d # c
    <3>1. up'[d] = up[d]
      BY <1>1, <1>2, <2>2
    <3>2. QED BY <1>2, <3>1
  <2>3. QED BY <2>1, <2>2
<1>4. Len(down'[d]) + Opening' <= Len(down[d]) + Opening
  <2> HIDE DEF st
  <2>1. \/ /\ s_phase = 1 /\ s_phase' # 1
           /\ \E S, vote : down' = Pushed(down, s_tp, S, vote)
        \/ /\ s_phase' = 0 \/ s_phase' = s_phase
           /\ down' = down
    <3>1. CASE UNCHANGED <<s_phase, down>>
      BY <3>1
    <3>2. CASE AdvancePhase(st)
      <4> DEFINE due == {j \in Used(ff) : st[j] = AckDue}
                 vote == [j \in Slots |-> "ACK"]
      <4>1. \/ /\ s_phase = 1
               /\ \E fail \in Failures :
                    /\ s_phase' = IF due \ fail # {} THEN 2 ELSE 0
                    /\ down' = Pushed(down, s_tp, due \ fail, vote)
            \/ s_phase' = 0 /\ down' = down
            \/ s_phase' = s_phase /\ down' = down
        BY <3>2, Zenon DEF AdvancePhase
      <4> HIDE DEF due, vote
      <4>2. ASSUME NEW fail, s_phase' = IF due \ fail # {} THEN 2 ELSE 0,
                   down' = Pushed(down, s_tp, due \ fail, vote)
            PROVE  /\ s_phase' # 1
                   /\ \E S, w : down' = Pushed(down, s_tp, S, w)
        <5>1. s_phase' # 1
          BY <4>2
        <5>2. QED BY <4>2, <5>1, Zenon
      <4>3. QED BY <4>1, <4>2, Zenon
    <3>3. QED BY <1>1, <3>1, <3>2
  <2>2. CASE /\ s_phase = 1 /\ s_phase' # 1
             /\ \E S, vote : down' = Pushed(down, s_tp, S, vote)
    <3>1. Len(down'[d]) <= Len(down[d]) + 1
      BY <1>2, <2>2, PushedLen
    <3>2. QED BY <1>2, <2>2, <3>1 DEF Opening
  <2>3. CASE (s_phase' = 0 \/ s_phase' = s_phase) /\ down' = down
    BY <1>2, <2>3 DEF Opening
  <2>4. QED BY <2>1, <2>2, <2>3
<1>5. Opening \in Nat /\ Opening' \in Nat
  BY DEF Opening
<1>6. \A a, b, x, y, z, w \in Nat : (a <= b /\ x + y <= z + w) =>
         (x + a) + y <= (z + b) + w
  OBVIOUS
<1>7. QED BY <1>2, <1>3, <1>4, <1>5, <1>6 DEF InFlight

LEMMA RecvFlight ==
    ASSUME TypeOK, TypeOK', NEW c \in Conns, ClientRecv(c), NEW d \in Conns
    PROVE  InFlight(d)' + Opening' <= InFlight(d) + Opening
<1> DEFINE m == Head(down[c])
<1>1. /\ down[c] # <<>> /\ down' = [down EXCEPT ![c] = Tail(down[c])]
      /\ up' = up \/ up' = [up EXCEPT ![c] = Append(up[c], m.seq)]
      /\ s_phase' = s_phase
  BY DEF ClientRecv
<1>2. /\ up \in [Conns -> Seq(Seqs)] /\ down \in [Conns -> Seq(Message)]
      /\ Len(down[d]) \in Nat /\ Len(up[d]) \in Nat
  BY FlightTypes, TypeParts DEF RestTypes, PushTypes, Queues
<1>3. Opening' = Opening /\ Opening \in Nat
  BY <1>1 DEF Opening
<1>4. CASE d # c
  <2>1. down'[d] = down[d] /\ up'[d] = up[d]
    BY <1>1, <1>2, <1>4
  <2>2. InFlight(d)' = InFlight(d) /\ InFlight(d) \in Nat
    BY <2>1, FlightTypes DEF InFlight
  <2>3. QED BY <1>3, <2>2
<1>5. CASE d = c
  <2>1. Len(down'[d]) = Len(down[d]) - 1
    <3>1. down'[c] = Tail(down[c])
      BY <1>1, <1>2
    <3>2. Len(Tail(down[c])) = Len(down[c]) - 1
      BY <1>1, <1>2, HeadTailProperties
    <3>3. QED BY <1>5, <3>1, <3>2
  <2>2. Len(up'[d]) <= Len(up[d]) + 1
    <3>1. m.seq \in Seqs
      <4>1. m \in Message
        BY <1>1, <1>2, HeadTailProperties
      <4>2. QED BY <4>1 DEF Message, Seqs
    <3>2. Len(Append(up[c], m.seq)) = Len(up[c]) + 1
      BY <1>2, <3>1, AppendProperties
    <3> HIDE DEF m
    <3>3. up'[c] \in {up[c], Append(up[c], m.seq)}
      BY <1>1, <1>2
    <3>4. QED BY <1>2, <1>5, <3>2, <3>3
  <2>3. Len(up'[d]) \in Nat /\ Len(down'[d]) \in Nat
    BY FlightTypes
  <2>4. \A a, b, x, y, z \in Nat : (x = a - 1 /\ y <= b + 1) =>
          (x + y) + z <= (a + b) + z
    OBVIOUS
  <2>5. QED BY <1>2, <1>3, <2>1, <2>2, <2>3, <2>4 DEF InFlight
<1>6. QED BY <1>4, <1>5

(* The end of a session. *)
LEMMA LeavesFlight ==
    ASSUME IsFiniteSet(Conns), TypeOK, TypeOK', FlightInv, NEW c \in Conns,
           \/ LeaveHandshake(c) \/ LeaveLast(c) \/ LeaveFFSplit(c)
           \/ LeaveLms(c)
    PROVE  FlightInv'
<1> DEFINE i == sess[c].ff_idx
           t == Remove(ff, i)
           tp == [s_tp EXCEPT ![i] = NoConn]
           last == [s_lms_last EXCEPT ![i] = "NEW"]
<1>1. sess[c].st = "CLOSING" /\ Hangup(c)
  BY DEF LeaveHandshake, LeaveLast, LeaveFFSplit, LeaveLms, ReleaseSlot
<1>2. \/ down' = Drained(c)
      \/ Recompute(t, tp, Drained(c))
      \/ Refresh(t, tp, last, {}, Drained(c))
  BY Zenon DEF LeaveHandshake, LeaveLast, LeaveFFSplit, LeaveLms
<1> HIDE DEF i, t, tp, last
<1>3. /\ sess' = [sess EXCEPT ![c] = FreeSession]
      /\ up' = [up EXCEPT ![c] = <<>>]
  BY <1>1 DEF Hangup
<1>4. /\ sess \in [Conns -> Session] /\ up \in [Conns -> Seq(Seqs)]
      /\ down \in [Conns -> Seq(Message)]
  BY TypeParts DEF RestTypes, PushTypes, Queues
<1>5. c \in Taken /\ Taken' = Taken \ {c}
  BY <1>1, <1>3, <1>4 DEF Taken, FreeSession
<1>6. ASSUME NEW d \in Conns PROVE InFlight(d)' <= InFlight(d) + 1
  <2>1. /\ Len(down[d]) \in Nat /\ Len(up[d]) \in Nat
        /\ Len(down'[d]) \in Nat /\ Len(up'[d]) \in Nat
    BY FlightTypes
  <2>2. Len(up'[d]) <= Len(up[d])
    <3>1. up'[d] \in {up[d], <<>>} /\ Len(<<>>) = 0
      BY <1>3, <1>4
    <3>2. QED BY <2>1, <3>1
  <2>3. Drained(c)[d] \in Seq(Message) /\ Len(Drained(c)[d]) <= Len(down[d])
    <3>1. Drained(c)[d] \in {down[d], <<>>} /\ Len(<<>>) = 0
      BY <1>4 DEF Drained
    <3>2. CASE Drained(c)[d] = down[d]
      BY <1>4, <2>1, <3>2
    <3>3. CASE Drained(c)[d] = <<>>
      <4>1. <<>> \in Seq(Message)
        OBVIOUS
      <4>2. QED BY <2>1, <3>1, <3>3, <4>1
    <3>4. QED BY <3>1, <3>2, <3>3
  <2>4. Len(down'[d]) <= Len(Drained(c)[d]) + 1
    <3>1. Len(Drained(c)[d]) \in Nat
      BY <2>3, LenProperties
    <3>2. CASE down' = Drained(c)
      BY <3>1, <3>2
    <3>3. CASE Recompute(t, tp, Drained(c))
      BY <2>3, <3>3, RecomputeLen
    <3>4. CASE Refresh(t, tp, last, {}, Drained(c))
      BY <2>3, <3>4, RefreshLen
    <3>5. QED BY <1>2, <3>2, <3>3, <3>4
  <2>5. \A a, b, x, y, z \in Nat : (a <= b /\ y <= z /\ x <= y + 1) =>
          x + a <= (z + b) + 1
    OBVIOUS
  <2>6. Len(Drained(c)[d]) \in Nat
    BY <2>3, LenProperties
  <2>7. QED BY <2>1, <2>2, <2>3, <2>4, <2>5, <2>6 DEF InFlight
<1>7. QED BY <1>5, <1>6, LeaveFlight

(* A report: at most a reply and a push more for each connection. *)
LEMMA ReportFlight ==
    ASSUME IsFiniteSet(Conns), TypeOK, TypeOK', Room, UNCHANGED up,
           NEW c \in Conns, NEW t, NEW s, NEW last, NEW excl,
           NEW vote \in {"WAIT", "ACK", "NACK"},
           \/ down' = down
           \/ RecomputeIfComplete(s, t)
           \/ down' = WithReply(c, vote)
           \/ Refresh(t, s_tp, last, excl, WithReply(c, vote))
    PROVE  FlightInv'
<1>1. ASSUME NEW d \in Conns PROVE InFlight(d)' <= InFlight(d) + 2
  <2>1. /\ Len(down[d]) \in Nat /\ Len(up[d]) \in Nat /\ up'[d] = up[d]
        /\ Len(down'[d]) \in Nat /\ down[d] \in Seq(Message)
    BY FlightTypes
  <2>2. /\ WithReply(c, vote)[d] \in Seq(Message)
        /\ Len(WithReply(c, vote)[d]) <= Len(down[d]) + 1
        /\ Len(WithReply(c, vote)[d]) \in Nat
    BY WithReplyLen, LenProperties
  <2>3. Len(down'[d]) <= Len(down[d]) + 2
    <3>1. CASE down' = down
      BY <2>1, <3>1
    <3>2. CASE Recompute(t, s_tp, down)
      <4>1. Len(down'[d]) <= Len(down[d]) + 1
        BY <2>1, <3>2, RecomputeLen
      <4>2. QED BY <2>1, <4>1
    <3>3. CASE down' = WithReply(c, vote)
      BY <2>1, <2>2, <3>3
    <3>4. CASE Refresh(t, s_tp, last, excl, WithReply(c, vote))
      <4>1. Len(down'[d]) <= Len(WithReply(c, vote)[d]) + 1
        BY <2>2, <3>4, RefreshLen
      <4>2. QED BY <2>1, <2>2, <4>1
    <3>5. RecomputeIfComplete(s, t) => Recompute(t, s_tp, down) \/ down' = down
      BY Zenon DEF RecomputeIfComplete, pushVars
    <3>6. QED BY <3>1, <3>2, <3>3, <3>4, <3>5
  <2>4. \A a, b, x \in Nat : x <= b + 2 => x + a <= (b + a) + 2
    OBVIOUS
  <2>5. QED BY <2>1, <2>3, <2>4 DEF InFlight
<1>2. QED BY <1>1, RoomStep

LEMMA FlightStep ==
    ASSUME IsFiniteSet(Conns), TypeOK, TypeOK', SlotInv, FlightInv, Next
    PROVE  FlightInv'
<1>0. PICK c \in Conns :
      \/ Connect(c)
      \/ \E name \in Names : Preinit(c, name)
      \/ \E name \in Names : PreinitRefused(c, name)
      \/ \E n \in NodeIds, algo \in Algos, tb \in TieBreakers :
            InitMsg(c, n, algo, tb)
      \/ \E cfg \in Configs : ConfigList(c, cfg)
      \/ \E v \in Views, h \in Heurs : MembershipList(c, v, h)
      \/ \E h \in Heurs : HeuristicsChange(c, h)
      \/ \E kap \in Kaps : SetOption(c, kap)
      \/ \E v \in Views, h \in Heurs : LmsMembershipList(c, v, h)
      \/ LmsQuorumList(c)
      \/ AskForVote(c)
      \/ VoteInfoReply(c)
      \/ ClientRecv(c)
      \/ Break(c)
      \/ LeaveHandshake(c)
      \/ LeaveLast(c)
      \/ LeaveFFSplit(c)
      \/ LeaveLms(c)
  BY Zenon DEF Next
<1> DEFINE i == sess[c].ff_idx
<1>types. /\ sess \in [Conns -> Session] /\ sess[c] \in Session
          /\ sess[c].st = "ACTIVE" => i \in Slots
          /\ s_lms_last \in [Slots -> LmsResults]
  BY TypeParts DEF RestTypes, SlotInv, ActiveHasSlot
<1>vote. \A t : i \in Slots =>
           LmsVote(t, i, s_lms_last) \in {"WAIT", "ACK", "NACK"}
  BY <1>types, LmsTypes
<1>1. CASE Connect(c) \/ \E kap \in Kaps : SetOption(c, kap)
  <2>1. Room /\ down' = down /\ UNCHANGED up
    BY <1>1 DEF Connect, SetOption, Reports, pushVars
  <2>2. QED BY <2>1, ReportFlight
<1>2. CASE \/ \E cfg \in Configs : ConfigList(c, cfg)
           \/ \E v \in Views, h \in Heurs : MembershipList(c, v, h)
           \/ \E h \in Heurs : HeuristicsChange(c, h)
  <2>1. Room /\ UNCHANGED up /\ \E s, t : RecomputeIfComplete(s, t)
    BY <1>2, Zenon DEF ConfigList, MembershipList, HeuristicsChange, Reports
  <2>2. QED BY <2>1, ReportFlight
<1>3. CASE \/ \E v \in Views, h \in Heurs : LmsMembershipList(c, v, h)
           \/ AskForVote(c)
  <2>1. /\ Room /\ sess[c].st = "ACTIVE" /\ UNCHANGED up
        /\ \E t : LmsDecideAndRefresh(c, t)
    BY <1>3, Zenon DEF LmsMembershipList, AskForVote, Reports
  <2>2. PICK t : LmsDecideAndRefresh(c, t)
    BY <2>1
  <2> DEFINE vote == LmsVote(t, i, s_lms_last)
             last == [s_lms_last EXCEPT ![i] = LmsSaved(t, i, s_lms_last)]
  <2>3. Refresh(t, s_tp, last, {i}, WithReply(c, vote))
    BY <2>2, Zenon DEF LmsDecideAndRefresh
  <2>4. vote \in {"WAIT", "ACK", "NACK"}
    BY <1>types, <1>vote, <2>1
  <2> HIDE DEF vote, last, i
  <2>5. QED BY <2>1, <2>3, <2>4, ReportFlight
<1>4. CASE LmsQuorumList(c)
  <2> DEFINE vote == LmsVote(ff, i, s_lms_last)
  <2>1. /\ Room /\ sess[c].st = "ACTIVE" /\ UNCHANGED up
        /\ down' = WithReply(c, vote)
    BY <1>4, Zenon DEF LmsQuorumList, Reports
  <2>2. vote \in {"WAIT", "ACK", "NACK"}
    BY <1>types, <1>vote, <2>1
  <2> HIDE DEF vote
  <2>3. QED BY <2>1, <2>2, ReportFlight
<1>5. ASSUME UNCHANGED <<down, up, s_phase>>, Taken' = Taken
      PROVE  FlightInv'
  <2>1. \A d \in Conns : InFlight(d)' + Opening' = InFlight(d) + Opening
    BY <1>5 DEF InFlight, Opening
  <2>2. Opening \in Nat /\ \A d \in Conns : InFlight(d) \in Nat
    BY FlightTypes DEF Opening
  <2>3. \A d \in Conns : InFlight(d)' + Opening' <= InFlight(d) + Opening
    BY <2>1, <2>2
  <2>4. QED BY <1>5, <2>3, QuietFlight
<1>6. ASSUME \/ \E name \in Names : Preinit(c, name) \/ PreinitRefused(c, name)
             \/ Break(c)
      PROVE  UNCHANGED <<down, up, s_phase>> /\ Taken' = Taken
  <2>1. UNCHANGED <<down, up, s_phase>>
    BY <1>6 DEF Preinit, PreinitRefused, Break, pushVars
  <2>2. /\ sess[c].st # "FREE" /\ sess'[c].st # "FREE"
        /\ \A d \in Conns \ {c} : sess'[d] = sess[d]
    BY <1>6, <1>types DEF Preinit, PreinitRefused, Break, Session
  <2>3. QED BY <2>1, <2>2 DEF Taken
<1>7. ASSUME NEW n \in NodeIds, NEW algo \in Algos, NEW tb \in TieBreakers,
             InitMsg(c, n, algo, tb)
      PROVE  UNCHANGED <<down, up, s_phase>> /\ Taken' = Taken
  <2> DEFINE s == [sess[c] EXCEPT !.node = n, !.algo = algo]
             a == [s EXCEPT !.st = "ACTIVE", !.ff_idx = SlotFor(ff, n),
                            !.has_config = FALSE, !.has_memb = FALSE]
             b == [s EXCEPT !.st = "CLOSING"]
  <2>1. /\ sess' = [sess EXCEPT ![c] = IF SlotFor(ff, n) # NoSlot THEN a ELSE b]
        /\ sess[c].st = "PREINIT_DONE" /\ UNCHANGED <<down, up, s_phase>>
    BY <1>7, Zenon DEF InitMsg
  <2>2. a.st = "ACTIVE" /\ b.st = "CLOSING"
    BY <1>types DEF Session
  <2> HIDE DEF a, b
  <2>3. /\ sess'[c].st # "FREE"
        /\ \A d \in Conns \ {c} : sess'[d] = sess[d]
    BY <2>1, <2>2, <1>types
  <2>4. QED BY <2>1, <2>3 DEF Taken
<1>8. CASE VoteInfoReply(c)
  <2>1. Taken' = Taken
    BY <1>8 DEF VoteInfoReply, Taken
  <2>2. QED BY <1>8, <2>1, ReplyFlight, QuietFlight
<1>9. CASE ClientRecv(c)
  <2>1. Taken' = Taken
    BY <1>9 DEF ClientRecv, Taken
  <2>2. QED BY <1>9, <2>1, RecvFlight, QuietFlight
<1>10. QED
  BY <1>0, <1>1, <1>2, <1>3, <1>4, <1>5, <1>6, <1>7, <1>8, <1>9, LeavesFlight

(* What is in flight on a connection stays bounded, whichever algorithm    *)
(* serves, whether pushes fail or sessions overlap: reports wait for room, *)
(* and only the ends of the sessions there are push without it.            *)
THEOREM FlightInvariant ==
    ASSUME IsFiniteSet(Conns)
    PROVE  Spec => []FlightInv
<1>1. Init => FlightInv
  <2> SUFFICES ASSUME Init, NEW c \in Conns
               PROVE  InFlight(c) + Opening + 2 * Cardinality(Taken)
                        <= MaxInFlight + 3 + 2 * Cardinality(Conns)
    BY DEF FlightInv
  <2>1. Len(<<>>) = 0 /\ down[c] = <<>> /\ up[c] = <<>> /\ s_phase = 0
    BY DEF Init
  <2>2. InFlight(c) = 0 /\ Opening = 0
    BY <2>1 DEF InFlight, Opening
  <2>3. QED BY <2>2, TakenTypes, MaxInFlightAssumption
<1>2. TypeOK /\ SlotInv /\ FlightInv /\ (TypeOK /\ SlotInv)' /\ [Next]_vars
        => FlightInv'
  <2> SUFFICES ASSUME TypeOK, TypeOK', SlotInv, FlightInv, [Next]_vars
               PROVE  FlightInv'
    OBVIOUS
  <2>1. CASE UNCHANGED vars
    BY <2>1 DEF vars, pushVars, FlightInv, InFlight, Opening, Taken
  <2>2. QED BY <2>1, FlightStep
<1>3. QED BY <1>1, <1>2, SlotInvariant, PTL DEF Spec
=============================================================================
