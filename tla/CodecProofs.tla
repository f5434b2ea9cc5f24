---------------------------- MODULE CodecProofs ----------------------------
(***************************************************************************)
(* The codec, for any messages, any base, any stash and any limits: what   *)
(* the decoder accepts, that it looks at the frame alone, and that what a  *)
(* builder makes is decoded to what it means.                              *)
(***************************************************************************)
EXTENDS Codec, SequenceTheorems, WellFoundedInduction, TLAPS

(* Every nonempty set of naturals has a least element. *)
LEMMA LeastElement ==
    ASSUME NEW S \in SUBSET Nat, S # {}
    PROVE  \E x \in S : \A y \in S : x <= y
<1> DEFINE R == {ss \in Nat \X Nat : ss[1] < ss[2]}
<1>1. OpToRel(<, Nat) = R
  BY Zenon DEF OpToRel
<1>2. PICK x \in S : \A y \in S : ~ (<<y, x>> \in R)
  <2>1. IsWellFoundedOn(R, Nat)
    BY <1>1, NatLessThanWellFounded, Zenon
  <2> HIDE DEF R
  <2>2. QED BY <2>1, WFMin
<1>3. ASSUME NEW y \in S PROVE x <= y
  <2>1. CASE y < x
    <3>1. <<y, x>> \in R
      BY <2>1
    <3>2. QED BY <1>2, <3>1
  <2>2. QED BY <2>1
<1>4. QED BY <1>3

(* A set with 0 that is closed under successor has all naturals. *)
LEMMA Induction ==
    ASSUME NEW S, 0 \in S, \A n \in Nat : n \in S => n + 1 \in S
    PROVE  Nat \subseteq S
<1> DEFINE C == Nat \ S
<1>1. CASE C # {}
  <2>1. PICK x \in C : \A y \in C : x <= y
    BY <1>1, LeastElement
  <2>2. x - 1 \in Nat /\ x - 1 \in S
    BY <2>1
  <2>3. QED BY <2>2
<1>2. QED BY <1>1

-----------------------------------------------------------------------------
(* Sequences *)

LEMMA Joined ==
    ASSUME NEW C, NEW a \in Seq(C), NEW b \in Seq(C)
    PROVE  a \o b \in Seq(C) /\ Len(a \o b) = Len(a) + Len(b)
BY ConcatProperties

(* The cells from offset at on are these. *)
Holds(s, at, cells) == \A i \in 1 .. Len(cells) : s[at + i] = cells[i]

LEMMA HoldsBoth ==
    ASSUME NEW C, NEW a \in Seq(C), NEW b \in Seq(C), NEW s, NEW at \in Nat
    PROVE  Holds(s, at, a \o b) <=> Holds(s, at, a) /\ Holds(s, at + Len(a), b)
<1> DEFINE c == a \o b
<1>1. /\ Len(c) = Len(a) + Len(b) /\ Len(a) \in Nat /\ Len(b) \in Nat
      /\ \A i \in 1 .. Len(a) + Len(b) :
           c[i] = IF i <= Len(a) THEN a[i] ELSE b[i - Len(a)]
  BY ConcatProperties
<1> HIDE DEF c
<1>2. ASSUME Holds(s, at, c) PROVE Holds(s, at, a) /\ Holds(s, at + Len(a), b)
  <2>1. ASSUME NEW i \in 1 .. Len(a) PROVE s[at + i] = a[i]
    BY <1>1, <1>2 DEF Holds
  <2>2. ASSUME NEW i \in 1 .. Len(b) PROVE s[at + Len(a) + i] = b[i]
    <3>1. /\ Len(a) + i \in 1 .. Len(a) + Len(b) /\ ~(Len(a) + i <= Len(a))
          /\ Len(a) + i - Len(a) = i /\ at + (Len(a) + i) = at + Len(a) + i
      BY <1>1
    <3>2. QED BY <1>1, <1>2, <3>1 DEF Holds
  <2>3. QED BY <2>1, <2>2 DEF Holds
<1>3. ASSUME Holds(s, at, a), Holds(s, at + Len(a), b) PROVE Holds(s, at, c)
  <2>1. ASSUME NEW i \in 1 .. Len(a) + Len(b) PROVE s[at + i] = c[i]
    <3>1. CASE i <= Len(a)
      BY <1>1, <1>3, <3>1 DEF Holds
    <3>2. CASE ~(i <= Len(a))
      <4>1. i - Len(a) \in 1 .. Len(b) /\ at + Len(a) + (i - Len(a)) = at + i
        BY <1>1, <3>2
      <4>2. QED BY <1>1, <1>3, <3>2, <4>1 DEF Holds
    <3>3. QED BY <3>1, <3>2
  <2>2. QED BY <1>1, <2>1 DEF Holds
<1>4. QED BY <1>2, <1>3 DEF c

-----------------------------------------------------------------------------
(* Numbers *)

LEMMA Bases ==
    /\ Base \in Nat /\ Base > 4
    /\ Base2 \in Nat /\ Base2 >= 25 /\ Base2 = Base * Base
    /\ Base4 \in Nat /\ Base4 >= 625 /\ Base4 = Base2 * Base2
<1>1. Base \in Nat /\ Base > 4
  BY SizesAssumption
<1>2. Base2 \in Nat /\ Base2 >= 25
  BY <1>1 DEF Base2
<1>3. Base4 \in Nat /\ Base4 >= 625
  BY <1>2 DEF Base4
<1>4. QED BY <1>1, <1>2, <1>3 DEF Base2, Base4

(* A number below b * c is made of a quotient below c and a rest below b. *)
LEMMA Division ==
    ASSUME NEW b \in Nat, NEW c \in Nat, b > 0, NEW v \in Nat, v < b * c
    PROVE  /\ v \div b \in 0 .. c - 1 /\ v % b \in 0 .. b - 1
           /\ (v \div b) * b + (v % b) = v
<1>1. v % b \in 0 .. b - 1
  OBVIOUS
<1>2. v \div b \in 0 .. c - 1
  OBVIOUS
<1>3. (v \div b) * b + (v % b) = v
  OBVIOUS
<1>4. QED BY <1>1, <1>2, <1>3

(* Two numbers put together. *)
LEMMA Composition ==
    ASSUME NEW b \in Nat, NEW c \in Nat, b > 0,
           NEW x \in 0 .. c - 1, NEW y \in 0 .. b - 1
    PROVE  x * b + y \in 0 .. b * c - 1
<1>1. x * b <= (c - 1) * b
  OBVIOUS
<1>2. (c - 1) * b = b * c - b
  OBVIOUS
<1>3. x * b \in Nat /\ b * c \in Nat
  OBVIOUS
<1>4. QED BY <1>1, <1>2, <1>3

LEMMA GetU16Type ==
    ASSUME NEW s, NEW at \in Nat, s[at + 1] \in Cell, s[at + 2] \in Cell
    PROVE  GetU16(s, at) \in 0 .. Base2 - 1
BY Composition, Bases DEF GetU16, Cell

LEMMA GetU32Type ==
    ASSUME NEW s, NEW at \in Nat, \A i \in 1 .. 4 : s[at + i] \in Cell
    PROVE  GetU32(s, at) \in 0 .. Base4 - 1
<1>1. GetU16(s, at) \in 0 .. Base2 - 1
  BY GetU16Type
<1>2. GetU16(s, at + 2) \in 0 .. Base2 - 1
  <2>1. at + 2 \in Nat /\ at + 2 + 1 = at + 3 /\ at + 2 + 2 = at + 4
    OBVIOUS
  <2>2. s[at + 2 + 1] \in Cell /\ s[at + 2 + 2] \in Cell
    BY <2>1
  <2>3. QED BY <2>1, <2>2, GetU16Type
<1>3. QED BY <1>1, <1>2, Composition, Bases DEF GetU32

Widths == {1, 2, 4, 8}

LEMMA GetType ==
    ASSUME NEW s, NEW at \in Nat, NEW w \in Widths,
           \A i \in 1 .. w : s[at + i] \in Cell
    PROVE  Get(s, at, w) \in Number(w)
<1>1. CASE w = 1
  BY <1>1, Bases DEF Get, Number, Limit, Cell
<1>2. CASE w = 2
  <2>1. GetU16(s, at) \in 0 .. Base2 - 1
    BY <1>2, GetU16Type
  <2>2. QED BY <1>2, <2>1 DEF Get, Number, Limit
<1>3. CASE w = 4
  <2>1. GetU32(s, at) \in 0 .. Base4 - 1
    BY <1>3, GetU32Type
  <2>2. QED BY <1>3, <2>1 DEF Get, Number, Limit
<1>4. CASE w = 8
  <2>1. GetU32(s, at) \in 0 .. Base4 - 1
    BY <1>4, GetU32Type
  <2>2. GetU32(s, at + 4) \in 0 .. Base4 - 1
    <3>1. \A i \in 1 .. 4 : at + 4 + i = at + (i + 4) /\ i + 4 \in 1 .. 8
      OBVIOUS
    <3>2. \A i \in 1 .. 4 : s[at + 4 + i] \in Cell
      BY <1>4, <3>1
    <3>3. QED BY <3>2, GetU32Type
  <2>3. GetU32(s, at) * Base4 + GetU32(s, at + 4) \in 0 .. Base4 * Base4 - 1
    BY <2>1, <2>2, Composition, Bases
  <2>4. QED BY <1>4, <2>3 DEF Get, Number, Limit
<1>5. QED BY <1>1, <1>2, <1>3, <1>4 DEF Widths

(* What is read depends on the cells that are read. *)
LEMMA GetSame ==
    ASSUME NEW s, NEW t, NEW at \in Nat, NEW w \in Widths,
           \A i \in 1 .. w : s[at + i] = t[at + i]
    PROVE  Get(s, at, w) = Get(t, at, w)
<1>1. CASE w = 1
  BY <1>1 DEF Get
<1>2. CASE w = 2
  BY <1>2 DEF Get, GetU16
<1>3. CASE w = 4
  <2>1. GetU32(s, at) = GetU32(t, at)
    <3>1. at + 2 + 1 = at + 3 /\ at + 2 + 2 = at + 4
      OBVIOUS
    <3>2. QED BY <1>3, <3>1 DEF GetU32, GetU16
  <2>2. QED BY <1>3, <2>1 DEF Get
<1>4. CASE w = 8
  <2>1. /\ at + 2 + 1 = at + 3 /\ at + 2 + 2 = at + 4
        /\ at + 4 + 1 = at + 5 /\ at + 4 + 2 = at + 6
        /\ at + 4 + 2 + 1 = at + 7 /\ at + 4 + 2 + 2 = at + 8
    OBVIOUS
  <2>2. GetU32(s, at) = GetU32(t, at) /\ GetU32(s, at + 4) = GetU32(t, at + 4)
    BY <1>4, <2>1 DEF GetU32, GetU16
  <2>3. QED BY <1>4, <2>2 DEF Get
<1>5. QED BY <1>1, <1>2, <1>3, <1>4 DEF Widths

LEMMA PutU16Facts ==
    ASSUME NEW v \in 0 .. Base2 - 1
    PROVE  /\ PutU16(v) \in Seq(Cell) /\ Len(PutU16(v)) = 2
           /\ \A s, at : at \in Nat /\ Holds(s, at, PutU16(v)) => GetU16(s, at) = v
<1>1. /\ v \div Base \in 0 .. Base - 1 /\ v % Base \in 0 .. Base - 1
      /\ (v \div Base) * Base + (v % Base) = v
  BY Division, Bases
<1>2. (v \div Base) % Base = v \div Base
  BY <1>1, Bases
<1>3. PutU16(v) = <<v \div Base, v % Base>>
  BY <1>2 DEF PutU16
<1>4. PutU16(v) \in Seq(Cell) /\ Len(PutU16(v)) = 2
  BY <1>1, <1>3 DEF Cell
<1>5. ASSUME NEW s, NEW at, at \in Nat, Holds(s, at, PutU16(v))
      PROVE  GetU16(s, at) = v
  <2>1. s[at + 1] = v \div Base /\ s[at + 2] = v % Base
    BY <1>3, <1>4, <1>5 DEF Holds
  <2>2. QED BY <1>1, <2>1 DEF GetU16
<1>6. QED BY <1>4, <1>5

LEMMA PutU32Facts ==
    ASSUME NEW v \in 0 .. Base4 - 1
    PROVE  /\ PutU32(v) \in Seq(Cell) /\ Len(PutU32(v)) = 4
           /\ \A s, at : at \in Nat /\ Holds(s, at, PutU32(v)) => GetU32(s, at) = v
<1> DEFINE h == PutU16(v \div Base2)
           l == PutU16(v % Base2)
<1>1. /\ v \div Base2 \in 0 .. Base2 - 1 /\ v % Base2 \in 0 .. Base2 - 1
      /\ (v \div Base2) * Base2 + (v % Base2) = v
  BY Division, Bases
<1>2. /\ h \in Seq(Cell) /\ l \in Seq(Cell) /\ Len(h) = 2 /\ Len(l) = 2
      /\ \A s, at : at \in Nat /\ Holds(s, at, h) => GetU16(s, at) = v \div Base2
      /\ \A s, at : at \in Nat /\ Holds(s, at, l) => GetU16(s, at) = v % Base2
  BY <1>1, PutU16Facts
<1>3. PutU32(v) = h \o l
  BY DEF PutU32
<1> HIDE DEF h, l
<1>4. PutU32(v) \in Seq(Cell) /\ Len(PutU32(v)) = 4
  <2>1. h \o l \in Seq(Cell) /\ Len(h \o l) = Len(h) + Len(l)
    BY <1>2, Joined, Zenon
  <2>2. Len(h) + Len(l) = 4
    BY <1>2
  <2>3. QED BY <1>3, <2>1, <2>2
<1>5. ASSUME NEW s, NEW at, at \in Nat, Holds(s, at, PutU32(v))
      PROVE  GetU32(s, at) = v
  <2>a. h \in Seq(Cell) /\ l \in Seq(Cell) /\ Holds(s, at, h \o l)
    BY <1>2, <1>3, <1>5
  <2>1. Holds(s, at, h) /\ Holds(s, at + Len(h), l)
    BY <1>5, <2>a, HoldsBoth, Zenon
  <2>2. at + Len(h) = at + 2 /\ at + 2 \in Nat
    BY <1>2, <1>5
  <2>3. GetU16(s, at) = v \div Base2 /\ GetU16(s, at + 2) = v % Base2
    BY <1>2, <1>5, <2>1, <2>2, Zenon
  <2>4. QED BY <1>1, <2>3 DEF GetU32
<1>6. QED BY <1>4, <1>5

(* What put_u16, put_u32 and put_u64 write is what get_u16 ... read. *)
LEMMA PutGet ==
    ASSUME NEW w \in Widths, NEW v \in Number(w)
    PROVE  /\ Put(w, v) \in Seq(Cell) /\ Len(Put(w, v)) = w
           /\ \A s, at : at \in Nat /\ Holds(s, at, Put(w, v)) => Get(s, at, w) = v
<1>1. CASE w = 1
  <2>1. v \in 0 .. Base - 1 /\ v % Base = v
    BY <1>1, Bases DEF Number, Limit
  <2>2. Put(w, v) = <<v>>
    BY <1>1, <2>1 DEF Put
  <2>3. Put(w, v) \in Seq(Cell) /\ Len(Put(w, v)) = 1 /\ Put(w, v)[1] = v
    BY <2>1, <2>2 DEF Cell
  <2>4. ASSUME NEW s, NEW at, at \in Nat, Holds(s, at, Put(w, v))
        PROVE  Get(s, at, w) = v
    <3>1. s[at + 1] = v
      BY <2>3, <2>4 DEF Holds
    <3>2. QED BY <1>1, <3>1 DEF Get
  <2>5. QED BY <1>1, <2>3, <2>4
<1>2. CASE w = 2
  <2>1. v \in 0 .. Base2 - 1
    BY <1>2 DEF Number, Limit
  <2>2. Put(w, v) = PutU16(v)
    BY <1>2 DEF Put
  <2>3. QED BY <1>2, <2>1, <2>2, PutU16Facts DEF Get
<1>3. CASE w = 4
  <2>1. v \in 0 .. Base4 - 1
    BY <1>3 DEF Number, Limit
  <2>2. Put(w, v) = PutU32(v)
    BY <1>3 DEF Put
  <2>3. QED BY <1>3, <2>1, <2>2, PutU32Facts DEF Get
<1>4. CASE w = 8
  <2> DEFINE h == PutU32(v \div Base4)
             l == PutU32(v % Base4)
  <2>1. /\ v \div Base4 \in 0 .. Base4 - 1 /\ v % Base4 \in 0 .. Base4 - 1
        /\ (v \div Base4) * Base4 + (v % Base4) = v
    <3>1. v \in Nat /\ v < Base4 * Base4
      BY <1>4, Bases DEF Number, Limit
    <3>2. Base4 \in Nat /\ Base4 > 0
      BY Bases
    <3>3. QED BY <3>1, <3>2, Division
  <2>2. /\ h \in Seq(Cell) /\ l \in Seq(Cell) /\ Len(h) = 4 /\ Len(l) = 4
        /\ \A s, at : at \in Nat /\ Holds(s, at, h) => GetU32(s, at) = v \div Base4
        /\ \A s, at : at \in Nat /\ Holds(s, at, l) => GetU32(s, at) = v % Base4
    BY <2>1, PutU32Facts
  <2>3. Put(w, v) = h \o l
    BY <1>4 DEF Put
  <2> HIDE DEF h, l
  <2>4. Put(w, v) \in Seq(Cell) /\ Len(Put(w, v)) = 8
    <3>1. h \o l \in Seq(Cell) /\ Len(h \o l) = Len(h) + Len(l)
      BY <2>2, Joined, Zenon
    <3>2. Len(h) + Len(l) = 8
      BY <2>2
    <3>3. QED BY <2>3, <3>1, <3>2
  <2>5. ASSUME NEW s, NEW at, at \in Nat, Holds(s, at, Put(w, v))
        PROVE  Get(s, at, w) = v
    <3>a. h \in Seq(Cell) /\ l \in Seq(Cell) /\ Holds(s, at, h \o l)
      BY <2>2, <2>3, <2>5
    <3>1. Holds(s, at, h) /\ Holds(s, at + Len(h), l)
      BY <2>5, <3>a, HoldsBoth, Zenon
    <3>2. at + Len(h) = at + 4 /\ at + 4 \in Nat
      BY <2>2, <2>5
    <3>3. GetU32(s, at) = v \div Base4 /\ GetU32(s, at + 4) = v % Base4
      BY <2>2, <2>5, <3>1, <3>2, Zenon
    <3>4. QED BY <1>4, <2>1, <3>3 DEF Get
  <2>6. QED BY <1>4, <2>4, <2>5
<1>5. QED BY <1>1, <1>2, <1>3, <1>4 DEF Widths

-----------------------------------------------------------------------------
(* The iterator *)

(* The first end cells of s are cells. *)
Bytes(s, end) == end \in Nat /\ \A i \in 1 .. end : s[i] \in Cell

(* qesp_tlv_iter_next has nothing more to give, or finds an error. *)
Stops(s, end, p) == AtEnd(p, end) \/ p + 4 > end \/ After(s, p) > end

LEMMA HeaderType ==
    ASSUME NEW s, NEW end, Bytes(s, end), NEW p \in Nat, p + 4 <= end
    PROVE  /\ Get(s, p, 2) \in Number(2) /\ Get(s, p + 2, 2) \in Number(2)
           /\ Number(2) \subseteq Nat
           /\ After(s, p) \in Nat /\ After(s, p) >= p + 4
<1>1. 2 \in Widths
  BY DEF Widths
<1>2. \A i \in 1 .. 2 : s[p + i] \in Cell
  BY DEF Bytes
<1>3. \A i \in 1 .. 2 : s[p + 2 + i] \in Cell
  BY DEF Bytes
<1>4. Get(s, p, 2) \in Number(2) /\ Get(s, p + 2, 2) \in Number(2)
  BY <1>1, <1>2, <1>3, GetType
<1>5. Number(2) \subseteq Nat
  BY Bases DEF Number, Limit
<1>6. QED BY <1>4, <1>5 DEF After

(* An assertion about offsets that holds where the iterator stops, and of  *)
(* an option when it holds of the next, holds everywhere.                  *)
LEMMA OffsetInduction ==
    ASSUME NEW s, NEW end, Bytes(s, end), NEW S,
           \A p \in Nat : Stops(s, end, p) => p \in S,
           \A p \in Nat : ~Stops(s, end, p) /\ After(s, p) \in S => p \in S
    PROVE  Nat \subseteq S
<1> DEFINE T == {k \in Nat : \A p \in Nat : p + k >= end => p \in S}
<1>1. end \in Nat
  BY DEF Bytes
<1>2. 0 \in T
  <2>1. \A p \in Nat : p + 0 >= end => AtEnd(p, end) \/ p + 4 > end
    BY <1>1 DEF AtEnd
  <2>2. QED BY <2>1 DEF Stops
<1>3. ASSUME NEW k \in Nat, k \in T PROVE k + 1 \in T
  <2>1. ASSUME NEW p \in Nat, p + (k + 1) >= end PROVE p \in S
    <3>1. CASE Stops(s, end, p)
      BY <3>1
    <3>2. CASE ~Stops(s, end, p)
      <4>1. p + 4 <= end
        BY <1>1, <3>2 DEF Stops
      <4>2. After(s, p) \in Nat /\ After(s, p) >= p + 4
        BY <4>1, HeaderType
      <4>3. After(s, p) \in S
        BY <1>1, <1>3, <2>1, <4>2
      <4>4. QED BY <3>2, <4>3
    <3>3. QED BY <3>1, <3>2
  <2>2. QED BY <2>1
<1>4. Nat \subseteq T
  <2> HIDE DEF T
  <2>1. QED BY <1>2, <1>3, Induction
<1>5. QED BY <1>1, <1>4

IterStep(s, end, f, p) ==
    IF AtEnd(p, end) THEN <<>>
    ELSE IF p + 4 > end \/ After(s, p) > end THEN <<Broken>>
    ELSE <<TlvAt(s, p)>> \o f[After(s, p)]

(* The recursion of the iterator is well-founded. *)
LEMMA IterExists ==
    ASSUME NEW s, NEW end, Bytes(s, end)
    PROVE  \E f : f = [p \in Nat |-> IterStep(s, end, f, p)]
<1> DEFINE Good(f, k) == /\ f = [p \in Nat |-> f[p]]
                         /\ \A p \in Nat : p + k >= end =>
                                             f[p] = IterStep(s, end, f, p)
           S == {k \in Nat : \E f : Good(f, k)}
<1>1. end \in Nat
  BY DEF Bytes
<1>2. 0 \in S
  <2> DEFINE f == [p \in Nat |-> IF AtEnd(p, end) THEN <<>> ELSE <<Broken>>]
  <2>1. ASSUME NEW p \in Nat, p + 0 >= end PROVE f[p] = IterStep(s, end, f, p)
    <3>1. AtEnd(p, end) \/ p + 4 > end
      BY <1>1, <2>1 DEF AtEnd
    <3>2. f[p] = IF AtEnd(p, end) THEN <<>> ELSE <<Broken>>
      OBVIOUS
    <3> HIDE DEF f
    <3>3. QED BY <3>1, <3>2 DEF IterStep
  <2>2. Good(f, 0)
    BY <2>1
  <2>3. QED BY <2>2
<1>3. ASSUME NEW k \in Nat, k \in S PROVE k + 1 \in S
  <2>1. PICK f : Good(f, k)
    BY <1>3
  <2> DEFINE g == [p \in Nat |-> IF p + (k + 1) = end THEN IterStep(s, end, f, p)
                                 ELSE f[p]]
  <2>2. ASSUME NEW p \in Nat, p + (k + 1) >= end PROVE g[p] = IterStep(s, end, g, p)
    <3>1. g[p] = IterStep(s, end, f, p)
      <4>1. CASE p + (k + 1) = end
        BY <4>1
      <4>2. CASE p + (k + 1) # end
        <5>1. p + k >= end /\ g[p] = f[p]
          BY <1>1, <2>2, <4>2
        <5>2. QED BY <2>1, <5>1
      <4>3. QED BY <4>1, <4>2
    <3>2. CASE Stops(s, end, p)
      <4> HIDE DEF g
      <4>1. QED BY <3>1, <3>2 DEF Stops, IterStep
    <3>3. CASE ~Stops(s, end, p)
      <4>1. p + 4 <= end
        BY <1>1, <3>3 DEF Stops
      <4>2. After(s, p) \in Nat /\ After(s, p) >= p + 4
        BY <4>1, HeaderType
      <4>3. g[After(s, p)] = f[After(s, p)]
        BY <1>1, <2>2, <4>2
      <4> HIDE DEF g
      <4>4. QED BY <3>1, <4>3 DEF IterStep
    <3>4. QED BY <3>2, <3>3
  <2>3. g = [p \in Nat |-> g[p]]
    OBVIOUS
  <2>4. Good(g, k + 1)
    BY <2>2, <2>3
  <2>5. \E h : Good(h, k + 1)
    <3> HIDE DEF Good, g
    <3>1. QED BY <2>4, Zenon
  <2>6. k + 1 \in Nat
    OBVIOUS
  <2> HIDE DEF Good
  <2>7. QED BY <2>5, <2>6, Zenon
<1>4. end \in S
  <2> HIDE DEF S
  <2>1. Nat \subseteq S
    BY <1>2, <1>3, Induction
  <2>2. QED BY <1>1, <2>1
<1>5. PICK f : Good(f, end)
  BY <1>4
<1>6. \A p \in Nat : f[p] = IterStep(s, end, f, p)
  BY <1>1, <1>5
<1>7. f = [p \in Nat |-> f[p]]
  BY <1>5
<1>8. [p \in Nat |-> f[p]] = [p \in Nat |-> IterStep(s, end, f, p)]
  BY <1>6
<1>9. QED BY <1>7, <1>8, Zenon

LEMMA IterDef ==
    ASSUME NEW s, NEW end, Bytes(s, end), NEW p \in Nat
    PROVE  Iter(s, end)[p] = IterStep(s, end, Iter(s, end), p)
<1> DEFINE Body(f) == [q \in Nat |-> IterStep(s, end, f, q)]
           it == Iter(s, end)
<1>1. it = CHOOSE f : f = Body(f)
  BY Zenon DEF Iter, IterStep
<1>2. it = Body(it)
  <2>1. \E f : f = Body(f)
    BY IterExists
  <2> HIDE DEF Body, it
  <2>2. QED BY <1>1, <2>1
<1> HIDE DEF it
<1>3. it[p] = Body(it)[p]
  BY <1>2, Zenon
<1>4. Body(it)[p] = IterStep(s, end, it, p)
  OBVIOUS
<1>5. QED BY <1>3, <1>4 DEF it

(* What the iterator finds: an error, or an option that lies before end. *)
Found(end) ==
    {Broken} \cup {t \in [code : Number(2), at : Nat, len : Number(2), bad : {FALSE}] :
                     t.at + t.len <= end}

LEMMA IterType ==
    ASSUME NEW s, NEW end, Bytes(s, end), NEW p \in Nat
    PROVE  Iter(s, end)[p] \in Seq(Found(end))
<1> DEFINE it == Iter(s, end)
           S == {q \in Nat : it[q] \in Seq(Found(end))}
<1>1. end \in Nat
  BY DEF Bytes
<1>2. \A q \in Nat : it[q] = IterStep(s, end, it, q)
  BY IterDef
<1> HIDE DEF it
<1>3. ASSUME NEW q \in Nat, Stops(s, end, q) PROVE q \in S
  <2>1. it[q] = <<>> \/ it[q] = <<Broken>>
    BY <1>2, <1>3 DEF Stops, IterStep
  <2>2. Broken \in Found(end)
    BY DEF Found
  <2>3. it[q] \in Seq(Found(end))
    <3>1. <<>> \in Seq(Found(end))
      OBVIOUS
    <3>2. <<Broken>> \in Seq(Found(end))
      BY <2>2
    <3>3. QED BY <2>1, <3>1, <3>2, Zenon
  <2>4. QED BY <2>3
<1>4. ASSUME NEW q \in Nat, ~Stops(s, end, q), After(s, q) \in S PROVE q \in S
  <2>1. q + 4 <= end /\ After(s, q) <= end
    <3>1. q + 4 <= end
      BY <1>1, <1>4 DEF Stops
    <3>2. After(s, q) \in Nat
      BY <3>1, HeaderType
    <3>3. QED BY <1>1, <1>4, <3>1, <3>2 DEF Stops
  <2>2. it[q] = <<TlvAt(s, q)>> \o it[After(s, q)]
    <3>1. ~AtEnd(q, end) /\ ~(q + 4 > end) /\ ~(After(s, q) > end)
      BY <1>4 DEF Stops
    <3>2. QED BY <1>2, <3>1 DEF IterStep
  <2>3. TlvAt(s, q) \in Found(end)
    <3>1. /\ Get(s, q, 2) \in Number(2) /\ Get(s, q + 2, 2) \in Number(2)
          /\ Number(2) \subseteq Nat
      BY <2>1, HeaderType
    <3>2. q + 4 + Get(s, q + 2, 2) <= end
      BY <2>1 DEF After
    <3>3. QED BY <3>1, <3>2 DEF TlvAt, Found
  <2>4. it[After(s, q)] \in Seq(Found(end))
    BY <1>4
  <2>5. <<TlvAt(s, q)>> \in Seq(Found(end))
    BY <2>3
  <2>6. it[q] \in Seq(Found(end))
    <3> HIDE DEF S
    <3>1. QED BY <2>2, <2>4, <2>5, Joined
  <2>7. QED BY <2>6
<1>5. Nat \subseteq S
  <2> HIDE DEF S
  <2>1. QED BY <1>3, <1>4, OffsetInduction
<1>6. QED BY <1>5 DEF it

(* The iterator reads nothing behind end. *)
LEMMA IterSame ==
    ASSUME NEW s, NEW t, NEW end, Bytes(s, end), Bytes(t, end),
           \A i \in 1 .. end : s[i] = t[i], NEW p \in Nat
    PROVE  Iter(s, end)[p] = Iter(t, end)[p]
<1> DEFINE f == Iter(s, end)
           g == Iter(t, end)
           S == {q \in Nat : f[q] = g[q]}
<1>1. end \in Nat
  BY DEF Bytes
<1>2. \A q \in Nat : /\ f[q] = IterStep(s, end, f, q)
                     /\ g[q] = IterStep(t, end, g, q)
  BY IterDef
<1> HIDE DEF f, g
<1>3. ASSUME NEW q \in Nat, q + 4 <= end
      PROVE  TlvAt(s, q) = TlvAt(t, q) /\ After(s, q) = After(t, q)
  <2>1. 2 \in Widths
    BY DEF Widths
  <2>2. Get(s, q, 2) = Get(t, q, 2)
    <3>1. \A i \in 1 .. 2 : s[q + i] = t[q + i]
      BY <1>1, <1>3
    <3>2. QED BY <2>1, <3>1, GetSame
  <2>3. Get(s, q + 2, 2) = Get(t, q + 2, 2)
    <3> DEFINE r == q + 2
    <3>1. r \in Nat /\ \A i \in 1 .. 2 : s[r + i] = t[r + i]
      BY <1>1, <1>3
    <3> HIDE DEF r
    <3>2. Get(s, r, 2) = Get(t, r, 2)
      BY <2>1, <3>1, GetSame
    <3>3. QED BY <3>2 DEF r
  <2>4. QED BY <2>2, <2>3 DEF TlvAt, After
<1>4. ASSUME NEW q \in Nat, Stops(s, end, q) PROVE q \in S
  <2>1. Stops(t, end, q) /\ (q + 4 <= end => After(s, q) = After(t, q))
    BY <1>1, <1>3, <1>4 DEF Stops
  <2>2. f[q] = g[q]
    BY <1>1, <1>2, <1>4, <2>1 DEF Stops, IterStep
  <2>3. QED BY <2>2
<1>5. ASSUME NEW q \in Nat, ~Stops(s, end, q), After(s, q) \in S PROVE q \in S
  <2>1. q + 4 <= end
    BY <1>1, <1>5 DEF Stops
  <2>2. TlvAt(s, q) = TlvAt(t, q) /\ After(s, q) = After(t, q)
    BY <1>3, <2>1
  <2>3. f[After(s, q)] = g[After(t, q)]
    BY <1>5, <2>2
  <2>4. ~AtEnd(q, end) /\ ~(q + 4 > end) /\ ~(After(s, q) > end)
    BY <1>5 DEF Stops
  <2>5. f[q] = g[q]
    BY <1>2, <2>2, <2>3, <2>4 DEF IterStep
  <2>6. QED BY <2>5
<1>6. Nat \subseteq S
  <2> HIDE DEF S
  <2>1. QED BY <1>4, <1>5, OffsetInduction
<1>7. QED BY <1>6 DEF f, g

-----------------------------------------------------------------------------
(* Recursion over 0 .. n, and what is built with it *)

(* What holds at 0, and at i + 1 if at i, holds up to n. *)
LEMMA UpTo ==
    ASSUME NEW n \in Nat, NEW S, 0 \in S,
           \A i \in 0 .. n - 1 : i \in S => i + 1 \in S
    PROVE  0 .. n \subseteq S
<1> DEFINE T == {k \in Nat : k <= n => k \in S}
<1>1. 0 \in T
  OBVIOUS
<1>2. \A k \in Nat : k \in T => k + 1 \in T
  OBVIOUS
<1>3. Nat \subseteq T
  <2> HIDE DEF T
  <2>1. QED BY <1>1, <1>2, Induction
<1>4. QED BY <1>3

(* f starts with a, and the i-th step is G[i]. *)
Runs(f, n, X, a, G) ==
    /\ f \in [0 .. n -> X]
    /\ f[0] = a /\ \A i \in 1 .. n : f[i] = G[i][f[i - 1]]
Maps(G, n, X) == G \in [1 .. n -> [X -> X]]

LEMMA Recursion ==
    ASSUME NEW n \in Nat, NEW X, NEW a \in X, NEW G, Maps(G, n, X)
    PROVE  \E f : Runs(f, n, X, a, G)
<1> DEFINE Good(f, k) == f[0] = a /\ \A i \in 1 .. k : f[i] = G[i][f[i - 1]]
           S == {k \in 0 .. n : \E f \in [0 .. n -> X] : Good(f, k)}
<1>1. G \in [1 .. n -> [X -> X]]
  BY DEF Maps
<1>2. 0 \in S
  <2> DEFINE f == [i \in 0 .. n |-> a]
  <2>1. f \in [0 .. n -> X] /\ Good(f, 0)
    OBVIOUS
  <2>2. 0 \in 0 .. n
    OBVIOUS
  <2> HIDE DEF f, Good
  <2>3. QED BY <2>1, <2>2, Zenon
<1>3. ASSUME NEW k \in 0 .. n - 1, k \in S PROVE k + 1 \in S
  <2>1. PICK f \in [0 .. n -> X] : Good(f, k)
    BY <1>3
  <2> DEFINE g == [f EXCEPT ![k + 1] = G[k + 1][f[k]]]
  <2>2. g \in [0 .. n -> X]
    <3>1. f[k] \in X /\ k + 1 \in 1 .. n
      OBVIOUS
    <3>2. QED BY <1>1, <3>1
  <2>3. \A i \in 0 .. n : g[i] = IF i = k + 1 THEN G[k + 1][f[k]] ELSE f[i]
    OBVIOUS
  <2> HIDE DEF g
  <2>4. g[0] = a
    BY <2>1, <2>3
  <2>5. ASSUME NEW i \in 1 .. k + 1 PROVE g[i] = G[i][g[i - 1]]
    <3>1. CASE i = k + 1
      BY <2>3, <3>1
    <3>2. CASE i # k + 1
      BY <2>1, <2>3, <3>2
    <3>3. QED BY <3>1, <3>2
  <2>6. QED BY <2>2, <2>4, <2>5
<1>4. 0 .. n \subseteq S
  <2> HIDE DEF S
  <2>1. QED BY <1>2, <1>3, UpTo
<1>5. n \in S
  BY <1>4
<1>6. QED BY <1>5 DEF Runs

PickStep(s, I, f, i) ==
    IF i = 0 THEN <<>>
    ELSE IF i \in I THEN Append(f[i - 1], s[i]) ELSE f[i - 1]

LEMMA PickDef ==
    ASSUME NEW C, NEW s \in Seq(C), NEW I
    PROVE  \E f \in [0 .. Len(s) -> Seq(C)] :
             /\ Pick(s, I) = f[Len(s)]
             /\ \A i \in 0 .. Len(s) : f[i] = PickStep(s, I, f, i)
<1> DEFINE n == Len(s)
           G == [i \in 1 .. n |-> [x \in Seq(C) |->
                   IF i \in I THEN Append(x, s[i]) ELSE x]]
           Body(f) == [i \in 0 .. n |-> PickStep(s, I, f, i)]
           pick == CHOOSE f : f = Body(f)
<1>1. n \in Nat
  OBVIOUS
<1>2. \E f : f = Body(f)
  <2>1. G \in [1 .. n -> [Seq(C) -> Seq(C)]]
    <3>1. ASSUME NEW x \in Seq(C), NEW i \in 1 .. n
          PROVE  (IF i \in I THEN Append(x, s[i]) ELSE x) \in Seq(C)
      <4>1. s[i] \in C
        OBVIOUS
      <4>2. QED BY <4>1, AppendProperties
    <3>2. QED BY <3>1
  <2>2. \A x \in Seq(C), i \in 1 .. n :
          G[i][x] = IF i \in I THEN Append(x, s[i]) ELSE x
    OBVIOUS
  <2>3. <<>> \in Seq(C)
    OBVIOUS
  <2> HIDE DEF G, n
  <2>4. PICK f \in [0 .. n -> Seq(C)] :
          f[0] = <<>> /\ \A i \in 1 .. n : f[i] = G[i][f[i - 1]]
    <3>1. Maps(G, n, Seq(C))
      BY <2>1 DEF Maps
    <3>2. \E f : Runs(f, n, Seq(C), <<>>, G)
      BY <1>1, <2>3, <3>1, Recursion
    <3>3. QED BY <3>2 DEF Runs
  <2>5. ASSUME NEW i \in 0 .. n PROVE f[i] = PickStep(s, I, f, i)
    <3>1. CASE i = 0
      BY <2>4, <3>1 DEF PickStep
    <3>2. CASE i # 0
      <4>1. i \in 1 .. n /\ f[i - 1] \in Seq(C)
        BY <1>1, <3>2
      <4>2. QED BY <2>2, <2>4, <3>2, <4>1 DEF PickStep
    <3>3. QED BY <3>1, <3>2
  <2>6. f = [i \in 0 .. n |-> f[i]]
    OBVIOUS
  <2>7. [i \in 0 .. n |-> f[i]] = Body(f)
    BY <2>5
  <2>8. f = Body(f)
    <3> HIDE DEF Body
    <3>1. QED BY <2>6, <2>7
  <2>9. QED BY <2>8
<1>3. pick = Body(pick)
  <2> HIDE DEF Body
  <2>1. QED BY <1>2
<1>4. Pick(s, I) = pick[n]
  BY Zenon DEF Pick, PickStep
<1> HIDE DEF pick, n
<1>5. pick = [i \in 0 .. n |-> pick[i]]
  BY <1>3
<1>6. \A i \in 0 .. n : pick[i] = PickStep(s, I, pick, i)
  <2>1. \A i \in 0 .. n : Body(pick)[i] = PickStep(s, I, pick, i)
    OBVIOUS
  <2> HIDE DEF Body
  <2>2. QED BY <1>3, <2>1
<1>7. \A i \in 0 .. n : pick[i] \in Seq(C)
  <2> DEFINE S == {i \in 0 .. n : pick[i] \in Seq(C)}
  <2>1. 0 \in S
    <3>1. 0 \in 0 .. n
      BY <1>1
    <3>2. pick[0] = <<>>
      BY <1>6, <3>1 DEF PickStep
    <3>3. pick[0] \in Seq(C)
      BY <3>2
    <3>4. QED BY <3>1, <3>3
  <2>2. ASSUME NEW i \in 0 .. n - 1, i \in S PROVE i + 1 \in S
    <3>1. pick[i + 1] = IF i + 1 \in I THEN Append(pick[i], s[i + 1]) ELSE pick[i]
      <4>1. i + 1 \in 0 .. n /\ i + 1 # 0 /\ i + 1 - 1 = i
        BY <1>1
      <4>2. QED BY <1>6, <4>1 DEF PickStep
    <3>2. pick[i] \in Seq(C) /\ s[i + 1] \in C
      BY <2>2 DEF n
    <3>3. pick[i + 1] \in Seq(C)
      BY <3>1, <3>2, AppendProperties
    <3>4. QED BY <1>1, <3>3
  <2>3. 0 .. n \subseteq S
    <3> HIDE DEF S
    <3>1. QED BY <1>1, <2>1, <2>2, UpTo
  <2>4. QED BY <2>3
<1>8. pick \in [0 .. n -> Seq(C)]
  BY <1>5, <1>7
<1>9. QED BY <1>4, <1>6, <1>8 DEF n

FlatStep(ps, f, i) == IF i = 1 THEN ps[i] ELSE f[i - 1] \o ps[i]

(* f are the sequences of ps put together, one more at each place. *)
Grows(f, C, ps) ==
    /\ f \in [0 .. Len(ps) -> Seq(C)]
    /\ f[0] = <<>> /\ \A i \in 1 .. Len(ps) : f[i] = f[i - 1] \o ps[i]

LEMMA GrowsStep ==
    ASSUME NEW C, NEW ps \in Seq(Seq(C)), NEW f, Grows(f, C, ps)
    PROVE  \A i \in 0 .. Len(ps) - 1 : f[i + 1] = f[i] \o ps[i + 1]
<1> SUFFICES ASSUME NEW i \in 0 .. Len(ps) - 1
             PROVE  f[i + 1] = f[i] \o ps[i + 1]
  OBVIOUS
<1> DEFINE j == i + 1
<1>1. j \in 1 .. Len(ps) /\ j - 1 = i
  OBVIOUS
<1> HIDE DEF j
<1>2. f[j] = f[j - 1] \o ps[j]
  BY <1>1 DEF Grows
<1>3. f[j] = f[i] \o ps[j]
  BY <1>1, <1>2
<1>4. QED BY <1>3 DEF j

LEMMA GrowsExists ==
    ASSUME NEW C, NEW ps \in Seq(Seq(C))
    PROVE  \E f : Grows(f, C, ps)
<1> DEFINE n == Len(ps)
           G == [i \in 1 .. n |-> [x \in Seq(C) |-> x \o ps[i]]]
<1>1. n \in Nat
  OBVIOUS
<1>2. \A i \in 1 .. n : ps[i] \in Seq(C)
  OBVIOUS
<1>3. Maps(G, n, Seq(C))
  <2>1. \A i \in 1 .. n, x \in Seq(C) : x \o ps[i] \in Seq(C)
    BY <1>2, Joined
  <2> HIDE DEF n
  <2>2. QED BY <2>1 DEF Maps
<1>4. \A i \in 1 .. n, x \in Seq(C) : G[i][x] = x \o ps[i]
  OBVIOUS
<1>5. <<>> \in Seq(C)
  OBVIOUS
<1> HIDE DEF G, n
<1>6. PICK f : Runs(f, n, Seq(C), <<>>, G)
  BY <1>1, <1>3, <1>5, Recursion
<1>7. f \in [0 .. n -> Seq(C)] /\ f[0] = <<>>
  BY <1>6 DEF Runs
<1>8. ASSUME NEW i \in 1 .. n PROVE f[i] = f[i - 1] \o ps[i]
  <2>1. f[i] = G[i][f[i - 1]]
    BY <1>6 DEF Runs
  <2>2. f[i - 1] \in Seq(C)
    BY <1>1, <1>7
  <2>3. QED BY <1>4, <2>1, <2>2
<1>9. QED BY <1>7, <1>8 DEF Grows, n

LEMMA GrowsUnique ==
    ASSUME NEW C, NEW ps \in Seq(Seq(C)), NEW f, NEW g,
           Grows(f, C, ps), Grows(g, C, ps)
    PROVE  \A i \in 0 .. Len(ps) : f[i] = g[i]
<1> DEFINE n == Len(ps)
           S == {i \in 0 .. n : f[i] = g[i]}
<1>1. n \in Nat
  OBVIOUS
<1>2. 0 \in S
  BY <1>1 DEF Grows
<1> HIDE DEF n
<1>3. ASSUME NEW i \in 0 .. n - 1, i \in S PROVE i + 1 \in S
  <2>1. i + 1 \in 1 .. n /\ i + 1 - 1 = i
    BY <1>1
  <2>2. f[i + 1] = f[i] \o ps[i + 1] /\ g[i + 1] = g[i] \o ps[i + 1]
    <3>1. \A j \in 0 .. Len(ps) - 1 : f[j + 1] = f[j] \o ps[j + 1]
      BY GrowsStep
    <3>2. \A j \in 0 .. Len(ps) - 1 : g[j + 1] = g[j] \o ps[j + 1]
      BY GrowsStep
    <3>3. QED BY <3>1, <3>2 DEF n
  <2>3. f[i] = g[i]
    BY <1>3
  <2>4. f[i + 1] = g[i + 1]
    BY <2>2, <2>3, Zenon
  <2>5. i + 1 \in 0 .. n
    BY <1>1, <2>1
  <2>6. QED BY <2>4, <2>5
<1>4. 0 .. n \subseteq S
  <2> HIDE DEF S
  <2>1. QED BY <1>1, <1>2, <1>3, UpTo
<1>5. QED BY <1>4 DEF n

LEMMA FlattenGrows ==
    ASSUME NEW C, NEW ps \in Seq(Seq(C)), NEW f, Grows(f, C, ps)
    PROVE  FlattenSeq(ps) = f[Len(ps)]
<1> DEFINE n == Len(ps)
<1>1. n \in Nat /\ (n = 0 => ps = <<>>)
  OBVIOUS
<1>2. CASE n = 0
  <2>1. FlattenSeq(ps) = ps
    BY <1>2 DEF FlattenSeq
  <2>2. f[n] = <<>>
    BY <1>2 DEF Grows
  <2>3. QED BY <1>1, <1>2, <2>1, <2>2
<1>3. CASE n # 0
  <2> DEFINE Body(g) == [i \in 1 .. n |-> FlatStep(ps, g, i)]
             flat == CHOOSE g : g = Body(g)
  <2>1. FlattenSeq(ps) = flat[n]
    BY <1>3, Zenon DEF FlattenSeq, FlatStep
  <2>2. \E g : g = Body(g)
    <3> DEFINE g == [i \in 1 .. n |-> f[i]]
    <3> HIDE DEF n
    <3>1. \A i \in 1 .. n : g[i] = f[i]
      OBVIOUS
    <3>2. ASSUME NEW i \in 1 .. n PROVE f[i] = FlatStep(ps, g, i)
      <4> HIDE DEF g
      <4>1. f[i] = f[i - 1] \o ps[i]
        BY DEF Grows, n
      <4>2. CASE i = 1
        <5>1. f[i - 1] = <<>> /\ ps[i] \in Seq(C)
          BY <4>2 DEF Grows, n
        <5>2. f[i] = ps[i]
          BY <4>1, <5>1, ConcatEmptySeq
        <5>3. QED BY <4>2, <5>2 DEF FlatStep
      <4>3. CASE i # 1
        <5>1. i - 1 \in 1 .. n
          BY <1>1, <4>3
        <5>2. QED BY <3>1, <4>1, <4>3, <5>1 DEF FlatStep
      <4>4. QED BY <4>2, <4>3
    <3>3. g = Body(g)
      <4>1. g = [i \in 1 .. n |-> f[i]]
        OBVIOUS
      <4> HIDE DEF g
      <4>2. QED BY <3>2, <4>1
    <3>4. QED BY <3>3
  <2>3. flat = Body(flat)
    <3> HIDE DEF Body
    <3>1. QED BY <2>2
  <2> HIDE DEF flat
  <2>4. \A i \in 1 .. n : flat[i] = FlatStep(ps, flat, i)
    <3>1. \A i \in 1 .. n : Body(flat)[i] = FlatStep(ps, flat, i)
      OBVIOUS
    <3> HIDE DEF Body
    <3>2. QED BY <2>3, <3>1
  <2> DEFINE S == {i \in 0 .. n : i # 0 => flat[i] = f[i]}
  <2>5. 0 \in S
    BY <1>1
  <2>6. ASSUME NEW i \in 0 .. n - 1, i \in S PROVE i + 1 \in S
    <3> HIDE DEF n
    <3>1. i + 1 \in 1 .. n /\ i + 1 - 1 = i
      BY <1>1
    <3>2. /\ f[i + 1] = f[i] \o ps[i + 1] /\ ps[i + 1] \in Seq(C)
          /\ flat[i + 1] = IF i + 1 = 1 THEN ps[i + 1] ELSE flat[i] \o ps[i + 1]
      <4>1. f[i + 1] = f[i] \o ps[i + 1]
        <5>1. \A j \in 0 .. Len(ps) - 1 : f[j + 1] = f[j] \o ps[j + 1]
          BY GrowsStep
        <5>2. QED BY <5>1 DEF n
      <4>2. ps[i + 1] \in Seq(C)
        BY <3>1 DEF n
      <4>3. flat[i + 1] = FlatStep(ps, flat, i + 1)
        BY <2>4, <3>1, Zenon
      <4>4. flat[i + 1] = IF i + 1 = 1 THEN ps[i + 1] ELSE flat[i] \o ps[i + 1]
        BY <3>1, <4>3 DEF FlatStep
      <4>5. QED BY <4>1, <4>2, <4>4, Zenon
    <3>0. i + 1 \in 0 .. n
      BY <1>1, <3>1
    <3>3. CASE i = 0
      <4>1. f[i] = <<>>
        BY <3>3 DEF Grows
      <4>2. f[i + 1] = ps[i + 1] /\ flat[i + 1] = ps[i + 1]
        BY <3>2, <3>3, <4>1, ConcatEmptySeq
      <4>3. QED BY <3>0, <4>2
    <3>4. CASE i # 0
      <4>1. flat[i] = f[i] /\ i + 1 # 1
        BY <2>6, <3>4
      <4>2. flat[i + 1] = f[i + 1]
        BY <3>2, <4>1, Zenon
      <4>3. QED BY <3>0, <4>2
    <3>5. QED BY <3>3, <3>4
  <2>7. 0 .. n \subseteq S
    <3> HIDE DEF S
    <3>1. QED BY <1>1, <2>5, <2>6, UpTo
  <2>8. n \in S
    BY <1>1, <2>7, SMTT(60)
  <2>9. QED BY <1>3, <2>1, <2>8
<1>4. QED BY <1>2, <1>3

(* The first i of the sequences in ps, put together. *)
First(ps, i) == FlattenSeq(SubSeq(ps, 1, i))

LEMMA FirstGrows ==
    ASSUME NEW C, NEW ps \in Seq(Seq(C)), NEW f, Grows(f, C, ps),
           NEW i \in 0 .. Len(ps)
    PROVE  First(ps, i) = f[i]
<1> DEFINE qs == SubSeq(ps, 1, i)
           g == [j \in 0 .. i |-> f[j]]
<1>1. /\ qs \in Seq(Seq(C)) /\ Len(qs) = i /\ Len(ps) \in Nat
      /\ \A j \in 1 .. i : qs[j] = ps[j]
  OBVIOUS
<1> HIDE DEF qs
<1>2. \A j \in 0 .. i : g[j] = f[j]
  OBVIOUS
<1>3. g \in [0 .. i -> Seq(C)]
  <2>1. \A j \in 0 .. i : j \in 0 .. Len(ps)
    BY <1>1
  <2>2. \A j \in 0 .. i : f[j] \in Seq(C)
    BY <2>1 DEF Grows
  <2>3. QED BY <2>2
<1> HIDE DEF g
<1>4. Grows(g, C, qs)
  <2>1. g[0] = <<>>
    BY <1>2 DEF Grows
  <2>2. ASSUME NEW j \in 1 .. i PROVE g[j] = g[j - 1] \o qs[j]
    <3>1. j \in 1 .. Len(ps) /\ j - 1 \in 0 .. i /\ j \in 0 .. i
      BY <1>1
    <3>2. f[j] = f[j - 1] \o ps[j]
      BY <3>1 DEF Grows
    <3>3. QED BY <1>1, <1>2, <3>1, <3>2
  <2>3. QED BY <1>1, <1>3, <2>1, <2>2 DEF Grows
<1>5. FlattenSeq(qs) = g[Len(qs)]
  BY <1>1, <1>4, FlattenGrows
<1>6. i \in 0 .. i
  OBVIOUS
<1>7. QED BY <1>1, <1>2, <1>5, <1>6 DEF First, qs

LEMMA FirstFacts ==
    ASSUME NEW C, NEW ps \in Seq(Seq(C))
    PROVE  /\ First(ps, 0) = <<>>
           /\ First(ps, Len(ps)) = FlattenSeq(ps)
           /\ \A i \in 0 .. Len(ps) : First(ps, i) \in Seq(C)
           /\ \A i \in 1 .. Len(ps) : First(ps, i) = First(ps, i - 1) \o ps[i]
<1>1. PICK f : Grows(f, C, ps)
  BY GrowsExists
<1>2. Len(ps) \in Nat
  OBVIOUS
<1>3. \A i \in 0 .. Len(ps) : First(ps, i) = f[i]
  BY <1>1, FirstGrows
<1>4. FlattenSeq(ps) = f[Len(ps)]
  BY <1>1, FlattenGrows
<1>5. First(ps, 0) = <<>>
  BY <1>1, <1>2, <1>3 DEF Grows
<1>6. First(ps, Len(ps)) = FlattenSeq(ps)
  BY <1>2, <1>3, <1>4
<1>7. \A i \in 0 .. Len(ps) : First(ps, i) \in Seq(C)
  BY <1>1, <1>3 DEF Grows
<1>8. ASSUME NEW i \in 1 .. Len(ps) PROVE First(ps, i) = First(ps, i - 1) \o ps[i]
  <2>1. i - 1 \in 0 .. Len(ps) /\ i \in 0 .. Len(ps)
    BY <1>2
  <2>2. f[i] = f[i - 1] \o ps[i]
    BY <1>1 DEF Grows
  <2>3. QED BY <1>3, <2>1, <2>2
<1>9. QED BY <1>5, <1>6, <1>7, <1>8

-----------------------------------------------------------------------------
(* Whatever the bytes are: what is decoded is in range. *)

LEMMA Greatest ==
    ASSUME NEW n \in Nat, NEW S \in SUBSET (1 .. n), S # {}
    PROVE  \E i \in S : \A j \in S : j <= i
<1> DEFINE T == {n - i : i \in S}
<1>1. T \in SUBSET Nat /\ T # {}
  <2>1. \A i \in S : n - i \in Nat
    OBVIOUS
  <2>2. QED BY <2>1
<1>2. PICK x \in T : \A y \in T : x <= y
  <2> HIDE DEF T
  <2>1. QED BY <1>1, LeastElement
<1>3. PICK i \in S : x = n - i
  BY <1>2
<1>4. \A j \in S : n - i <= n - j
  BY <1>2, <1>3
<1>5. \A j \in S : j <= i
  BY <1>4
<1>6. QED BY <1>5

LEMMA CodeNames ==
    /\ \A o \in DOMAIN Code : Name(Code[o]) = o /\ Code[o] \in Nat /\ Code[o] < 24
    /\ "CLUSTER_NAME" \in DOMAIN Code /\ NodeFields \subseteq DOMAIN Code
    /\ TopLevel \subseteq DOMAIN Code /\ Lists \subseteq DOMAIN Code
    /\ "NODE_INFO" \in DOMAIN Code /\ "NODE_STATE" \in DOMAIN Code
<1>1. \A o \in DOMAIN Code : Name(Code[o]) = o
  <2>1. \A o, q \in DOMAIN Code : Code[o] = Code[q] => o = q
    BY DEF Code
  <2>2. QED BY <2>1 DEF Name
<1>2. \A o \in DOMAIN Code : Code[o] \in Nat /\ Code[o] < 24
  BY DEF Code
<1>3. NodeFields \subseteq DOMAIN Code /\ Lists \subseteq DOMAIN Code
  BY DEF Code, NodeFields, Lists
<1>4. TopLevel \subseteq DOMAIN Code
  BY DEF TopLevel
<1>5. QED BY <1>1, <1>2, <1>3, <1>4 DEF Code

(* i is the last place in ts where option o stands. *)
LastAt(ts, o, i) ==
    /\ i \in DOMAIN ts /\ ts[i].code = Code[o]
    /\ \A j \in DOMAIN ts : ts[j].code = Code[o] => j <= i

(* Option o is among ts, which is a sequence. *)
There(ts, o) == \E i \in DOMAIN ts : ts[i].code = Code[o]
IsTuple(ts) == Len(ts) \in Nat /\ DOMAIN ts = 1 .. Len(ts)

LEMMA LastOfDomain ==
    ASSUME NEW s, NEW ts, NEW known
    PROVE  \A o : o \in DOMAIN LastOf(s, ts, known) <=> o \in known /\ There(ts, o)
BY DEF LastOf, There

LEMMA LastOfValue ==
    ASSUME NEW s, NEW ts, IsTuple(ts), NEW known, NEW o \in known, There(ts, o)
    PROVE  \E i : LastAt(ts, o, i) /\ LastOf(s, ts, known)[o] = Value(s, ts[i])
<1> DEFINE L == CHOOSE i \in DOMAIN ts :
                  /\ ts[i].code = Code[o]
                  /\ \A j \in DOMAIN ts : ts[j].code = Code[o] => j <= i
           S == {i \in DOMAIN ts : ts[i].code = Code[o]}
<1>1. LastOf(s, ts, known)[o] = Value(s, ts[L])
  BY DEF LastOf, There
<1>2. Len(ts) \in Nat /\ S \in SUBSET (1 .. Len(ts)) /\ S # {}
  BY DEF IsTuple, There
<1>3. \E i \in S : \A j \in S : j <= i
  <2> HIDE DEF S
  <2>1. QED BY <1>2, Greatest
<1>4. \E i \in DOMAIN ts : /\ ts[i].code = Code[o]
                           /\ \A j \in DOMAIN ts : ts[j].code = Code[o] => j <= i
  BY <1>3
<1>5. LastAt(ts, o, L)
  BY <1>4 DEF LastAt
<1> HIDE DEF L
<1>6. QED BY <1>1, <1>5

LEMMA WidthFacts ==
    \A o : Width(o) \in Widths
BY DEF Width, Widths

LEMMA FoundType ==
    ASSUME NEW end \in Nat, NEW t \in Found(end)
    PROVE  /\ t.code \in Nat /\ t.at \in Nat /\ t.len \in Nat
           /\ t.at + t.len <= end
<1>1. Number(2) \subseteq Nat
  BY Bases DEF Number, Limit
<1>2. CASE t = Broken
  BY <1>2 DEF Broken
<1>3. CASE t # Broken
  BY <1>1, <1>3 DEF Found
<1>4. QED BY <1>2, <1>3

(* The forms of values, one by one. *)
LEMMA LengthForms ==
    ASSUME NEW o, NEW len
    PROVE  /\ o \in Lists => (LengthOK(o, len) <=> len % 2 = 0 /\ len \div 2 <= MaxList)
           /\ o = "CLUSTER_NAME" => LengthOK(o, len) = TRUE
           /\ o = "RING_ID" => LengthOK(o, len) = (len = 12)
           /\ o = "TIE_BREAKER" => LengthOK(o, len) = (len = 5)
           /\ o \notin Lists \cup {"CLUSTER_NAME", "RING_ID", "TIE_BREAKER"} =>
                LengthOK(o, len) = (len = Width(o))
<1>1. CASE o \in Lists
  BY <1>1, Zenon DEF LengthOK, Lists
<1>2. CASE o \notin Lists
  BY <1>2 DEF LengthOK, Lists
<1>3. QED BY <1>1, <1>2 DEF Lists

ListValue(s, t) == [i \in 1 .. t.len \div 2 |-> Get(s, t.at + 2 * (i - 1), 2)]
RingValue(s, t) == [node |-> Get(s, t.at, 4), seq |-> Get(s, t.at + 4, 8)]
TieValue(s, t) ==
    [mode |-> Get(s, t.at, 1),
     node |-> IF Get(s, t.at, 1) = 3 THEN Get(s, t.at + 1, 4) ELSE 0]

LEMMA ValueForms ==
    ASSUME NEW s, NEW t, NEW o, Name(t.code) = o
    PROVE  /\ o \in Lists => Value(s, t) = ListValue(s, t)
           /\ o = "CLUSTER_NAME" => Value(s, t) = SubSeq(s, t.at + 1, t.at + t.len)
           /\ o = "RING_ID" => Value(s, t) = RingValue(s, t)
           /\ o = "TIE_BREAKER" => Value(s, t) = TieValue(s, t)
           /\ o \notin Lists \cup {"CLUSTER_NAME", "RING_ID", "TIE_BREAKER"} =>
                Value(s, t) = Get(s, t.at, Width(o))
<1>1. CASE o \in Lists
  <2>1. o \notin {"CLUSTER_NAME", "RING_ID", "TIE_BREAKER"}
    BY <1>1 DEF Lists
  <2>2. Value(s, t) = ListValue(s, t)
    BY <1>1, Zenon DEF Value, Lists, ListValue
  <2>3. QED BY <1>1, <2>1, <2>2, Zenon
<1>2. CASE o = "CLUSTER_NAME"
  BY <1>2, Zenon DEF Value, Lists
<1>3. CASE o = "RING_ID"
  BY <1>3, Zenon DEF Value, Lists, RingValue
<1>4. CASE o = "TIE_BREAKER"
  BY <1>4, Zenon DEF Value, Lists, TieValue
<1>5. CASE o \notin Lists \cup {"CLUSTER_NAME", "RING_ID", "TIE_BREAKER"}
  BY <1>5, Zenon DEF Value, Lists
<1>6. QED BY <1>1, <1>2, <1>3, <1>4, <1>5, Zenon

(* An option that was checked is in range. *)
LEMMA CheckedValue ==
    ASSUME NEW s, NEW end \in Nat, NEW t \in Found(end), NEW known,
           WellFormed(s, t, known), NEW o \in known \cap DOMAIN Code,
           t.code = Code[o]
    PROVE  Valid(o, Value(s, t)) /\ (o \in Lists => Len(Value(s, t)) <= MaxList)
<1>1. Name(t.code) = o
  BY CodeNames
<1>2. LengthOK(o, t.len) /\ ValueOK(o, Value(s, t))
  BY <1>1 DEF WellFormed
<1>3. Valid(o, Value(s, t))
  BY <1>2 DEF Valid, ValueOK
<1>4. ASSUME o \in Lists PROVE Len(Value(s, t)) <= MaxList
  <2> DEFINE n == t.len \div 2
  <2>1. o # "CLUSTER_NAME"
    BY <1>4 DEF Lists
  <2>2. t.len \in Nat /\ t.at \in Nat
    BY FoundType
  <2>3. n <= MaxList
    BY <1>2, <1>4, LengthForms
  <2>4. n \in Nat
    BY <2>2
  <2>5. Value(s, t) = [i \in 1 .. n |-> Get(s, t.at + 2 * (i - 1), 2)]
    BY <1>1, <1>4, ValueForms DEF ListValue
  <2> HIDE DEF n
  <2>6. Len(Value(s, t)) = n
    BY <2>4, <2>5
  <2>7. QED BY <2>3, <2>6
<1>5. QED BY <1>3, <1>4

LEMMA CheckedOptions ==
    ASSUME NEW s, NEW end \in Nat, NEW ts \in Seq(Found(end)),
           NEW checked, NEW known \in SUBSET (checked \cap DOMAIN Code),
           \A i \in DOMAIN ts : WellFormed(s, ts[i], checked)
    PROVE  \A o \in DOMAIN LastOf(s, ts, known) :
             /\ Valid(o, LastOf(s, ts, known)[o])
             /\ o \in Lists => Len(LastOf(s, ts, known)[o]) <= MaxList
<1> SUFFICES ASSUME NEW o \in DOMAIN LastOf(s, ts, known)
             PROVE  /\ Valid(o, LastOf(s, ts, known)[o])
                    /\ o \in Lists => Len(LastOf(s, ts, known)[o]) <= MaxList
  OBVIOUS
<1>0. IsTuple(ts)
  BY DEF IsTuple
<1>1. o \in known /\ There(ts, o)
  BY LastOfDomain, Zenon
<1>2. PICK i : LastAt(ts, o, i) /\ LastOf(s, ts, known)[o] = Value(s, ts[i])
  BY <1>0, <1>1, LastOfValue
<1>3. i \in DOMAIN ts /\ ts[i].code = Code[o] /\ ts[i] \in Found(end)
  BY <1>2 DEF LastAt
<1>4. WellFormed(s, ts[i], checked) /\ o \in checked \cap DOMAIN Code
  BY <1>1, <1>3
<1>5. Valid(o, Value(s, ts[i])) /\ (o \in Lists => Len(Value(s, ts[i])) <= MaxList)
  BY <1>3, <1>4, CheckedValue
<1>6. QED BY <1>2, <1>5, Zenon

LEMMA PickType ==
    ASSUME NEW C, NEW s \in Seq(C), NEW I
    PROVE  Pick(s, I) \in Seq(C)
<1>1. PICK f \in [0 .. Len(s) -> Seq(C)] : Pick(s, I) = f[Len(s)]
  BY PickDef
<1>2. Len(s) \in 0 .. Len(s)
  OBVIOUS
<1>3. QED BY <1>1, <1>2

(* The decoder, in names: what it finds, when it refuses, what it returns. *)
TopTlvs(s) == Tlvs(s, 6, Get(s, 2, 4))
NodesOf(ts) == Pick(ts, {i \in DOMAIN ts : IsNode(ts[i])})
Checked == TopLevel \cup {"NODE_STATE"}
Refuses(s, ts, nodes) ==
    \/ \E i \in DOMAIN ts : ~WellFormed(s, ts[i], Checked)
    \/ TooMany(nodes)
    \/ \E i \in DOMAIN nodes : ~NodeOK(s, nodes[i])
NodeOf(s, t) == LastOf(s, NodeTlvs(s, t), NodeFields)
Result(s, ts, nodes) ==
    [type |-> TypeName(Get(s, 0, 2)), opts |-> LastOf(s, ts, TopLevel),
     nodes |-> [i \in DOMAIN nodes |-> NodeOf(s, nodes[i])]]

LEMMA DecodeDef ==
    ASSUME NEW s, NEW len, NEW max
    PROVE  Decode(s, len, max) =
             IF ~CheckFrame(s, len, max) \/ Refuses(s, TopTlvs(s), NodesOf(TopTlvs(s)))
             THEN Rejected ELSE Result(s, TopTlvs(s), NodesOf(TopTlvs(s)))
<1>1. CASE CheckFrame(s, len, max)
  BY <1>1, Zenon DEF Decode, Refuses, TopTlvs, NodesOf, Result, Checked, NodeOf
<1>2. CASE ~CheckFrame(s, len, max)
  BY <1>2, Zenon DEF Decode
<1>3. QED BY <1>1, <1>2

(* A stash of cells, of which the first len are a frame whose length does  *)
(* not wrap around.                                                        *)
Sound(s, len) ==
    /\ Bytes(s, RxSize) /\ len \in Nat /\ len <= RxSize
    /\ len >= 6 => 6 + Get(s, 2, 4) < SizeMod

LEMMA FrameEnd ==
    ASSUME NEW s, NEW len, Sound(s, len), CheckFrame(s, len, RxSize)
    PROVE  /\ Get(s, 2, 4) \in Nat /\ 6 + Get(s, 2, 4) <= len
           /\ Bytes(s, 6 + Get(s, 2, 4)) /\ len >= 6
<1>1. len >= 6 /\ len \in Nat /\ len <= RxSize
  BY DEF Sound, CheckFrame
<1>2. Get(s, 2, 4) \in Nat
  <2>1. 4 \in Widths
    BY DEF Widths
  <2>2. \A i \in 1 .. 4 : s[2 + i] \in Cell
    BY StashAssumption DEF Sound, Bytes
  <2>3. Get(s, 2, 4) \in Number(4)
    BY <2>1, <2>2, GetType
  <2>4. Number(4) \subseteq Nat
    BY Bases DEF Number, Limit
  <2>5. QED BY <2>3, <2>4
<1>3. 6 + Get(s, 2, 4) < SizeMod
  BY <1>1 DEF Sound
<1>4. (6 + Get(s, 2, 4)) % SizeMod = 6 + Get(s, 2, 4)
  BY <1>2, <1>3, StashAssumption
<1>5. 6 + Get(s, 2, 4) <= len
  BY <1>4 DEF CheckFrame
<1>6. Bytes(s, 6 + Get(s, 2, 4))
  BY <1>1, <1>2, <1>5, StashAssumption DEF Bytes, Sound
<1>7. QED BY <1>1, <1>2, <1>5, <1>6

LEMMA TopType ==
    ASSUME NEW s, NEW len, Sound(s, len), CheckFrame(s, len, RxSize)
    PROVE  TopTlvs(s) \in Seq(Found(6 + Get(s, 2, 4)))
<1>1. Bytes(s, 6 + Get(s, 2, 4)) /\ 6 \in Nat
  BY FrameEnd
<1>2. QED BY <1>1, IterType, Zenon DEF TopTlvs, Tlvs

LEMMA NodeTlvsType ==
    ASSUME NEW s, NEW end \in Nat, Bytes(s, end), NEW t \in Found(end)
    PROVE  /\ t.at + t.len \in Nat /\ t.at + t.len <= end
           /\ Bytes(s, t.at + t.len)
           /\ NodeTlvs(s, t) \in Seq(Found(t.at + t.len))
<1>1. t.at \in Nat /\ t.len \in Nat /\ t.at + t.len <= end
  BY FoundType
<1>2. t.at + t.len \in Nat /\ Bytes(s, t.at + t.len)
  BY <1>1 DEF Bytes
<1>3. NodeTlvs(s, t) \in Seq(Found(t.at + t.len))
  BY <1>1, <1>2, IterType, Zenon DEF NodeTlvs, Tlvs
<1>4. QED BY <1>1, <1>2, <1>3

LEMMA CheckedNode ==
    ASSUME NEW s, NEW end \in Nat, Bytes(s, end), NEW t \in Found(end), NodeOK(s, t)
    PROVE  ValidNode(NodeOf(s, t))
<1> DEFINE ts == NodeTlvs(s, t)
           e == t.at + t.len
<1>1. /\ \A i \in DOMAIN ts : WellFormed(s, ts[i], NodeFields)
      /\ LastOf(s, ts, NodeFields)["NODE_ID"] # 0
  BY DEF NodeOK
<1>2. e \in Nat /\ ts \in Seq(Found(e))
  BY NodeTlvsType
<1>3. NodeFields \in SUBSET (NodeFields \cap DOMAIN Code)
  BY CodeNames
<1> HIDE DEF ts, e
<1>4. \A o \in DOMAIN LastOf(s, ts, NodeFields) : Valid(o, LastOf(s, ts, NodeFields)[o])
  BY <1>1, <1>2, <1>3, CheckedOptions
<1>5. QED BY <1>1, <1>4 DEF ValidNode, NodeOf, ts

(* Whatever the bytes of the stash are, what is decoded from it is in range. *)
LEMMA DecodeInRange ==
    ASSUME NEW s, NEW len, Sound(s, len), Decode(s, len, RxSize) # Rejected
    PROVE  InRange(Decode(s, len, RxSize))
<1> DEFINE ts == TopTlvs(s)
           nodes == NodesOf(ts)
           end == 6 + Get(s, 2, 4)
           m == Decode(s, len, RxSize)
<1>1. /\ CheckFrame(s, len, RxSize) /\ ~Refuses(s, ts, nodes)
      /\ m = Result(s, ts, nodes)
  BY DecodeDef
<1>2. end \in Nat /\ Bytes(s, end)
  BY <1>1, FrameEnd
<1>3. ts \in Seq(Found(end))
  BY <1>1, TopType
<1>4. nodes \in Seq(Found(end))
  <2> HIDE DEF ts
  <2>1. QED BY <1>3, PickType DEF NodesOf
<1> HIDE DEF ts, nodes, end, m
<1>5. /\ \A i \in DOMAIN ts : WellFormed(s, ts[i], Checked)
      /\ ~TooMany(nodes) /\ \A i \in DOMAIN nodes : NodeOK(s, nodes[i])
  BY <1>1 DEF Refuses
<1>6. TopLevel \in SUBSET (Checked \cap DOMAIN Code)
  BY CodeNames DEF Checked
<1>7. \A o \in DOMAIN LastOf(s, ts, TopLevel) :
        /\ Valid(o, LastOf(s, ts, TopLevel)[o])
        /\ o \in Lists => Len(LastOf(s, ts, TopLevel)[o]) <= MaxList
  BY <1>2, <1>3, <1>5, <1>6, CheckedOptions
<1>8. /\ m.opts = LastOf(s, ts, TopLevel)
      /\ m.nodes = [i \in DOMAIN nodes |-> NodeOf(s, nodes[i])]
  BY <1>1 DEF Result
<1>9. /\ \A o \in DOMAIN m.opts : Valid(o, m.opts[o])
      /\ \A o \in DOMAIN m.opts \cap Lists : Len(m.opts[o]) <= MaxList
  BY <1>7, <1>8
<1>10. DOMAIN nodes = 1 .. Len(nodes) /\ Len(nodes) \in Nat
  BY <1>4
<1>11. Len(m.nodes) <= MaxNodes
  <2>1. Len(nodes) <= MaxNodes
    BY <1>5, <1>10, SizesAssumption DEF TooMany
  <2>2. m.nodes = [i \in 1 .. Len(nodes) |-> NodeOf(s, nodes[i])]
    BY <1>8, <1>10
  <2>3. Len(m.nodes) = Len(nodes)
    BY <1>10, <2>2
  <2>4. QED BY <2>1, <2>3
<1>12. \A i \in DOMAIN m.nodes : ValidNode(m.nodes[i])
  <2>1. ASSUME NEW i \in DOMAIN nodes PROVE ValidNode(NodeOf(s, nodes[i]))
    <3>1. nodes[i] \in Found(end) /\ NodeOK(s, nodes[i])
      BY <1>4, <1>5
    <3>2. QED BY <1>2, <3>1, CheckedNode
  <2>2. QED BY <1>8, <2>1
<1>13. QED BY <1>9, <1>11, <1>12 DEF InRange, m

-----------------------------------------------------------------------------
(* Whatever the bytes are: what lies behind the frame is not looked at. *)

Agree(s, t, end) == \A i \in 1 .. end : s[i] = t[i]

LEMMA GetAgrees ==
    ASSUME NEW s, NEW t, NEW end \in Nat, Agree(s, t, end),
           NEW at \in Nat, NEW w \in Widths, at + w <= end
    PROVE  Get(s, at, w) = Get(t, at, w)
<1>1. \A i \in 1 .. w : at + i \in 1 .. end
  BY DEF Widths
<1>2. \A i \in 1 .. w : s[at + i] = t[at + i]
  BY <1>1 DEF Agree
<1>3. QED BY <1>2, GetSame

LEMMA ValueSame ==
    ASSUME NEW s, NEW t, NEW end \in Nat, Agree(s, t, end),
           NEW x \in Found(end), LengthOK(Name(x.code), x.len)
    PROVE  Value(s, x) = Value(t, x)
<1> DEFINE o == Name(x.code)
<1>1. x.at \in Nat /\ x.len \in Nat /\ x.at + x.len <= end
  BY FoundType
<1>2. /\ 1 \in Widths /\ 2 \in Widths /\ 4 \in Widths /\ 8 \in Widths
      /\ Width(o) \in Widths
  BY WidthFacts DEF Widths
<1>3. o = Name(x.code) /\ LengthOK(o, x.len)
  OBVIOUS
<1> HIDE DEF o
<1>4. CASE o \in Lists
  <2> DEFINE n == x.len \div 2
  <2>1. n \in Nat /\ 2 * n <= x.len
    BY <1>1
  <2>2. ListValue(s, x) = [i \in 1 .. n |-> Get(s, x.at + 2 * (i - 1), 2)]
    BY DEF ListValue
  <2>3. ListValue(t, x) = [i \in 1 .. n |-> Get(t, x.at + 2 * (i - 1), 2)]
    BY DEF ListValue
  <2> HIDE DEF n
  <2>4. ASSUME NEW i \in 1 .. n
        PROVE  Get(s, x.at + 2 * (i - 1), 2) = Get(t, x.at + 2 * (i - 1), 2)
    <3>1. x.at + 2 * (i - 1) \in Nat /\ x.at + 2 * (i - 1) + 2 <= end
      BY <1>1, <2>1
    <3>2. QED BY <1>2, <3>1, GetAgrees
  <2>5. ListValue(s, x) = ListValue(t, x)
    BY <2>2, <2>3, <2>4
  <2>6. QED BY <1>3, <1>4, <2>5, ValueForms
<1>5. CASE o = "CLUSTER_NAME"
  <2>1. \A i \in x.at + 1 .. x.at + x.len : s[i] = t[i]
    BY <1>1 DEF Agree
  <2>2. SubSeq(s, x.at + 1, x.at + x.len) = SubSeq(t, x.at + 1, x.at + x.len)
    BY <1>1, <2>1, SMTT(60)
  <2>3. QED BY <1>3, <1>5, <2>2, ValueForms
<1>6. CASE o = "RING_ID"
  <2>1. x.len = 12
    BY <1>3, <1>6, LengthForms
  <2>2. /\ x.at + 4 \in Nat /\ x.at + 4 <= end /\ x.at + 4 + 8 <= end
    BY <1>1, <2>1
  <2>3. Get(s, x.at, 4) = Get(t, x.at, 4)
    BY <1>1, <1>2, <2>2, GetAgrees
  <2>4. Get(s, x.at + 4, 8) = Get(t, x.at + 4, 8)
    BY <1>1, <1>2, <2>2, GetAgrees
  <2>5. RingValue(s, x) = RingValue(t, x)
    BY <2>3, <2>4 DEF RingValue
  <2>6. QED BY <1>3, <1>6, <2>5, ValueForms
<1>7. CASE o = "TIE_BREAKER"
  <2>1. x.len = 5
    BY <1>3, <1>7, LengthForms
  <2>2. /\ x.at + 1 \in Nat /\ x.at + 1 <= end /\ x.at + 1 + 4 <= end
    BY <1>1, <2>1
  <2>3. Get(s, x.at, 1) = Get(t, x.at, 1)
    BY <1>1, <1>2, <2>2, GetAgrees
  <2>4. Get(s, x.at + 1, 4) = Get(t, x.at + 1, 4)
    BY <1>1, <1>2, <2>2, GetAgrees
  <2>5. TieValue(s, x) = TieValue(t, x)
    BY <2>3, <2>4 DEF TieValue
  <2>6. QED BY <1>3, <1>7, <2>5, ValueForms
<1>8. CASE o \notin Lists \cup {"CLUSTER_NAME", "RING_ID", "TIE_BREAKER"}
  <2>1. x.len = Width(o)
    BY <1>3, <1>8, LengthForms
  <2>2. x.at + Width(o) <= end
    BY <1>1, <2>1
  <2>3. Get(s, x.at, Width(o)) = Get(t, x.at, Width(o))
    BY <1>1, <1>2, <2>2, GetAgrees
  <2>4. QED BY <1>3, <1>8, <2>3, ValueForms
<1>9. QED BY <1>4, <1>5, <1>6, <1>7, <1>8, Zenon

LEMMA WellFormedSame ==
    ASSUME NEW s, NEW t, NEW end \in Nat, Agree(s, t, end),
           NEW x \in Found(end), NEW known
    PROVE  WellFormed(s, x, known) <=> WellFormed(t, x, known)
<1>1. CASE LengthOK(Name(x.code), x.len)
  <2>1. Value(s, x) = Value(t, x)
    BY <1>1, ValueSame
  <2>2. QED BY <2>1, Zenon DEF WellFormed
<1>2. CASE ~LengthOK(Name(x.code), x.len)
  BY <1>2, Zenon DEF WellFormed
<1>3. QED BY <1>1, <1>2

LEMMA LastOfSame ==
    ASSUME NEW s, NEW t, NEW end \in Nat, Agree(s, t, end),
           NEW ts \in Seq(Found(end)), NEW checked,
           NEW known \in SUBSET (checked \cap DOMAIN Code),
           \A i \in DOMAIN ts : WellFormed(s, ts[i], checked)
    PROVE  LastOf(s, ts, known) = LastOf(t, ts, known)
<1> DEFINE D == {o \in known : \E i \in DOMAIN ts : ts[i].code = Code[o]}
           L(o) == CHOOSE i \in DOMAIN ts :
                     /\ ts[i].code = Code[o]
                     /\ \A j \in DOMAIN ts : ts[j].code = Code[o] => j <= i
<1>1. /\ LastOf(s, ts, known) = [o \in D |-> Value(s, ts[L(o)])]
      /\ LastOf(t, ts, known) = [o \in D |-> Value(t, ts[L(o)])]
  BY DEF LastOf
<1>2. ASSUME NEW o \in D PROVE L(o) \in DOMAIN ts /\ ts[L(o)].code = Code[o]
  <2> DEFINE S == {i \in DOMAIN ts : ts[i].code = Code[o]}
  <2>1. Len(ts) \in Nat /\ S \in SUBSET (1 .. Len(ts)) /\ S # {}
    OBVIOUS
  <2>2. \E i \in S : \A j \in S : j <= i
    <3> HIDE DEF S
    <3>1. QED BY <2>1, Greatest
  <2>3. \E i \in DOMAIN ts : /\ ts[i].code = Code[o]
                             /\ \A j \in DOMAIN ts : ts[j].code = Code[o] => j <= i
    BY <2>2
  <2>4. QED BY <2>3
<1> HIDE DEF L
<1>3. ASSUME NEW o \in D PROVE Value(s, ts[L(o)]) = Value(t, ts[L(o)])
  <2> DEFINE x == ts[L(o)]
  <2>1. x \in Found(end) /\ x.code = Code[o] /\ WellFormed(s, x, checked)
    BY <1>2
  <2>2. o \in checked /\ o \in DOMAIN Code
    OBVIOUS
  <2> HIDE DEF x, D
  <2>3. LengthOK(Name(x.code), x.len)
    BY <2>1, <2>2 DEF WellFormed
  <2>4. Value(s, x) = Value(t, x)
    BY <2>1, <2>3, ValueSame
  <2>5. QED BY <2>4 DEF x
<1> HIDE DEF D
<1>4. QED BY <1>1, <1>3

LEMMA NodeTlvsSame ==
    ASSUME NEW s, NEW t, NEW end \in Nat, Bytes(s, end), Bytes(t, end),
           Agree(s, t, end), NEW x \in Found(end)
    PROVE  NodeTlvs(s, x) = NodeTlvs(t, x)
<1> DEFINE e == x.at + x.len
<1>1. x.at \in Nat /\ e \in Nat /\ e <= end
  BY FoundType
<1>2. Bytes(s, e) /\ Bytes(t, e)
  BY NodeTlvsType
<1> HIDE DEF e
<1>3. \A i \in 1 .. e : s[i] = t[i]
  BY <1>1 DEF Agree
<1>4. Iter(s, e)[x.at] = Iter(t, e)[x.at]
  BY <1>1, <1>2, <1>3, IterSame
<1>5. QED BY <1>4 DEF NodeTlvs, Tlvs, e

LEMMA NodeSame ==
    ASSUME NEW s, NEW t, NEW end \in Nat, Bytes(s, end), Bytes(t, end),
           Agree(s, t, end), NEW x \in Found(end)
    PROVE  /\ NodeOK(s, x) <=> NodeOK(t, x)
           /\ NodeOK(s, x) => NodeOf(s, x) = NodeOf(t, x)
<1> DEFINE ts == NodeTlvs(s, x)
           e == x.at + x.len
<1>1. NodeTlvs(t, x) = ts
  BY NodeTlvsSame
<1>2. e \in Nat /\ ts \in Seq(Found(e)) /\ e <= end
  BY NodeTlvsType
<1> HIDE DEF ts, e
<1>3. Agree(s, t, e)
  BY <1>2 DEF Agree
<1>4. \A i \in DOMAIN ts : WellFormed(s, ts[i], NodeFields) <=> WellFormed(t, ts[i], NodeFields)
  <2>1. \A i \in DOMAIN ts : ts[i] \in Found(e)
    BY <1>2
  <2>2. QED BY <1>2, <1>3, <2>1, WellFormedSame
<1>5. NodeFields \in SUBSET (NodeFields \cap DOMAIN Code)
  BY CodeNames
<1>6. ASSUME \A i \in DOMAIN ts : WellFormed(s, ts[i], NodeFields)
      PROVE  LastOf(s, ts, NodeFields) = LastOf(t, ts, NodeFields)
  BY <1>2, <1>3, <1>5, <1>6, LastOfSame
<1>7. NodeOK(s, x) = (/\ \A i \in DOMAIN ts : WellFormed(s, ts[i], NodeFields)
                      /\ \E i \in DOMAIN ts : ts[i].code = Code["NODE_ID"]
                      /\ LastOf(s, ts, NodeFields)["NODE_ID"] # 0)
  BY Zenon DEF NodeOK, ts
<1>8. NodeOK(t, x) = (/\ \A i \in DOMAIN ts : WellFormed(t, ts[i], NodeFields)
                      /\ \E i \in DOMAIN ts : ts[i].code = Code["NODE_ID"]
                      /\ LastOf(t, ts, NodeFields)["NODE_ID"] # 0)
  BY <1>1, Zenon DEF NodeOK
<1>9. CASE \A i \in DOMAIN ts : WellFormed(s, ts[i], NodeFields)
  <2>1. LastOf(s, ts, NodeFields) = LastOf(t, ts, NodeFields)
    BY <1>6, <1>9
  <2>2. \A i \in DOMAIN ts : WellFormed(t, ts[i], NodeFields)
    BY <1>4, <1>9
  <2>3. NodeOK(s, x) <=> NodeOK(t, x)
    BY <1>7, <1>8, <1>9, <2>1, <2>2
  <2>4. NodeOf(s, x) = NodeOf(t, x)
    BY <1>1, <2>1 DEF NodeOf, ts
  <2>5. QED BY <2>3, <2>4
<1>10. CASE ~ \A i \in DOMAIN ts : WellFormed(s, ts[i], NodeFields)
  <2>1. ~ \A i \in DOMAIN ts : WellFormed(t, ts[i], NodeFields)
    BY <1>4, <1>10
  <2>2. ~NodeOK(s, x) /\ ~NodeOK(t, x)
    BY <1>7, <1>8, <1>10, <2>1
  <2>3. QED BY <2>2
<1>11. QED BY <1>9, <1>10

(* Two stashes with the same frame are decoded to the same. *)
LEMMA DecodeSame ==
    ASSUME NEW s, NEW t, NEW len, Sound(s, len), Bytes(t, RxSize), Agree(s, t, len)
    PROVE  Decode(s, len, RxSize) = Decode(t, len, RxSize)
<1> DEFINE check(z) == CheckFrame(z, len, RxSize)
<1>1. len \in Nat /\ len <= RxSize /\ RxSize \in Nat
  BY StashAssumption DEF Sound
<1>2. ASSUME len >= 6
      PROVE  Get(s, 0, 2) = Get(t, 0, 2) /\ Get(s, 2, 4) = Get(t, 2, 4)
  <2>1. 2 \in Widths /\ 4 \in Widths /\ 0 + 2 <= len /\ 2 + 4 <= len
    BY <1>1, <1>2 DEF Widths
  <2>2. QED BY <1>1, <2>1, GetAgrees
<1>3. check(s) <=> check(t)
  BY <1>2 DEF CheckFrame
<1>4. CASE ~check(s)
  BY <1>3, <1>4, DecodeDef
<1>5. CASE check(s)
  <2> DEFINE end == 6 + Get(s, 2, 4)
             ts == TopTlvs(s)
             nodes == NodesOf(ts)
  <2>1. end \in Nat /\ end <= len /\ Bytes(s, end) /\ len >= 6
    BY <1>5, FrameEnd
  <2>2. Get(s, 0, 2) = Get(t, 0, 2) /\ Get(t, 2, 4) = Get(s, 2, 4)
    BY <1>2, <2>1
  <2>3. ts \in Seq(Found(end))
    BY <1>5, TopType
  <2>4. nodes \in Seq(Found(end))
    <3> HIDE DEF ts
    <3>1. QED BY <2>3, PickType DEF NodesOf
  <2>5. Bytes(t, end)
    BY <1>1, <2>1 DEF Bytes
  <2>6. TopTlvs(t) = ts
    <3>1. \A i \in 1 .. end : s[i] = t[i]
      BY <1>1, <2>1 DEF Agree
    <3>2. Iter(s, end)[6] = Iter(t, end)[6]
      <4> HIDE DEF end
      <4>1. 6 \in Nat
        OBVIOUS
      <4>2. QED BY <2>1, <2>5, <3>1, <4>1, IterSame
    <3>3. QED BY <2>2, <3>2 DEF TopTlvs, Tlvs
  <2> HIDE DEF ts, nodes
  <2>7. Agree(s, t, end)
    BY <1>1, <2>1 DEF Agree
  <2> HIDE DEF end
  <2>8. \A i \in DOMAIN ts : WellFormed(s, ts[i], Checked) <=> WellFormed(t, ts[i], Checked)
    <3>1. \A i \in DOMAIN ts : ts[i] \in Found(end)
      BY <2>3
    <3>2. QED BY <2>1, <2>7, <3>1, WellFormedSame
  <2>9. \A i \in DOMAIN nodes : /\ NodeOK(s, nodes[i]) <=> NodeOK(t, nodes[i])
                                /\ NodeOK(s, nodes[i]) => NodeOf(s, nodes[i]) = NodeOf(t, nodes[i])
    <3>1. \A i \in DOMAIN nodes : nodes[i] \in Found(end)
      BY <2>4
    <3>2. QED BY <2>1, <2>5, <2>7, <3>1, NodeSame
  <2>10. Refuses(s, ts, nodes) <=> Refuses(t, ts, nodes)
    BY <2>8, <2>9 DEF Refuses
  <2>11. ASSUME ~Refuses(s, ts, nodes)
         PROVE  Result(s, ts, nodes) = Result(t, ts, nodes)
    <3>1. /\ \A i \in DOMAIN ts : WellFormed(s, ts[i], Checked)
          /\ \A i \in DOMAIN nodes : NodeOK(s, nodes[i])
      BY <2>11 DEF Refuses
    <3>2. TopLevel \in SUBSET (Checked \cap DOMAIN Code)
      BY CodeNames DEF Checked
    <3>3. LastOf(s, ts, TopLevel) = LastOf(t, ts, TopLevel)
      <4>1. end \in Nat /\ \A i \in DOMAIN ts : WellFormed(s, ts[i], Checked)
        BY <2>1, <3>1
      <4>2. QED BY <2>3, <2>7, <3>2, <4>1, LastOfSame, SMTT(60)
    <3>4. [i \in DOMAIN nodes |-> NodeOf(s, nodes[i])] =
          [i \in DOMAIN nodes |-> NodeOf(t, nodes[i])]
      BY <2>9, <3>1
    <3>5. QED BY <2>2, <3>3, <3>4 DEF Result
  <2>12. /\ Decode(s, len, RxSize) =
              IF Refuses(s, ts, nodes) THEN Rejected ELSE Result(s, ts, nodes)
         /\ Decode(t, len, RxSize) =
              IF Refuses(t, ts, nodes) THEN Rejected ELSE Result(t, ts, nodes)
    BY <1>3, <1>5, <2>6, DecodeDef DEF ts, nodes
  <2>13. QED BY <2>10, <2>11, <2>12
<1>6. QED BY <1>4, <1>5

-----------------------------------------------------------------------------
(* Selection: K[i] counts the places in I among the first i. *)

Counts(K, I, n) ==
    /\ K \in [0 .. n -> Nat]
    /\ \A i \in 0 .. n - 1 : K[i + 1] = IF i + 1 \in I THEN K[i] + 1 ELSE K[i]

LEMMA CountExists ==
    ASSUME NEW n \in Nat, NEW I, NEW a \in Nat
    PROVE  \E K : Counts(K, I, n) /\ K[0] = a
<1> DEFINE G == [i \in 1 .. n |-> [x \in Nat |-> IF i \in I THEN x + 1 ELSE x]]
<1>1. Maps(G, n, Nat)
  BY DEF Maps
<1>2. \A i \in 1 .. n, x \in Nat : G[i][x] = IF i \in I THEN x + 1 ELSE x
  OBVIOUS
<1> HIDE DEF G
<1>3. PICK K : Runs(K, n, Nat, a, G)
  BY <1>1, Recursion
<1>4. K \in [0 .. n -> Nat] /\ K[0] = a
  BY <1>3 DEF Runs
<1>5. ASSUME NEW i \in 0 .. n - 1
      PROVE  K[i + 1] = IF i + 1 \in I THEN K[i] + 1 ELSE K[i]
  <2> DEFINE j == i + 1
  <2>1. j \in 1 .. n /\ j - 1 = i /\ i \in 0 .. n
    OBVIOUS
  <2> HIDE DEF j
  <2>2. K[j] = G[j][K[j - 1]]
    BY <1>3, <2>1 DEF Runs
  <2>3. K[i] \in Nat
    BY <1>4, <2>1
  <2>4. K[j] = IF j \in I THEN K[i] + 1 ELSE K[i]
    BY <1>2, <2>1, <2>2, <2>3
  <2>5. QED BY <2>4 DEF j
<1>6. QED BY <1>4, <1>5 DEF Counts

(* p are the elements of s at the places in I up to i. *)
Picked(p, s, I, K, i) ==
    /\ Len(p) = K[i]
    /\ \A j \in 1 .. i : j \in I => K[j] \in 1 .. K[i] /\ p[K[j]] = s[j]
    /\ \A k \in 1 .. K[i] : \E j \in 1 .. i : j \in I /\ K[j] = k

LEMMA PickCount ==
    ASSUME NEW C, NEW s \in Seq(C), NEW I, NEW K, Counts(K, I, Len(s)), K[0] = 0
    PROVE  Picked(Pick(s, I), s, I, K, Len(s))
<1> DEFINE n == Len(s)
<1>1. n \in Nat
  OBVIOUS
<1>2. PICK f \in [0 .. n -> Seq(C)] :
        /\ Pick(s, I) = f[n]
        /\ \A i \in 0 .. n : f[i] = PickStep(s, I, f, i)
  BY PickDef
<1>3. \A i \in 1 .. n : s[i] \in C
  OBVIOUS
<1>4. /\ \A i \in 0 .. n : K[i] \in Nat
      /\ \A i \in 0 .. n - 1 : K[i + 1] = IF i + 1 \in I THEN K[i] + 1 ELSE K[i]
  BY DEF Counts
<1> HIDE DEF n
<1> DEFINE S == {i \in 0 .. n : Picked(f[i], s, I, K, i)}
<1>5. 0 \in S
  <2>1. f[0] = <<>>
    BY <1>1, <1>2 DEF PickStep
  <2>2. Picked(f[0], s, I, K, 0)
    BY <2>1 DEF Picked
  <2>3. QED BY <1>1, <2>2
<1>6. ASSUME NEW i \in 0 .. n - 1, i \in S PROVE i + 1 \in S
  <2> DEFINE j == i + 1
             p == f[i]
             q == f[j]
  <2>1. j \in 0 .. n /\ j \in 1 .. n /\ j # 0 /\ j - 1 = i /\ i \in 0 .. n
    BY <1>1
  <2>2. K[i] \in Nat /\ K[j] = IF j \in I THEN K[i] + 1 ELSE K[i]
    BY <1>4, <2>1
  <2>3. p \in Seq(C) /\ Picked(p, s, I, K, i)
    BY <1>6, <2>1
  <2> HIDE DEF j
  <2>4. q = IF j \in I THEN Append(p, s[j]) ELSE p
    BY <1>2, <2>1 DEF PickStep
  <2> HIDE DEF p, q
  <2>5. CASE j \in I
    <3>1. /\ Len(q) = Len(p) + 1 /\ q[Len(p) + 1] = s[j]
          /\ \A k \in 1 .. Len(p) : q[k] = p[k]
      BY <1>3, <2>1, <2>3, <2>4, <2>5, AppendProperties
    <3>2. /\ Len(p) = K[i] /\ K[j] = K[i] + 1
      BY <2>2, <2>3, <2>5 DEF Picked
    <3>3. Len(q) = K[j]
      BY <3>1, <3>2
    <3>4. ASSUME NEW x \in 1 .. j, x \in I
          PROVE  K[x] \in 1 .. K[j] /\ q[K[x]] = s[x]
      <4>1. CASE x = j
        BY <2>2, <3>1, <3>2, <4>1
      <4>2. CASE x # j
        <5>1. x \in 1 .. i
          BY <2>1, <4>2
        <5>2. K[x] \in 1 .. K[i] /\ p[K[x]] = s[x]
          BY <2>3, <3>4, <5>1 DEF Picked
        <5>3. QED BY <2>2, <3>1, <3>2, <5>2
      <4>3. QED BY <4>1, <4>2
    <3>5. ASSUME NEW k \in 1 .. K[j] PROVE \E x \in 1 .. j : x \in I /\ K[x] = k
      <4>1. CASE k = K[j]
        <5>1. j \in 1 .. j
          BY <2>1
        <5>2. QED BY <2>5, <4>1, <5>1
      <4>2. CASE k # K[j]
        <5>1. k \in 1 .. K[i]
          BY <2>2, <3>2, <4>2
        <5>2. PICK x \in 1 .. i : x \in I /\ K[x] = k
          BY <2>3, <5>1 DEF Picked
        <5>3. x \in 1 .. j
          BY <2>1
        <5>4. QED BY <5>2, <5>3
      <4>3. QED BY <4>1, <4>2
    <3>6. Picked(q, s, I, K, j)
      BY <3>3, <3>4, <3>5 DEF Picked
    <3>7. QED BY <2>1, <3>6 DEF j, q
  <2>6. CASE j \notin I
    <3>1. q = p /\ K[j] = K[i]
      BY <2>2, <2>4, <2>6
    <3>2. ASSUME NEW x \in 1 .. j, x \in I
          PROVE  K[x] \in 1 .. K[j] /\ q[K[x]] = s[x]
      <4>1. x \in 1 .. i
        BY <2>1, <2>6, <3>2
      <4>2. QED BY <2>3, <3>1, <3>2, <4>1 DEF Picked
    <3>3. ASSUME NEW k \in 1 .. K[j] PROVE \E x \in 1 .. j : x \in I /\ K[x] = k
      <4>1. PICK x \in 1 .. i : x \in I /\ K[x] = k
        BY <2>3, <3>1 DEF Picked
      <4>2. x \in 1 .. j
        BY <2>1
      <4>3. QED BY <4>1, <4>2
    <3>4. Len(q) = K[j]
      BY <2>3, <3>1 DEF Picked
    <3>5. Picked(q, s, I, K, j)
      BY <3>2, <3>3, <3>4 DEF Picked
    <3>6. QED BY <2>1, <3>5 DEF j, q
  <2>7. QED BY <2>5, <2>6
<1>7. 0 .. n \subseteq S
  <2> HIDE DEF S
  <2>1. QED BY <1>1, <1>5, <1>6, UpTo
<1>8. n \in S
  BY <1>1, <1>7
<1>9. QED BY <1>2, <1>8 DEF n

(* The elements of p are what stands in s at the places in I. *)
TakenFrom(p, s, I) ==
    /\ \A k \in 1 .. Len(p) : \E j \in 1 .. Len(s) : j \in I /\ p[k] = s[j]
    /\ \A j \in 1 .. Len(s) : j \in I => \E k \in 1 .. Len(p) : p[k] = s[j]

LEMMA PickElements ==
    ASSUME NEW C, NEW s \in Seq(C), NEW I
    PROVE  TakenFrom(Pick(s, I), s, I)
<1> DEFINE p == Pick(s, I)
           n == Len(s)
<1>1. n \in Nat /\ 0 \in Nat
  OBVIOUS
<1>2. PICK K : Counts(K, I, n) /\ K[0] = 0
  <2> HIDE DEF n
  <2>1. QED BY <1>1, CountExists
<1>3. Picked(p, s, I, K, n)
  BY <1>2, PickCount
<1> HIDE DEF p, n
<1>4. /\ Len(p) = K[n]
      /\ \A j \in 1 .. n : j \in I => K[j] \in 1 .. K[n] /\ p[K[j]] = s[j]
      /\ \A k \in 1 .. K[n] : \E j \in 1 .. n : j \in I /\ K[j] = k
  BY <1>3, Zenon DEF Picked
<1>5. \A k \in 1 .. Len(p) : \E j \in 1 .. n : j \in I /\ p[k] = s[j]
  BY <1>4
<1>6. \A j \in 1 .. n : j \in I => \E k \in 1 .. Len(p) : p[k] = s[j]
  BY <1>4
<1>7. QED BY <1>5, <1>6, Zenon DEF p, n, TakenFrom

-----------------------------------------------------------------------------
(* Sequences put one after the other, and where each begins *)

Off(ps, i) == Len(First(ps, i))

LEMMA Offsets ==
    ASSUME NEW C, NEW ps \in Seq(Seq(C))
    PROVE  /\ Off(ps, 0) = 0 /\ Off(ps, Len(ps)) = Len(FlattenSeq(ps))
           /\ \A i \in 0 .. Len(ps) : Off(ps, i) \in Nat
           /\ \A i \in 1 .. Len(ps) : Off(ps, i) = Off(ps, i - 1) + Len(ps[i])
           /\ FlattenSeq(ps) \in Seq(C)
<1>1. Len(ps) \in Nat /\ \A i \in 1 .. Len(ps) : ps[i] \in Seq(C)
  OBVIOUS
<1>2. /\ First(ps, 0) = <<>> /\ First(ps, Len(ps)) = FlattenSeq(ps)
      /\ \A i \in 0 .. Len(ps) : First(ps, i) \in Seq(C)
      /\ \A i \in 1 .. Len(ps) : First(ps, i) = First(ps, i - 1) \o ps[i]
  BY FirstFacts
<1>3. Off(ps, 0) = 0 /\ Off(ps, Len(ps)) = Len(FlattenSeq(ps))
  BY <1>2 DEF Off
<1>4. \A i \in 0 .. Len(ps) : Off(ps, i) \in Nat
  BY <1>2 DEF Off
<1>5. ASSUME NEW i \in 1 .. Len(ps) PROVE Off(ps, i) = Off(ps, i - 1) + Len(ps[i])
  <2> DEFINE a == First(ps, i - 1)
             b == ps[i]
  <2>1. i - 1 \in 0 .. Len(ps)
    BY <1>1
  <2>2. a \in Seq(C) /\ b \in Seq(C) /\ First(ps, i) = a \o b
    BY <1>1, <1>2, <2>1
  <2> HIDE DEF a, b
  <2>3. Len(a \o b) = Len(a) + Len(b)
    BY <2>2, Joined
  <2>4. QED BY <2>2, <2>3 DEF Off, a, b
<1>6. FlattenSeq(ps) \in Seq(C)
  <2>1. Len(ps) \in 0 .. Len(ps)
    BY <1>1
  <2>2. First(ps, Len(ps)) \in Seq(C)
    BY <1>2, <2>1
  <2>3. QED BY <1>2, <2>2, Zenon
<1>7. QED BY <1>3, <1>4, <1>5, <1>6

LEMMA HoldsParts ==
    ASSUME NEW C, NEW ps \in Seq(Seq(C)), NEW s, NEW at \in Nat,
           Holds(s, at, FlattenSeq(ps))
    PROVE  \A i \in 1 .. Len(ps) : Holds(s, at + Off(ps, i - 1), ps[i])
<1> DEFINE n == Len(ps)
           S == {d \in 0 .. n : Holds(s, at, First(ps, n - d))}
<1>1. n \in Nat /\ \A i \in 1 .. n : ps[i] \in Seq(C)
  OBVIOUS
<1>2. /\ First(ps, n) = FlattenSeq(ps)
      /\ \A i \in 0 .. n : First(ps, i) \in Seq(C)
      /\ \A i \in 1 .. n : First(ps, i) = First(ps, i - 1) \o ps[i]
  BY FirstFacts
<1> HIDE DEF n
<1>3. ASSUME NEW i \in 1 .. n, Holds(s, at, First(ps, i))
      PROVE  Holds(s, at, First(ps, i - 1)) /\ Holds(s, at + Off(ps, i - 1), ps[i])
  <2> DEFINE a == First(ps, i - 1)
             b == ps[i]
  <2>1. i - 1 \in 0 .. n
    BY <1>1
  <2>2. a \in Seq(C) /\ b \in Seq(C) /\ First(ps, i) = a \o b
    BY <1>1, <1>2, <2>1
  <2> HIDE DEF a, b
  <2>3. Holds(s, at, a \o b)
    BY <1>3, <2>2
  <2>4. Holds(s, at, a) /\ Holds(s, at + Len(a), b)
    BY <2>2, <2>3, HoldsBoth
  <2>5. QED BY <2>4 DEF Off, a, b
<1>4. 0 \in S
  <2>1. n - 0 = n
    BY <1>1
  <2>2. QED BY <1>1, <1>2, <2>1
<1>5. ASSUME NEW d \in 0 .. n - 1, d \in S PROVE d + 1 \in S
  <2> DEFINE i == n - d
  <2>1. i \in 1 .. n /\ n - (d + 1) = i - 1 /\ d + 1 \in 0 .. n
    BY <1>1
  <2>2. Holds(s, at, First(ps, i))
    BY <1>5
  <2> HIDE DEF i
  <2>3. Holds(s, at, First(ps, i - 1))
    BY <1>3, <2>1, <2>2
  <2>4. QED BY <2>1, <2>3
<1>6. 0 .. n \subseteq S
  <2> HIDE DEF S
  <2>1. QED BY <1>1, <1>4, <1>5, UpTo
<1>7. ASSUME NEW i \in 1 .. n PROVE Holds(s, at + Off(ps, i - 1), ps[i])
  <2> DEFINE d == n - i
  <2>1. d \in 0 .. n /\ n - d = i
    BY <1>1
  <2> HIDE DEF d
  <2>2. Holds(s, at, First(ps, i))
    BY <1>6, <2>1
  <2>3. QED BY <1>3, <2>2
<1>8. QED BY <1>7 DEF n

-----------------------------------------------------------------------------
(* Values: what a builder writes is what the decoder reads. *)

(* A tie-breaker names a node in its third mode only. *)
MeaningOf(o, v) ==
    IF o = "TIE_BREAKER" /\ v.mode # 3 THEN [v EXCEPT !.node = 0] ELSE v

(* The cells are of this length, and an option that holds them is read as  *)
(* this value.                                                             *)
Reads(o, cells, len, v) ==
    /\ cells \in Seq(Cell) /\ Len(cells) = len /\ len \in Nat /\ len < Base2
    /\ \A s, t : /\ t.at \in Nat /\ t.len = len /\ Name(t.code) = o
                 /\ Holds(s, t.at, cells)
                 => Value(s, t) = v

LEMMA CellsForms ==
    ASSUME NEW o, NEW v
    PROVE  /\ o \in Lists => Cells(o, v) = FlattenSeq([i \in DOMAIN v |-> Put(2, v[i])])
           /\ o = "CLUSTER_NAME" => Cells(o, v) = v
           /\ o = "RING_ID" => Cells(o, v) = Put(4, v.node) \o Put(8, v.seq)
           /\ o = "TIE_BREAKER" =>
                Cells(o, v) = Put(1, v.mode) \o Put(4, IF v.mode = 3 THEN v.node ELSE 0)
           /\ o \notin Lists \cup {"CLUSTER_NAME", "RING_ID", "TIE_BREAKER"} =>
                Cells(o, v) = Put(Width(o), v)
<1>1. CASE o \in Lists
  <2>1. o \notin {"CLUSTER_NAME", "RING_ID", "TIE_BREAKER"}
    BY <1>1 DEF Lists
  <2>2. Cells(o, v) = FlattenSeq([i \in DOMAIN v |-> Put(2, v[i])])
    BY <1>1, Zenon DEF Cells, Lists
  <2>3. QED BY <1>1, <2>1, <2>2, Zenon
<1>2. CASE o = "CLUSTER_NAME"
  BY <1>2, Zenon DEF Cells, Lists
<1>3. CASE o = "RING_ID"
  BY <1>3, Zenon DEF Cells, Lists
<1>4. CASE o = "TIE_BREAKER"
  BY <1>4, Zenon DEF Cells, Lists
<1>5. CASE o \notin Lists \cup {"CLUSTER_NAME", "RING_ID", "TIE_BREAKER"}
  BY <1>5, Zenon DEF Cells, Lists
<1>6. QED BY <1>1, <1>2, <1>3, <1>4, <1>5, Zenon

LEMMA FitsForms ==
    ASSUME NEW o, NEW v, Fits(o, v)
    PROVE  /\ o \in Lists => v \in Seq(Number(2)) /\ 2 * Len(v) < Base2
           /\ o = "CLUSTER_NAME" => v \in Seq(Cell) /\ Len(v) < Base2
           /\ o = "RING_ID" => v \in [node : Number(4), seq : Number(8)]
           /\ o = "TIE_BREAKER" => v \in [mode : Number(1), node : Number(4)]
           /\ o \notin Lists \cup {"CLUSTER_NAME", "RING_ID", "TIE_BREAKER"} =>
                v \in Number(Width(o))
<1>1. CASE o \in Lists
  <2>1. o \notin {"CLUSTER_NAME", "RING_ID", "TIE_BREAKER"}
    BY <1>1 DEF Lists
  <2>2. v \in Seq(Number(2)) /\ 2 * Len(v) < Base2
    BY <1>1, Zenon DEF Fits, Lists
  <2>3. QED BY <1>1, <2>1, <2>2, Zenon
<1>2. CASE o = "CLUSTER_NAME"
  BY <1>2, Zenon DEF Fits, Lists
<1>3. CASE o = "RING_ID"
  BY <1>3, Zenon DEF Fits, Lists
<1>4. CASE o = "TIE_BREAKER"
  BY <1>4, Zenon DEF Fits, Lists
<1>5. CASE o \notin Lists \cup {"CLUSTER_NAME", "RING_ID", "TIE_BREAKER"}
  BY <1>5, Zenon DEF Fits, Lists
<1>6. QED BY <1>1, <1>2, <1>3, <1>4, <1>5, Zenon

LEMMA ReadsName ==
    ASSUME NEW v \in Seq(Cell), Len(v) < Base2
    PROVE  Reads("CLUSTER_NAME", v, Len(v), v)
<1>1. Len(v) \in Nat
  OBVIOUS
<1>2. ASSUME NEW s, NEW t, t.at \in Nat, t.len = Len(v),
             Name(t.code) = "CLUSTER_NAME", Holds(s, t.at, v)
      PROVE  Value(s, t) = v
  <2> DEFINE at == t.at
             w == SubSeq(s, at + 1, at + Len(v))
  <2>1. Value(s, t) = w
    BY <1>2, ValueForms
  <2>2. at \in Nat /\ Holds(s, at, v)
    BY <1>2
  <2> HIDE DEF at
  <2>3. \A i \in 1 .. Len(v) : s[at + i] = v[i] /\ v[i] \in Cell
    BY <2>2 DEF Holds
  <2>4. \A i \in at + 1 .. at + Len(v) : s[i] \in Cell
    <3>1. ASSUME NEW i \in at + 1 .. at + Len(v) PROVE s[i] \in Cell
      <4> DEFINE j == i - at
      <4>1. j \in 1 .. Len(v) /\ at + j = i
        BY <1>1, <2>2
      <4>2. QED BY <2>3, <4>1
    <3>2. QED BY <3>1
  <2>5. /\ w \in Seq(Cell)
        /\ Len(w) = IF at + 1 <= at + Len(v) THEN at + Len(v) - (at + 1) + 1 ELSE 0
        /\ \A i \in 1 .. at + Len(v) - (at + 1) + 1 : w[i] = s[at + 1 + i - 1]
    BY <1>1, <2>2, <2>4, SubSeqProperties, SMTT(60)
  <2> HIDE DEF w
  <2>6. Len(w) = Len(v)
    BY <1>1, <2>2, <2>5
  <2>7. \A i \in 1 .. Len(w) : w[i] = v[i]
    <3>1. ASSUME NEW i \in 1 .. Len(v) PROVE w[i] = v[i]
      <4>1. i \in 1 .. at + Len(v) - (at + 1) + 1 /\ at + 1 + i - 1 = at + i
        BY <1>1, <2>2
      <4>2. w[i] = s[at + i]
        BY <2>5, <4>1
      <4>3. QED BY <2>3, <4>2
    <3>2. QED BY <2>6, <3>1
  <2>8. w = v
    BY <2>5, <2>6, <2>7, SeqEqual
  <2>9. QED BY <2>1, <2>8
<1>3. QED BY <1>1, <1>2 DEF Reads

LEMMA Evens ==
    ASSUME NEW ps \in Seq(Seq(Cell)), \A i \in 1 .. Len(ps) : Len(ps[i]) = 2
    PROVE  \A i \in 0 .. Len(ps) : Off(ps, i) = 2 * i
<1> DEFINE n == Len(ps)
           S == {i \in 0 .. n : Off(ps, i) = 2 * i}
<1>1. n \in Nat
  OBVIOUS
<1>2. /\ Off(ps, 0) = 0
      /\ \A i \in 1 .. n : Off(ps, i) = Off(ps, i - 1) + Len(ps[i])
  BY Offsets
<1>3. \A i \in 1 .. n : Off(ps, i) = Off(ps, i - 1) + 2
  BY <1>2
<1> HIDE DEF n
<1>4. 0 \in S
  BY <1>1, <1>2
<1>5. ASSUME NEW i \in 0 .. n - 1, i \in S PROVE i + 1 \in S
  <2>1. i + 1 \in 1 .. n /\ i + 1 - 1 = i /\ i + 1 \in 0 .. n
    BY <1>1
  <2>2. Off(ps, i + 1) = Off(ps, i) + 2
    BY <1>3, <2>1
  <2>3. Off(ps, i) = 2 * i
    BY <1>5
  <2>4. QED BY <2>1, <2>2, <2>3
<1>6. 0 .. n \subseteq S
  <2> HIDE DEF S
  <2>1. QED BY <1>1, <1>4, <1>5, UpTo
<1>7. QED BY <1>6 DEF n

LEMMA ReadsList ==
    ASSUME NEW o \in Lists, NEW v \in Seq(Number(2)), 2 * Len(v) < Base2
    PROVE  Reads(o, FlattenSeq([i \in DOMAIN v |-> Put(2, v[i])]), 2 * Len(v), v)
<1> DEFINE ps == [i \in DOMAIN v |-> Put(2, v[i])]
           n == Len(v)
           cells == FlattenSeq(ps)
<1>1. n \in Nat /\ DOMAIN v = 1 .. n /\ \A i \in 1 .. n : v[i] \in Number(2)
  OBVIOUS
<1>2. 2 \in Widths
  BY DEF Widths
<1>3. ASSUME NEW i \in 1 .. n
      PROVE  /\ Put(2, v[i]) \in Seq(Cell) /\ Len(Put(2, v[i])) = 2
             /\ \A s, at : at \in Nat /\ Holds(s, at, Put(2, v[i])) => Get(s, at, 2) = v[i]
  BY <1>1, <1>2, PutGet
<1>4. /\ ps \in Seq(Seq(Cell)) /\ Len(ps) = n
      /\ \A i \in 1 .. n : ps[i] = Put(2, v[i])
  <2>1. ps = [i \in 1 .. n |-> Put(2, v[i])]
    BY <1>1
  <2> HIDE DEF ps, n
  <2>2. QED BY <1>1, <1>3, <2>1
<1> HIDE DEF ps, n
<1>5. \A i \in 0 .. n : Off(ps, i) = 2 * i
  <2>1. \A i \in 1 .. Len(ps) : Len(ps[i]) = 2
    BY <1>3, <1>4
  <2>2. \A i \in 0 .. Len(ps) : Off(ps, i) = 2 * i
    BY <1>4, <2>1, Evens
  <2>3. QED BY <1>4, <2>2
<1>6. cells \in Seq(Cell) /\ Len(cells) = 2 * n
  <2>1. cells \in Seq(Cell) /\ Off(ps, Len(ps)) = Len(cells)
    BY <1>4, Offsets
  <2>2. n \in 0 .. n
    BY <1>1
  <2>3. QED BY <1>4, <1>5, <2>1, <2>2
<1>7. 2 * n \in Nat /\ 2 * n < Base2
  BY <1>1 DEF n
<1>8. ASSUME NEW s, NEW t, t.at \in Nat, t.len = 2 * n, Name(t.code) = o,
             Holds(s, t.at, cells)
      PROVE  Value(s, t) = v
  <2> DEFINE at == t.at
             w == ListValue(s, t)
  <2>1. Value(s, t) = w
    BY <1>8, ValueForms
  <2>2. at \in Nat /\ Holds(s, at, cells)
    BY <1>8
  <2>3. w = [i \in 1 .. n |-> Get(s, at + 2 * (i - 1), 2)]
    <3>1. (2 * n) \div 2 = n
      BY <1>1
    <3>2. QED BY <1>8, <3>1 DEF ListValue
  <2> HIDE DEF at, w, cells
  <2>4. \A i \in 1 .. n : Holds(s, at + Off(ps, i - 1), ps[i])
    BY <1>4, <2>2, HoldsParts DEF cells
  <2>5. ASSUME NEW i \in 1 .. n PROVE Get(s, at + 2 * (i - 1), 2) = v[i]
    <3>1. Off(ps, i - 1) = 2 * (i - 1) /\ at + 2 * (i - 1) \in Nat
      BY <1>1, <1>5, <2>2
    <3>2. Holds(s, at + 2 * (i - 1), Put(2, v[i]))
      BY <1>4, <2>4, <3>1
    <3>3. QED BY <1>3, <3>1, <3>2
  <2>6. w = [i \in 1 .. n |-> v[i]]
    BY <2>3, <2>5
  <2>7. v = [i \in 1 .. n |-> v[i]]
    BY <1>1
  <2>8. QED BY <2>1, <2>6, <2>7
<1>9. Reads(o, cells, 2 * n, v)
  BY <1>6, <1>7, <1>8 DEF Reads
<1>10. QED BY <1>9 DEF cells, ps, n

LEMMA ReadsRing ==
    ASSUME NEW v \in [node : Number(4), seq : Number(8)]
    PROVE  Reads("RING_ID", Put(4, v.node) \o Put(8, v.seq), 12, v)
<1> DEFINE a == Put(4, v.node)
           b == Put(8, v.seq)
<1>1. 4 \in Widths /\ 8 \in Widths /\ v.node \in Number(4) /\ v.seq \in Number(8)
  BY DEF Widths
<1>2. /\ a \in Seq(Cell) /\ Len(a) = 4
      /\ \A s, at : at \in Nat /\ Holds(s, at, a) => Get(s, at, 4) = v.node
  BY <1>1, PutGet
<1>3. /\ b \in Seq(Cell) /\ Len(b) = 8
      /\ \A s, at : at \in Nat /\ Holds(s, at, b) => Get(s, at, 8) = v.seq
  BY <1>1, PutGet
<1> HIDE DEF a, b
<1>4. a \o b \in Seq(Cell) /\ Len(a \o b) = Len(a) + Len(b)
  BY <1>2, <1>3, Joined, Zenon
<1>5. Len(a \o b) = 12
  <2>1. Len(a) + Len(b) = 12
    BY <1>2, <1>3
  <2>2. QED BY <1>4, <2>1
<1>6. ASSUME NEW s, NEW t, t.at \in Nat, t.len = 12, Name(t.code) = "RING_ID",
             Holds(s, t.at, a \o b)
      PROVE  Value(s, t) = v
  <2>1. Holds(s, t.at, a) /\ Holds(s, t.at + Len(a), b)
    BY <1>2, <1>3, <1>6, HoldsBoth, Zenon
  <2>2. t.at + Len(a) = t.at + 4 /\ t.at + 4 \in Nat
    BY <1>2, <1>6
  <2>3. Get(s, t.at, 4) = v.node /\ Get(s, t.at + 4, 8) = v.seq
    BY <1>2, <1>3, <1>6, <2>1, <2>2, Zenon
  <2>4. RingValue(s, t) = v
    BY <2>3 DEF RingValue
  <2>5. QED BY <1>6, <2>4, ValueForms
<1>7. 12 \in Nat /\ 12 < Base2
  BY Bases
<1>8. QED BY <1>4, <1>5, <1>6, <1>7 DEF Reads, a, b

LEMMA ReadsTie ==
    ASSUME NEW v \in [mode : Number(1), node : Number(4)]
    PROVE  Reads("TIE_BREAKER",
                 Put(1, v.mode) \o Put(4, IF v.mode = 3 THEN v.node ELSE 0), 5,
                 MeaningOf("TIE_BREAKER", v))
<1> DEFINE node == IF v.mode = 3 THEN v.node ELSE 0
           a == Put(1, v.mode)
           b == Put(4, node)
<1>1. 1 \in Widths /\ 4 \in Widths /\ v.mode \in Number(1)
  BY DEF Widths
<1>2. node \in Number(4)
  BY Bases DEF Number, Limit
<1>3. MeaningOf("TIE_BREAKER", v) = [mode |-> v.mode, node |-> node]
  BY DEF MeaningOf
<1> HIDE DEF node
<1>4. /\ a \in Seq(Cell) /\ Len(a) = 1
      /\ \A s, at : at \in Nat /\ Holds(s, at, a) => Get(s, at, 1) = v.mode
  BY <1>1, PutGet
<1>5. /\ b \in Seq(Cell) /\ Len(b) = 4
      /\ \A s, at : at \in Nat /\ Holds(s, at, b) => Get(s, at, 4) = node
  BY <1>1, <1>2, PutGet
<1> HIDE DEF a, b
<1>6. a \o b \in Seq(Cell) /\ Len(a \o b) = Len(a) + Len(b)
  BY <1>4, <1>5, Joined, Zenon
<1>7. Len(a \o b) = 5
  <2>1. Len(a) + Len(b) = 5
    BY <1>4, <1>5
  <2>2. QED BY <1>6, <2>1
<1>8. ASSUME NEW s, NEW t, t.at \in Nat, t.len = 5, Name(t.code) = "TIE_BREAKER",
             Holds(s, t.at, a \o b)
      PROVE  Value(s, t) = [mode |-> v.mode, node |-> node]
  <2>1. Holds(s, t.at, a) /\ Holds(s, t.at + Len(a), b)
    BY <1>4, <1>5, <1>8, HoldsBoth, Zenon
  <2>2. t.at + Len(a) = t.at + 1 /\ t.at + 1 \in Nat
    BY <1>4, <1>8
  <2>3. Get(s, t.at, 1) = v.mode /\ Get(s, t.at + 1, 4) = node
    BY <1>4, <1>5, <1>8, <2>1, <2>2, Zenon
  <2>4. v.mode # 3 => node = 0
    BY DEF node
  <2>5. TieValue(s, t) = [mode |-> v.mode, node |-> node]
    BY <2>3, <2>4 DEF TieValue
  <2>6. QED BY <1>8, <2>5, ValueForms
<1>9. 5 \in Nat /\ 5 < Base2
  BY Bases
<1>10. Reads("TIE_BREAKER", a \o b, 5, [mode |-> v.mode, node |-> node])
  BY <1>6, <1>7, <1>8, <1>9 DEF Reads
<1>11. QED BY <1>3, <1>10 DEF a, b, node

LEMMA ReadsPlain ==
    ASSUME NEW o, o \notin Lists \cup {"CLUSTER_NAME", "RING_ID", "TIE_BREAKER"},
           NEW v \in Number(Width(o))
    PROVE  Reads(o, Put(Width(o), v), Width(o), v)
<1> DEFINE w == Width(o)
           a == Put(w, v)
<1>1. w \in Widths
  BY WidthFacts
<1>2. /\ a \in Seq(Cell) /\ Len(a) = w
      /\ \A s, at : at \in Nat /\ Holds(s, at, a) => Get(s, at, w) = v
  BY <1>1, PutGet
<1>3. w \in Nat /\ w < Base2
  BY <1>1, Bases DEF Widths
<1> HIDE DEF a
<1>4. ASSUME NEW s, NEW t, t.at \in Nat, t.len = w, Name(t.code) = o,
             Holds(s, t.at, a)
      PROVE  Value(s, t) = v
  <2>1. Get(s, t.at, w) = v
    BY <1>2, <1>4, Zenon
  <2>2. Value(s, t) = Get(s, t.at, w)
    BY <1>4, ValueForms
  <2>3. QED BY <2>1, <2>2
<1>5. QED BY <1>2, <1>3, <1>4 DEF Reads, a

(* The length of a list is checked, that of the other values is right. *)
ListFits(o, v) == o \in Lists => Len(v) <= MaxList

LEMMA CellsFacts ==
    ASSUME NEW o, NEW v, Fits(o, v)
    PROVE  /\ Reads(o, Cells(o, v), Len(Cells(o, v)), MeaningOf(o, v))
           /\ LengthOK(o, Len(Cells(o, v))) <=> ListFits(o, v)
           /\ Valid(o, MeaningOf(o, v)) <=> Valid(o, v)
<1> DEFINE cells == Cells(o, v)
<1>1. CASE o \in Lists
  <2>1. o \notin {"CLUSTER_NAME", "RING_ID", "TIE_BREAKER"} /\ MeaningOf(o, v) = v
    BY <1>1 DEF Lists, MeaningOf
  <2>2. v \in Seq(Number(2)) /\ 2 * Len(v) < Base2
    BY <1>1, FitsForms
  <2>3. Reads(o, cells, 2 * Len(v), v)
    <3>1. cells = FlattenSeq([i \in DOMAIN v |-> Put(2, v[i])])
      BY <1>1, CellsForms, Zenon
    <3>2. Reads(o, FlattenSeq([i \in DOMAIN v |-> Put(2, v[i])]), 2 * Len(v), v)
      BY <1>1, <2>2, ReadsList, Zenon
    <3> HIDE DEF cells
    <3>3. QED BY <3>1, <3>2, Zenon
  <2> HIDE DEF cells
  <2>4. Len(cells) = 2 * Len(v)
    BY <2>3 DEF Reads
  <2>5. LengthOK(o, 2 * Len(v)) <=> Len(v) <= MaxList
    <3> DEFINE k == 2 * Len(v)
    <3>1. Len(v) \in Nat /\ k % 2 = 0 /\ k \div 2 = Len(v)
      BY <2>2
    <3> HIDE DEF k
    <3>2. LengthOK(o, k) <=> k % 2 = 0 /\ k \div 2 <= MaxList
      BY <1>1, LengthForms, Zenon
    <3>3. LengthOK(o, k) <=> Len(v) <= MaxList
      BY <3>1, <3>2
    <3>4. QED BY <3>3 DEF k
  <2>6. QED BY <1>1, <2>1, <2>3, <2>4, <2>5 DEF ListFits, cells
<1>2. CASE o = "CLUSTER_NAME"
  <2>1. o \notin Lists /\ MeaningOf(o, v) = v
    BY <1>2 DEF Lists, MeaningOf
  <2>2. cells = v /\ v \in Seq(Cell) /\ Len(v) < Base2
    BY <1>2, FitsForms, CellsForms
  <2>3. Reads(o, v, Len(v), v)
    BY <1>2, <2>2, ReadsName
  <2>4. LengthOK(o, Len(v))
    BY <1>2, LengthForms
  <2>5. QED BY <2>1, <2>2, <2>3, <2>4 DEF ListFits
<1>3. CASE o = "RING_ID"
  <2>1. o \notin Lists /\ MeaningOf(o, v) = v
    BY <1>3 DEF Lists, MeaningOf
  <2>2. v \in [node : Number(4), seq : Number(8)]
    BY <1>3, FitsForms
  <2>3. Reads(o, cells, 12, v)
    BY <1>3, <2>2, ReadsRing, CellsForms
  <2> HIDE DEF cells
  <2>4. Len(cells) = 12
    BY <2>3 DEF Reads
  <2>5. LengthOK(o, 12)
    BY <1>3, LengthForms
  <2>6. QED BY <2>1, <2>3, <2>4, <2>5 DEF ListFits, cells
<1>4. CASE o = "TIE_BREAKER"
  <2>1. o \notin Lists /\ o \notin DOMAIN Allowed
    BY <1>4 DEF Lists, Allowed
  <2>2. v \in [mode : Number(1), node : Number(4)]
    BY <1>4, FitsForms
  <2>3. Reads(o, cells, 5, MeaningOf(o, v))
    <3> DEFINE tie == Put(1, v.mode) \o Put(4, IF v.mode = 3 THEN v.node ELSE 0)
    <3>1. Reads(o, tie, 5, MeaningOf(o, v))
      BY <1>4, <2>2, ReadsTie
    <3>2. cells = tie
      BY <1>4, CellsForms, Zenon
    <3> HIDE DEF cells, tie
    <3>3. QED BY <3>1, <3>2
  <2> HIDE DEF cells
  <2>4. Len(cells) = 5
    BY <2>3 DEF Reads
  <2>5. LengthOK(o, 5)
    BY <1>4, LengthForms
  <2>6. MeaningOf(o, v).mode = v.mode
    BY <2>2 DEF MeaningOf
  <2>7. Valid(o, MeaningOf(o, v)) <=> Valid(o, v)
    BY <2>1, <2>6, Zenon DEF Valid
  <2>8. QED BY <2>1, <2>3, <2>4, <2>5, <2>7 DEF ListFits, cells
<1>5. CASE o \notin Lists \cup {"CLUSTER_NAME", "RING_ID", "TIE_BREAKER"}
  <2>1. o \notin Lists /\ MeaningOf(o, v) = v
    BY <1>5 DEF MeaningOf
  <2>2. v \in Number(Width(o))
    BY <1>5, FitsForms
  <2>3. Reads(o, cells, Width(o), v)
    BY <1>5, <2>2, ReadsPlain, CellsForms
  <2> HIDE DEF cells
  <2>4. Len(cells) = Width(o)
    BY <2>3 DEF Reads
  <2>5. LengthOK(o, Width(o))
    BY <1>5, LengthForms
  <2>6. QED BY <2>1, <2>3, <2>4, <2>5 DEF ListFits, cells
<1>6. QED BY <1>1, <1>2, <1>3, <1>4, <1>5, Zenon

-----------------------------------------------------------------------------
(* Options as they lie in a buffer, and the iterator over them *)

(* A whole option: its header says how long the rest is. *)
IsTlv(p) == p \in Seq(Cell) /\ Len(p) >= 4 /\ Get(p, 2, 2) = Len(p) - 4

LEMMA TlvFacts ==
    ASSUME NEW code \in Number(2), NEW cells \in Seq(Cell), Len(cells) < Base2
    PROVE  /\ IsTlv(Tlv(code, cells)) /\ Get(Tlv(code, cells), 0, 2) = code
           /\ Len(Tlv(code, cells)) = Len(cells) + 4
           /\ \A s, at : at \in Nat /\ Holds(s, at, Tlv(code, cells))
                           => Holds(s, at + 4, cells)
<1> DEFINE a == Put(2, code)
           b == Put(2, Len(cells))
           h == a \o b
           p == h \o cells
<1>1. 2 \in Widths /\ Len(cells) \in Number(2) /\ Len(cells) \in Nat
  BY Bases DEF Widths, Number, Limit
<1>2. /\ a \in Seq(Cell) /\ Len(a) = 2
      /\ \A s, at : at \in Nat /\ Holds(s, at, a) => Get(s, at, 2) = code
  BY <1>1, PutGet
<1>3. /\ b \in Seq(Cell) /\ Len(b) = 2
      /\ \A s, at : at \in Nat /\ Holds(s, at, b) => Get(s, at, 2) = Len(cells)
  BY <1>1, PutGet
<1>4. Tlv(code, cells) = p
  BY DEF Tlv
<1> HIDE DEF a, b
<1>5. h \in Seq(Cell) /\ Len(h) = 4
  <2>1. h \in Seq(Cell) /\ Len(h) = Len(a) + Len(b)
    BY <1>2, <1>3, Joined, Zenon
  <2>2. Len(a) + Len(b) = 4
    BY <1>2, <1>3
  <2>3. QED BY <2>1, <2>2
<1>6. ASSUME NEW s, NEW at \in Nat, Holds(s, at, h) 
      PROVE  Get(s, at, 2) = code /\ Get(s, at + 2, 2) = Len(cells)
  <2>1. Holds(s, at, a) /\ Holds(s, at + Len(a), b)
    BY <1>2, <1>3, <1>6, HoldsBoth, Zenon
  <2>2. at + Len(a) = at + 2 /\ at + 2 \in Nat
    BY <1>2
  <2>3. QED BY <1>2, <1>3, <2>1, <2>2, Zenon
<1> HIDE DEF h
<1>7. p \in Seq(Cell) /\ Len(p) = Len(cells) + 4
  <2>1. p \in Seq(Cell) /\ Len(p) = Len(h) + Len(cells)
    BY <1>5, Joined, Zenon
  <2>2. Len(h) + Len(cells) = Len(cells) + 4
    BY <1>1, <1>5
  <2>3. QED BY <2>1, <2>2
<1>8. ASSUME NEW s, NEW at, at \in Nat, Holds(s, at, p)
      PROVE  Holds(s, at, h) /\ Holds(s, at + 4, cells)
  <2>1. Holds(s, at, h) /\ Holds(s, at + Len(h), cells)
    BY <1>5, <1>8, HoldsBoth, Zenon
  <2>2. QED BY <1>5, <2>1
<1> HIDE DEF p
<1>9. Holds(p, 0, p)
  BY <1>7 DEF Holds
<1>10. Get(p, 0, 2) = code /\ Get(p, 2, 2) = Len(cells)
  <2>1. 0 \in Nat /\ 0 + 2 = 2
    OBVIOUS
  <2>2. Holds(p, 0, h)
    BY <1>8, <1>9, <2>1
  <2>3. Get(p, 0, 2) = code /\ Get(p, 0 + 2, 2) = Len(cells)
    BY <1>6, <2>1, <2>2
  <2>4. QED BY <2>1, <2>3
<1>11. IsTlv(p)
  BY <1>1, <1>7, <1>10 DEF IsTlv
<1>12. QED BY <1>4, <1>7, <1>8, <1>10, <1>11, Zenon

(* What the iterator says of option p that lies at offset q. *)
Rec(p, q) == [code |-> Get(p, 0, 2), at |-> q + 4, len |-> Len(p) - 4, bad |-> FALSE]

LEMMA TlvIsRec ==
    ASSUME NEW p, IsTlv(p), NEW s, NEW q \in Nat, \A i \in 1 .. 4 : s[q + i] = p[i]
    PROVE  TlvAt(s, q) = Rec(p, q) /\ After(s, q) = q + Len(p) /\ Len(p) \in Nat
<1>1. Len(p) \in Nat /\ Len(p) >= 4 /\ Get(p, 2, 2) = Len(p) - 4
  BY DEF IsTlv
<1>2. Get(s, q, 2) = Get(p, 0, 2)
  <2>1. 0 + 1 = 1 /\ 0 + 2 = 2
    OBVIOUS
  <2>2. QED BY <2>1 DEF Get, GetU16
<1>3. Get(s, q + 2, 2) = Get(p, 2, 2)
  <2>1. 2 + 1 = 3 /\ 2 + 2 = 4 /\ q + 2 + 1 = q + 3 /\ q + 2 + 2 = q + 4
    OBVIOUS
  <2>2. s[q + 3] = p[3] /\ s[q + 4] = p[4]
    OBVIOUS
  <2>3. QED BY <2>1, <2>2 DEF Get, GetU16
<1>4. TlvAt(s, q) = Rec(p, q)
  BY <1>1, <1>2, <1>3 DEF TlvAt, Rec
<1>5. q + 4 + (Len(p) - 4) = q + Len(p)
  BY <1>1
<1>6. After(s, q) = q + Len(p)
  BY <1>1, <1>3, <1>5 DEF After
<1>7. QED BY <1>1, <1>4, <1>6

LEMMA OffsetsGrow ==
    ASSUME NEW C, NEW ps \in Seq(Seq(C)), NEW i \in 0 .. Len(ps),
           NEW k \in i .. Len(ps)
    PROVE  Off(ps, i) <= Off(ps, k)
<1> DEFINE n == Len(ps)
           S == {x \in 0 .. n : x >= i => Off(ps, i) <= Off(ps, x)}
<1>1. n \in Nat /\ \A x \in 1 .. n : Len(ps[x]) \in Nat
  OBVIOUS
<1>2. /\ \A x \in 0 .. n : Off(ps, x) \in Nat
      /\ \A x \in 1 .. n : Off(ps, x) = Off(ps, x - 1) + Len(ps[x])
  BY Offsets
<1>3. i \in 0 .. n /\ Off(ps, i) \in Nat
  BY <1>2
<1> HIDE DEF n
<1>4. 0 \in S
  BY <1>1, <1>3
<1>5. ASSUME NEW x \in 0 .. n - 1, x \in S PROVE x + 1 \in S
  <2> DEFINE y == x + 1
  <2>1. y \in 1 .. n /\ y \in 0 .. n /\ y - 1 = x /\ x \in 0 .. n /\ (y >= i => y = i \/ x >= i)
    BY <1>1, <1>3
  <2> HIDE DEF y
  <2>2. Off(ps, y) = Off(ps, x) + Len(ps[y])
    BY <1>2, <2>1
  <2>3. Off(ps, x) \in Nat /\ Off(ps, y) \in Nat /\ Len(ps[y]) \in Nat
    BY <1>1, <1>2, <2>1
  <2>4. x >= i => Off(ps, i) <= Off(ps, x)
    BY <1>5
  <2>5. y >= i => Off(ps, i) <= Off(ps, y)
    BY <1>3, <2>1, <2>2, <2>3, <2>4, SMTT(60)
  <2>6. QED BY <2>1, <2>5 DEF y
<1>6. 0 .. n \subseteq S
  <2> HIDE DEF S
  <2>1. QED BY <1>1, <1>4, <1>5, UpTo
<1>7. k \in 0 .. n /\ k >= i
  BY <1>1, <1>3 DEF n
<1>8. QED BY <1>6, <1>7

(* Whole options. *)
AllTlvs(ps) == ps \in Seq(Seq(Cell)) /\ \A i \in 1 .. Len(ps) : IsTlv(ps[i])

(* The iterator passes over option p. *)
LEMMA IterPasses ==
    ASSUME NEW s, NEW end, Bytes(s, end), NEW p, IsTlv(p), NEW q \in Nat,
           Holds(s, q, p), q + Len(p) <= end
    PROVE  Iter(s, end)[q] = <<Rec(p, q)>> \o Iter(s, end)[q + Len(p)]
<1> DEFINE it == Iter(s, end)
           r == q + Len(p)
<1>1. Len(p) \in Nat /\ Len(p) >= 4
  BY DEF IsTlv
<1>2. r \in Nat /\ end \in Nat /\ r <= end
  BY <1>1 DEF Bytes
<1>3. it[q] = IterStep(s, end, it, q)
  BY IterDef
<1>4. TlvAt(s, q) = Rec(p, q) /\ After(s, q) = r
  <2>1. \A x \in 1 .. 4 : s[q + x] = p[x]
    BY <1>1 DEF Holds
  <2>2. QED BY <2>1, TlvIsRec
<1>5. ~AtEnd(q, end) /\ ~(q + 4 > end) /\ ~(After(s, q) > end)
  BY <1>1, <1>2, <1>4 DEF AtEnd
<1> HIDE DEF it, r
<1>6. it[q] = <<Rec(p, q)>> \o it[r]
  BY <1>3, <1>4, <1>5 DEF IterStep
<1>7. QED BY <1>6 DEF it, r

LEMMA Prefixed ==
    ASSUME NEW C, NEW y \in Seq(C), NEW e
    PROVE  /\ Len(<<e>> \o y) = Len(y) + 1 /\ (<<e>> \o y)[1] = e
           /\ \A x \in 1 .. Len(y) : (<<e>> \o y)[x + 1] = y[x]
<1> DEFINE D == C \cup {e}
           a == <<e>>
<1>1. y \in Seq(D) /\ a \in Seq(D) /\ Len(a) = 1 /\ a[1] = e /\ Len(y) \in Nat
  OBVIOUS
<1> HIDE DEF D, a
<1>2. /\ Len(a \o y) = Len(a) + Len(y)
      /\ \A i \in 1 .. Len(a) + Len(y) :
           (a \o y)[i] = IF i <= Len(a) THEN a[i] ELSE y[i - Len(a)]
  BY <1>1, ConcatProperties
<1>3. (a \o y)[1] = e /\ Len(a \o y) = Len(y) + 1
  BY <1>1, <1>2
<1>4. ASSUME NEW x \in 1 .. Len(y) PROVE (a \o y)[x + 1] = y[x]
  <2> DEFINE j == x + 1
  <2>1. j \in 1 .. Len(a) + Len(y) /\ ~(j <= Len(a)) /\ j - Len(a) = x
    BY <1>1
  <2> HIDE DEF j
  <2>2. (a \o y)[j] = y[x]
    BY <1>2, <2>1
  <2>3. QED BY <2>2 DEF j
<1>5. QED BY <1>3, <1>4 DEF a

(* The options of a buffer that holds nothing else are found, in order. *)
LEMMA IterWhole ==
    ASSUME NEW ps, AllTlvs(ps), NEW s, NEW at \in Nat,
           Holds(s, at, FlattenSeq(ps)), Bytes(s, at + Len(FlattenSeq(ps)))
    PROVE  LET ts == Tlvs(s, at, Len(FlattenSeq(ps)))
           IN  /\ ts \in Seq(Found(at + Len(FlattenSeq(ps)))) /\ Len(ts) = Len(ps)
               /\ \A i \in 1 .. Len(ps) : ts[i] = Rec(ps[i], at + Off(ps, i - 1))
<1> DEFINE n == Len(ps)
           end == at + Len(FlattenSeq(ps))
           it == Iter(s, end)
           R(i) == Rec(ps[i], at + Off(ps, i - 1))
<1>1. ps \in Seq(Seq(Cell)) /\ n \in Nat
  BY DEF AllTlvs
<1>2. /\ Off(ps, 0) = 0 /\ end = at + Off(ps, n)
      /\ \A i \in 0 .. n : Off(ps, i) \in Nat
  BY <1>1, Offsets
<1>3. \A i \in 1 .. n : Holds(s, at + Off(ps, i - 1), ps[i])
  BY <1>1, HoldsParts
<1>4. end \in Nat /\ Bytes(s, end)
  BY DEF Bytes
<1>5. \A i \in 0 .. n : Off(ps, i) <= Off(ps, n)
  <2>1. \A i \in 0 .. n : n \in i .. n
    BY <1>1
  <2>2. QED BY <1>1, <2>1, OffsetsGrow
<1>6. ASSUME NEW i \in 1 .. n
      PROVE  /\ at + Off(ps, i) \in Nat
             /\ it[at + Off(ps, i - 1)] = <<R(i)>> \o it[at + Off(ps, i)]
  <2> DEFINE q == at + Off(ps, i - 1)
             p == ps[i]
  <2>1. i \in 0 .. n /\ i - 1 \in 0 .. n /\ n \in 0 .. n
    BY <1>1
  <2>2. Off(ps, i) <= Off(ps, n) /\ Off(ps, i) \in Nat /\ Off(ps, n) \in Nat
        /\ Off(ps, i - 1) \in Nat
    BY <1>2, <1>5, <2>1
  <2>3. Off(ps, i) = Off(ps, i - 1) + Len(p)
    BY <1>1, Offsets
  <2>4. IsTlv(p) /\ Len(p) \in Nat /\ Holds(s, q, p)
    BY <1>3 DEF AllTlvs, IsTlv
  <2>5. q \in Nat /\ at + Off(ps, i) = q + Len(p) /\ q + Len(p) <= end
    <3> DEFINE x == Off(ps, i - 1)
               y == Off(ps, i)
               z == Off(ps, n)
               l == Len(p)
    <3>1. x \in Nat /\ y \in Nat /\ z \in Nat /\ y <= z /\ l \in Nat /\ y = x + l
      BY <2>2, <2>3, <2>4
    <3>2. end = at + z
      BY <1>2
    <3> HIDE DEF x, y, z, l, end
    <3>3. at + x \in Nat /\ at + y = at + x + l /\ at + x + l <= end
      BY <3>1, <3>2
    <3>4. QED BY <3>3 DEF x, y, l
  <2> HIDE DEF end, q, p
  <2>6. it[q] = <<Rec(p, q)>> \o it[q + Len(p)]
    BY <1>4, <2>4, <2>5, IterPasses
  <2>7. it[q] = <<Rec(p, q)>> \o it[at + Off(ps, i)]
    BY <2>5, <2>6
  <2>8. at + Off(ps, i) \in Nat
    BY <2>2
  <2>9. QED BY <2>7, <2>8 DEF q, p
<1>7. \A q \in Nat : it[q] \in Seq(Found(end))
  BY <1>4, IterType
<1>8. it[end] = <<>>
  <2>1. it[end] = IterStep(s, end, it, end)
    BY <1>4, IterDef
  <2>2. QED BY <2>1 DEF IterStep, AtEnd
<1> HIDE DEF n, end, it, R
<1> DEFINE P(d) == /\ Len(it[at + Off(ps, n - d)]) = d
                   /\ \A x \in 1 .. d : it[at + Off(ps, n - d)][x] = R(n - d + x)
           S == {d \in 0 .. n : P(d)}
<1>9. 0 \in S
  <2>1. n - 0 = n /\ at + Off(ps, n) = end
    BY <1>1, <1>2
  <2>2. it[at + Off(ps, n - 0)] = <<>>
    BY <1>8, <2>1
  <2>3. P(0)
    BY <2>2
  <2>4. QED BY <1>1, <2>3
<1>10. ASSUME NEW d \in 0 .. n - 1, d \in S PROVE d + 1 \in S
  <2> DEFINE i == n - d
             y == it[at + Off(ps, i)]
             z == it[at + Off(ps, i - 1)]
             e == R(i)
  <2>1. i \in 1 .. n /\ n - (d + 1) = i - 1 /\ d + 1 \in 0 .. n /\ d \in Nat
    BY <1>1
  <2>2. Len(y) = d /\ \A x \in 1 .. d : y[x] = R(i + x)
    BY <1>10
  <2>3. z = <<e>> \o y /\ y \in Seq(Found(end))
    BY <1>6, <1>7, <2>1
  <2> HIDE DEF i, y, z, e
  <2>4. Len(z) = Len(y) + 1 /\ z[1] = e /\ \A x \in 1 .. Len(y) : z[x + 1] = y[x]
    BY <2>3, Prefixed
  <2>5. Len(z) = d + 1
    BY <2>2, <2>4
  <2>6. ASSUME NEW x \in 1 .. d + 1 PROVE z[x] = R(i - 1 + x)
    <3>1. CASE x = 1
      <4>1. i - 1 + x = i
        BY <2>1, <3>1
      <4>2. z[x] = R(i)
        BY <2>4, <3>1 DEF e
      <4>3. QED BY <4>1, <4>2, Zenon
    <3>2. CASE x # 1
      <4> DEFINE w == x - 1
      <4>1. w \in 1 .. d /\ w + 1 = x /\ i + w = i - 1 + x
        BY <2>1, <3>2
      <4> HIDE DEF w
      <4>2. z[w + 1] = y[w] /\ y[w] = R(i + w)
        BY <2>2, <2>4, <4>1
      <4>3. QED BY <4>1, <4>2, Zenon
    <3>3. QED BY <3>1, <3>2
  <2>7. it[at + Off(ps, n - (d + 1))] = z /\ n - (d + 1) = i - 1
    BY <2>1 DEF z
  <2>8. P(d + 1)
    BY <2>5, <2>6, <2>7
  <2> HIDE DEF P
  <2>9. QED BY <2>1, <2>8
<1>11. 0 .. n \subseteq S
  <2> HIDE DEF S
  <2>1. QED BY <1>1, <1>9, <1>10, UpTo
<1>12. n - n = 0 /\ at + Off(ps, n - n) = at /\ n \in 0 .. n
  BY <1>1, <1>2
<1>13. P(n)
  <2> HIDE DEF P
  <2>1. QED BY <1>11, <1>12
<1>14. Len(it[at]) = n /\ \A x \in 1 .. n : it[at][x] = R(x)
  <2>1. \A x \in 1 .. n : n - n + x = x
    BY <1>1
  <2>2. Len(it[at]) = n /\ \A x \in 1 .. n : it[at][x] = R(n - n + x)
    BY <1>12, <1>13
  <2>3. QED BY <2>1, <2>2
<1>15. Tlvs(s, at, Len(FlattenSeq(ps))) = it[at]
  BY DEF Tlvs, it, end
<1>16. it[at] \in Seq(Found(end))
  BY <1>7
<1>17. QED BY <1>14, <1>15, <1>16 DEF n, end, R

-----------------------------------------------------------------------------
(* What builders make *)

(* Values of options, none of which is a node. *)
Plain(f) == Filled(f, DOMAIN Code \ {"NODE_INFO"})

OptionOf(o, f) == Tlv(Code[o], Cells(o, f[o]))

LEMMA OptionFacts ==
    ASSUME NEW f, Plain(f), NEW o \in DOMAIN f
    PROVE  /\ IsTlv(OptionOf(o, f)) /\ OptionOf(o, f) \in Seq(Cell)
           /\ Get(OptionOf(o, f), 0, 2) = Code[o]
           /\ Len(OptionOf(o, f)) = Len(Cells(o, f[o])) + 4
           /\ Len(Cells(o, f[o])) \in Nat
           /\ \A s, at : at \in Nat /\ Holds(s, at, OptionOf(o, f))
                           => Holds(s, at + 4, Cells(o, f[o]))
<1>1. o \in DOMAIN Code /\ Fits(o, f[o])
  BY DEF Plain, Filled
<1>2. Code[o] \in Number(2)
  BY <1>1, CodeNames, Bases DEF Number, Limit
<1>3. Reads(o, Cells(o, f[o]), Len(Cells(o, f[o])), MeaningOf(o, f[o]))
  BY <1>1, CellsFacts
<1>4. /\ Cells(o, f[o]) \in Seq(Cell) /\ Len(Cells(o, f[o])) < Base2
      /\ Len(Cells(o, f[o])) \in Nat
  BY <1>3 DEF Reads
<1> DEFINE cells == Cells(o, f[o])
           c == Code[o]
<1> HIDE DEF cells, c
<1>5. c \in Number(2) /\ cells \in Seq(Cell) /\ Len(cells) < Base2
  BY <1>2, <1>4 DEF cells, c
<1>6. /\ IsTlv(Tlv(c, cells)) /\ Get(Tlv(c, cells), 0, 2) = c
      /\ Len(Tlv(c, cells)) = Len(cells) + 4
      /\ \A s, at : at \in Nat /\ Holds(s, at, Tlv(c, cells)) => Holds(s, at + 4, cells)
  BY <1>5, TlvFacts
<1>7. Tlv(c, cells) \in Seq(Cell)
  BY <1>6 DEF IsTlv
<1>8. QED BY <1>4, <1>6, <1>7, Zenon DEF cells, c, OptionOf

LEMMA CountSmall ==
    ASSUME NEW n \in Nat, NEW I, NEW K, Counts(K, I, n), K[0] = 0
    PROVE  K[n] <= n
<1> DEFINE S == {i \in 0 .. n : K[i] <= i}
<1>1. /\ \A i \in 0 .. n : K[i] \in Nat
      /\ \A i \in 0 .. n - 1 : K[i + 1] = IF i + 1 \in I THEN K[i] + 1 ELSE K[i]
  BY DEF Counts
<1>2. 0 \in S
  OBVIOUS
<1>3. ASSUME NEW i \in 0 .. n - 1, i \in S PROVE i + 1 \in S
  <2>1. K[i] \in Nat /\ i + 1 \in 0 .. n /\ K[i] <= i /\ (K[i + 1] = K[i] + 1 \/ K[i + 1] = K[i])
    BY <1>1, <1>3
  <2>2. QED BY <2>1
<1>4. 0 .. n \subseteq S
  <2> HIDE DEF S
  <2>1. QED BY <1>2, <1>3, UpTo
<1>5. QED BY <1>4

LEMMA PickSmall ==
    ASSUME NEW C, NEW s \in Seq(C), NEW I
    PROVE  Len(Pick(s, I)) <= Len(s)
<1> DEFINE n == Len(s)
<1>1. n \in Nat /\ 0 \in Nat
  OBVIOUS
<1>2. PICK K : Counts(K, I, n) /\ K[0] = 0
  <2> HIDE DEF n
  <2>1. QED BY <1>1, CountExists
<1>3. Picked(Pick(s, I), s, I, K, n)
  BY <1>2, PickCount
<1>4. Len(Pick(s, I)) = K[n]
  BY <1>3 DEF Picked
<1>5. K[n] <= n
  <2> HIDE DEF n
  <2>1. QED BY <1>1, <1>2, CountSmall
<1>6. QED BY <1>4, <1>5

(* ps are the options of f whose names are in th: those that are in order. *)
Spelled(ps, th, order, f) ==
    /\ ps \in Seq(Seq(Cell)) /\ Len(ps) = Len(th) /\ Len(ps) <= Len(order)
    /\ \A i \in 1 .. Len(ps) : th[i] \in DOMAIN f /\ ps[i] = OptionOf(th[i], f)
    /\ \A o \in DOMAIN f : o \in ToSet(order) <=> \E i \in 1 .. Len(ps) : th[i] = o

LEMMA OptionsFacts ==
    ASSUME NEW C, NEW order \in Seq(C), NEW f, Plain(f)
    PROVE  Spelled(Options(order, f), Present(order, f), order, f)
<1> DEFINE th == Present(order, f)
           I == {i \in DOMAIN order : order[i] \in DOMAIN f}
           ps == Options(order, f)
           n == Len(th)
<1>1. th = Pick(order, I)
  BY DEF Present
<1>2. th \in Seq(C) /\ n <= Len(order)
  <2> HIDE DEF I
  <2>1. QED BY <1>1, PickType, PickSmall
<1>3. /\ \A k \in 1 .. n : \E j \in 1 .. Len(order) : j \in I /\ th[k] = order[j]
      /\ \A j \in 1 .. Len(order) : j \in I => \E k \in 1 .. n : th[k] = order[j]
  <2> HIDE DEF I, th
  <2>1. TakenFrom(th, order, I)
    BY <1>1, PickElements
  <2>2. QED BY <2>1, Zenon DEF TakenFrom
<1>4. DOMAIN order = 1 .. Len(order)
  OBVIOUS
<1>5. \A k \in 1 .. n : th[k] \in DOMAIN f
  BY <1>3
<1>6. ASSUME NEW o \in DOMAIN f
      PROVE  o \in ToSet(order) <=> \E i \in 1 .. n : th[i] = o
  <2>1. ASSUME o \in ToSet(order) PROVE \E i \in 1 .. n : th[i] = o
    <3>1. PICK j \in 1 .. Len(order) : order[j] = o
      BY <1>4, <2>1 DEF ToSet
    <3>2. j \in I
      BY <1>4, <3>1
    <3>3. QED BY <1>3, <3>1, <3>2
  <2>2. ASSUME NEW i \in 1 .. n, th[i] = o PROVE o \in ToSet(order)
    <3>1. PICK j \in 1 .. Len(order) : th[i] = order[j]
      BY <1>3
    <3>2. QED BY <1>4, <2>2, <3>1 DEF ToSet
  <2>3. QED BY <2>1, <2>2
<1>7. n \in Nat /\ DOMAIN th = 1 .. n
  BY <1>2
<1>8. ps = [i \in 1 .. n |-> OptionOf(th[i], f)]
  <2>1. ps = [i \in DOMAIN th |-> OptionOf(th[i], f)]
    BY DEF Options, OptionOf
  <2> HIDE DEF th, n, ps
  <2>2. QED BY <1>7, <2>1
<1> HIDE DEF th, n, ps, I
<1>9. \A i \in 1 .. n : OptionOf(th[i], f) \in Seq(Cell)
  BY <1>5, OptionFacts
<1>10. /\ ps \in Seq(Seq(Cell)) /\ Len(ps) = n
       /\ \A i \in 1 .. n : ps[i] = OptionOf(th[i], f)
  BY <1>7, <1>8, <1>9
<1>11. Spelled(ps, th, order, f)
  BY <1>2, <1>5, <1>6, <1>10 DEF n, Spelled
<1>12. QED BY <1>11 DEF th, ps

(* A node as a builder is given it. *)
IsNodeValue(v) == Filled(v, NodeFields) /\ "NODE_ID" \in DOMAIN v
NodeParts(v) == Options(NodeLayout, v)

LEMMA NodePlain ==
    ASSUME NEW v, IsNodeValue(v)
    PROVE  Plain(v)
<1>1. NodeFields \subseteq DOMAIN Code \ {"NODE_INFO"}
  BY CodeNames DEF NodeFields
<1>2. QED BY <1>1 DEF IsNodeValue, Plain, Filled

LEMMA NodePartsFacts ==
    ASSUME NEW v, IsNodeValue(v)
    PROVE  /\ NodeParts(v) \in Seq(Seq(Cell))
           /\ \A i \in 1 .. Len(NodeParts(v)) : \E o \in DOMAIN v :
                NodeParts(v)[i] = OptionOf(o, v)
           /\ \A o \in DOMAIN v : \E i \in 1 .. Len(NodeParts(v)) :
                NodeParts(v)[i] = OptionOf(o, v)
           /\ FlattenSeq(NodeParts(v)) \in Seq(Cell)
           /\ Len(FlattenSeq(NodeParts(v))) < Base2
<1> DEFINE ps == NodeParts(v)
           th == Present(NodeLayout, v)
           n == Len(ps)
<1>1. Plain(v)
  BY NodePlain
<1>2. /\ NodeLayout \in Seq(NodeFields) /\ Len(NodeLayout) = 3
      /\ ToSet(NodeLayout) = NodeFields
  <2>1. NodeLayout \in Seq(NodeFields) /\ Len(NodeLayout) = 3
    BY DEF NodeLayout, NodeFields
  <2>2. DOMAIN NodeLayout = {1, 2, 3}
    BY <2>1
  <2>3. /\ NodeLayout[1] = "NODE_ID" /\ NodeLayout[2] = "DATA_CENTER_ID"
        /\ NodeLayout[3] = "NODE_STATE"
    BY DEF NodeLayout
  <2>4. QED BY <2>1, <2>2, <2>3 DEF ToSet, NodeFields
<1>3. /\ ps \in Seq(Seq(Cell)) /\ n = Len(th) /\ n <= 3
      /\ \A i \in 1 .. n : th[i] \in DOMAIN v /\ ps[i] = OptionOf(th[i], v)
      /\ \A o \in DOMAIN v : o \in NodeFields <=> \E i \in 1 .. n : th[i] = o
  <2>1. Spelled(ps, th, NodeLayout, v)
    BY <1>1, <1>2, OptionsFacts DEF NodeParts
  <2> HIDE DEF ps, th
  <2>2. QED BY <1>2, <2>1 DEF Spelled
<1>4. DOMAIN v \subseteq NodeFields
  BY DEF IsNodeValue, Filled
<1> HIDE DEF ps, th
<1>5. n \in Nat
  BY <1>3
<1> HIDE DEF n
<1>6. \A i \in 1 .. n : \E o \in DOMAIN v : ps[i] = OptionOf(o, v)
  BY <1>3
<1>7. \A o \in DOMAIN v : \E i \in 1 .. n : ps[i] = OptionOf(o, v)
  BY <1>3, <1>4
<1>8. \A o \in DOMAIN v : Len(OptionOf(o, v)) <= 8
  <2>1. ASSUME NEW o \in DOMAIN v PROVE Len(OptionOf(o, v)) <= 8
    <3>1. o \in NodeFields /\ Fits(o, v[o])
      BY <1>4, <1>1 DEF Plain, Filled
    <3>2. /\ o \notin Lists \cup {"CLUSTER_NAME", "RING_ID", "TIE_BREAKER"}
          /\ Width(o) <= 4
      BY <3>1 DEF NodeFields, Lists, Width, Allowed
    <3>3. v[o] \in Number(Width(o)) /\ Cells(o, v[o]) = Put(Width(o), v[o])
      BY <3>1, <3>2, FitsForms, CellsForms
    <3>4. Len(Cells(o, v[o])) = Width(o)
      BY <3>3, WidthFacts, PutGet
    <3>5. Len(OptionOf(o, v)) = Len(Cells(o, v[o])) + 4
      BY <1>1, OptionFacts
    <3>6. Width(o) \in Nat
      BY WidthFacts DEF Widths
    <3>7. QED BY <3>2, <3>4, <3>5, <3>6
  <2>2. QED BY <2>1
<1>9. \A i \in 1 .. n : Len(ps[i]) <= 8 /\ Len(ps[i]) \in Nat
  <2>1. \A i \in 1 .. n : Len(ps[i]) <= 8
    BY <1>6, <1>8
  <2>2. \A i \in 1 .. n : ps[i] \in Seq(Cell)
    BY <1>3 DEF n
  <2>3. QED BY <2>1, <2>2
<1>10. /\ FlattenSeq(ps) \in Seq(Cell) /\ Len(FlattenSeq(ps)) = Off(ps, n)
       /\ Off(ps, 0) = 0
       /\ \A i \in 0 .. n : Off(ps, i) \in Nat
       /\ \A i \in 1 .. n : Off(ps, i) = Off(ps, i - 1) + Len(ps[i])
  BY <1>3, Offsets DEF n
<1> DEFINE S == {i \in 0 .. n : Off(ps, i) <= 8 * i}
<1>11. 0 \in S
  BY <1>5, <1>10
<1>12. ASSUME NEW i \in 0 .. n - 1, i \in S PROVE i + 1 \in S
  <2> DEFINE j == i + 1
  <2>1. j \in 1 .. n /\ j \in 0 .. n /\ j - 1 = i /\ i \in 0 .. n /\ 8 * j = 8 * i + 8
    BY <1>5
  <2> HIDE DEF j
  <2>2. Off(ps, j) = Off(ps, i) + Len(ps[j]) /\ Off(ps, i) \in Nat
    BY <1>10, <2>1
  <2>3. Len(ps[j]) <= 8 /\ Len(ps[j]) \in Nat /\ Off(ps, i) <= 8 * i
    BY <1>9, <1>12, <2>1
  <2>4. Off(ps, j) <= 8 * j
    BY <2>1, <2>2, <2>3
  <2>5. QED BY <2>1, <2>4 DEF j
<1>13. 0 .. n \subseteq S
  <2> HIDE DEF S
  <2>1. QED BY <1>5, <1>11, <1>12, UpTo
<1>14. Len(FlattenSeq(ps)) < Base2
  <2>1. n \in S
    BY <1>5, <1>13
  <2>2. Off(ps, n) <= 8 * n /\ Off(ps, n) \in Nat
    BY <1>5, <1>10, <2>1
  <2>3. Base2 \in Nat /\ Base2 >= 25
    BY Bases
  <2>4. QED BY <1>3, <1>5, <1>10, <2>2, <2>3
<1>15. QED BY <1>3, <1>6, <1>7, <1>10, <1>14 DEF ps, n

LEMMA NodeInfoFacts ==
    ASSUME NEW v, IsNodeValue(v)
    PROVE  /\ IsTlv(NodeInfo(v)) /\ NodeInfo(v) \in Seq(Cell)
           /\ Get(NodeInfo(v), 0, 2) = Code["NODE_INFO"]
           /\ Len(NodeInfo(v)) = Len(FlattenSeq(NodeParts(v))) + 4
           /\ \A s, at : at \in Nat /\ Holds(s, at, NodeInfo(v))
                           => Holds(s, at + 4, FlattenSeq(NodeParts(v)))
<1> DEFINE cells == FlattenSeq(NodeParts(v))
           c == Code["NODE_INFO"]
<1>1. cells \in Seq(Cell) /\ Len(cells) < Base2
  BY NodePartsFacts
<1>2. c \in Number(2)
  BY CodeNames, Bases DEF Number, Limit
<1>3. NodeInfo(v) = Tlv(c, cells)
  BY DEF NodeInfo, NodeParts
<1> HIDE DEF cells, c
<1>4. /\ IsTlv(Tlv(c, cells)) /\ Get(Tlv(c, cells), 0, 2) = c
      /\ Len(Tlv(c, cells)) = Len(cells) + 4
      /\ \A s, at : at \in Nat /\ Holds(s, at, Tlv(c, cells)) => Holds(s, at + 4, cells)
  BY <1>1, <1>2, TlvFacts
<1>5. Tlv(c, cells) \in Seq(Cell)
  BY <1>4 DEF IsTlv
<1>6. QED BY <1>3, <1>4, <1>5, Zenon DEF cells, c

(* p is option o of f, the k-th node, or an option that is not known. *)
IsPart(p, o, k, f, nodes) ==
    \/ o \in DOMAIN f /\ p = OptionOf(o, f)
    \/ o = "NODE_INFO" /\ k \in 1 .. Len(nodes) /\ p = NodeInfo(nodes[k])
    \/ o = "UNKNOWN" /\ \E u \in Unknown : p = Tlv(u.code, u.val)

NodePlaces(N, n) == {i \in 1 .. n : N[i] = "NODE_INFO"}

(* ps are options of f, named N, and nodes, counted by K. *)
Named(ps, N, K, f, nodes) ==
    /\ ps \in Seq(Seq(Cell))
    /\ Counts(K, NodePlaces(N, Len(ps)), Len(ps))
    /\ \A i \in 1 .. Len(ps) : IsPart(ps[i], N[i], K[i], f, nodes)

Used(N, n, f) == {o \in DOMAIN f : \E i \in 1 .. n : N[i] = o}

(* ps are the options X of f, and the nodes after a up to b. *)
Made(ps, a, b, X, f, nodes) ==
    \E N, K : /\ Named(ps, N, K, f, nodes)
              /\ K[0] = a /\ K[Len(ps)] = b /\ X = Used(N, Len(ps), f)

NodeValues(nodes) == \A k \in 1 .. Len(nodes) : IsNodeValue(nodes[k])

LEMMA UnknownFacts ==
    ASSUME NEW u \in Unknown
    PROVE  /\ IsTlv(Tlv(u.code, u.val)) /\ Tlv(u.code, u.val) \in Seq(Cell)
           /\ Get(Tlv(u.code, u.val), 0, 2) = u.code
           /\ \A o \in DOMAIN Code : u.code # Code[o]
<1> DEFINE c == u.code
           x == u.val
<1>1. /\ c \in Number(2) /\ x \in Seq(Cell) /\ Len(x) < Base2
      /\ \A o \in DOMAIN Code : c # Code[o]
  BY UnknownAssumption
<1> HIDE DEF c, x
<1>2. IsTlv(Tlv(c, x)) /\ Get(Tlv(c, x), 0, 2) = c
  BY <1>1, TlvFacts
<1>3. Tlv(c, x) \in Seq(Cell)
  BY <1>2 DEF IsTlv
<1>4. QED BY <1>1, <1>2, <1>3, Zenon DEF c, x

LEMMA PartIsTlv ==
    ASSUME NEW p, NEW o, NEW k, NEW f, Plain(f), NEW nodes, NodeValues(nodes),
           IsPart(p, o, k, f, nodes)
    PROVE  IsTlv(p)
<1>1. CASE o \in DOMAIN f /\ p = OptionOf(o, f)
  BY <1>1, OptionFacts
<1>2. CASE o = "NODE_INFO" /\ k \in 1 .. Len(nodes) /\ p = NodeInfo(nodes[k])
  <2>1. IsNodeValue(nodes[k])
    BY <1>2 DEF NodeValues
  <2>2. QED BY <1>2, <2>1, NodeInfoFacts
<1>3. CASE o = "UNKNOWN" /\ \E u \in Unknown : p = Tlv(u.code, u.val)
  BY <1>3, UnknownFacts
<1>4. QED BY <1>1, <1>2, <1>3 DEF IsPart

LEMMA MadeJoin ==
    ASSUME NEW f, NEW nodes, NEW p, NEW q, NEW a, NEW b, NEW c, NEW X, NEW Y,
           Made(p, a, b, X, f, nodes), Made(q, b, c, Y, f, nodes)
    PROVE  Made(p \o q, a, c, X \cup Y, f, nodes)
<1>1. PICK N1, K1 : /\ Named(p, N1, K1, f, nodes)
                    /\ K1[0] = a /\ K1[Len(p)] = b /\ X = Used(N1, Len(p), f)
  BY DEF Made
<1>2. PICK N2, K2 : /\ Named(q, N2, K2, f, nodes)
                    /\ K2[0] = b /\ K2[Len(q)] = c /\ Y = Used(N2, Len(q), f)
  BY DEF Made
<1> DEFINE n1 == Len(p)
           n2 == Len(q)
           n == n1 + n2
           r == p \o q
           N == [i \in 1 .. n |-> IF i <= n1 THEN N1[i] ELSE N2[i - n1]]
           K == [i \in 0 .. n |-> IF i <= n1 THEN K1[i] ELSE K2[i - n1]]
<1>3. /\ p \in Seq(Seq(Cell)) /\ K1 \in [0 .. n1 -> Nat]
      /\ \A i \in 0 .. n1 - 1 :
           K1[i + 1] = IF i + 1 \in NodePlaces(N1, n1) THEN K1[i] + 1 ELSE K1[i]
      /\ \A i \in 1 .. n1 : IsPart(p[i], N1[i], K1[i], f, nodes)
  BY <1>1 DEF Named, Counts
<1>4. /\ q \in Seq(Seq(Cell)) /\ K2 \in [0 .. n2 -> Nat]
      /\ \A i \in 0 .. n2 - 1 :
           K2[i + 1] = IF i + 1 \in NodePlaces(N2, n2) THEN K2[i] + 1 ELSE K2[i]
      /\ \A i \in 1 .. n2 : IsPart(q[i], N2[i], K2[i], f, nodes)
  BY <1>2 DEF Named, Counts
<1>5. n1 \in Nat /\ n2 \in Nat
  BY <1>3, <1>4
<1>6. /\ r \in Seq(Seq(Cell)) /\ Len(r) = n
      /\ \A i \in 1 .. n : r[i] = IF i <= n1 THEN p[i] ELSE q[i - n1]
  BY <1>3, <1>4, ConcatProperties
<1>7. /\ K1[0] = a /\ K1[n1] = b /\ X = Used(N1, n1, f)
      /\ K2[0] = b /\ K2[n2] = c /\ Y = Used(N2, n2, f)
  BY <1>1, <1>2
<1> HIDE DEF n1, n2, r
<1>8. /\ \A i \in 1 .. n1 : N[i] = N1[i] /\ i \in 1 .. n
      /\ \A i \in 1 .. n2 : N[n1 + i] = N2[i] /\ n1 + i \in 1 .. n
  BY <1>5
<1>9. /\ \A i \in 0 .. n1 : K[i] = K1[i]
      /\ \A i \in 0 .. n2 : K[n1 + i] = K2[i]
  <2>1. \A i \in 0 .. n1 : K[i] = K1[i]
    BY <1>5
  <2>2. ASSUME NEW i \in 0 .. n2 PROVE K[n1 + i] = K2[i]
    <3>1. CASE i = 0
      <4>1. n1 + i = n1 /\ n1 \in 0 .. n1
        BY <1>5, <3>1
      <4>2. K[n1] = K1[n1]
        BY <2>1, <4>1
      <4> HIDE DEF K
      <4>3. QED BY <1>7, <3>1, <4>1, <4>2
    <3>2. CASE i # 0
      <4> DEFINE j == n1 + i
      <4>1. j \in 0 .. n /\ ~(j <= n1) /\ j - n1 = i
        BY <1>5, <3>2
      <4> HIDE DEF j, n
      <4>2. K[j] = K2[j - n1]
        BY <4>1
      <4> HIDE DEF K
      <4>3. K[j] = K2[i]
        BY <4>1, <4>2
      <4>4. QED BY <4>3 DEF j
    <3>3. QED BY <3>1, <3>2
  <2>3. QED BY <2>1, <2>2
<1>10. K \in [0 .. n -> Nat]
  <2>1. ASSUME NEW i \in 0 .. n PROVE (IF i <= n1 THEN K1[i] ELSE K2[i - n1]) \in Nat
    <3>1. CASE i <= n1
      BY <1>3, <1>5, <3>1
    <3>2. CASE ~(i <= n1)
      <4>1. i - n1 \in 0 .. n2
        BY <1>5, <3>2
      <4>2. QED BY <1>4, <3>2, <4>1
    <3>3. QED BY <3>1, <3>2
  <2>2. QED BY <2>1
<1> HIDE DEF N, K
<1>11. ASSUME NEW i \in 0 .. n - 1
       PROVE  K[i + 1] = IF i + 1 \in NodePlaces(N, n) THEN K[i] + 1 ELSE K[i]
  <2>1. CASE i + 1 <= n1
    <3>1. i \in 0 .. n1 - 1 /\ i \in 0 .. n1 /\ i + 1 \in 0 .. n1 /\ i + 1 \in 1 .. n1
      BY <1>5, <2>1
    <3>2. i + 1 \in NodePlaces(N, n) <=> i + 1 \in NodePlaces(N1, n1)
      BY <1>8, <3>1 DEF NodePlaces
    <3>3. QED BY <1>3, <1>9, <3>1, <3>2
  <2>2. CASE ~(i + 1 <= n1)
    <3> DEFINE j == i - n1
    <3>1. /\ j \in 0 .. n2 - 1 /\ j \in 0 .. n2 /\ j + 1 \in 0 .. n2 /\ j + 1 \in 1 .. n2
          /\ n1 + j = i /\ n1 + (j + 1) = i + 1
      BY <1>5, <2>2
    <3> HIDE DEF j
    <3>2. i + 1 \in NodePlaces(N, n) <=> j + 1 \in NodePlaces(N2, n2)
      <4>1. N[n1 + (j + 1)] = N2[j + 1] /\ n1 + (j + 1) \in 1 .. n
        BY <1>8, <3>1
      <4>2. QED BY <3>1, <4>1 DEF NodePlaces
    <3>3. K[n1 + (j + 1)] = K2[j + 1] /\ K[n1 + j] = K2[j]
      BY <1>9, <3>1
    <3>4. QED BY <1>4, <3>1, <3>2, <3>3
  <2>3. QED BY <2>1, <2>2
<1>12. ASSUME NEW i \in 1 .. n PROVE IsPart(r[i], N[i], K[i], f, nodes)
  <2>1. CASE i <= n1
    <3>1. i \in 1 .. n1 /\ i \in 0 .. n1
      BY <1>5, <2>1
    <3>2. r[i] = p[i] /\ N[i] = N1[i] /\ K[i] = K1[i]
      BY <1>6, <1>8, <1>9, <2>1, <3>1
    <3>3. QED BY <1>3, <3>1, <3>2
  <2>2. CASE ~(i <= n1)
    <3> DEFINE j == i - n1
    <3>1. j \in 1 .. n2 /\ j \in 0 .. n2 /\ n1 + j = i
      BY <1>5, <2>2
    <3>2. r[i] = q[j]
      BY <1>6, <2>2
    <3> HIDE DEF j
    <3>3. N[n1 + j] = N2[j] /\ K[n1 + j] = K2[j]
      BY <1>8, <1>9, <3>1
    <3>4. IsPart(q[j], N2[j], K2[j], f, nodes)
      BY <1>4, <3>1
    <3>5. QED BY <3>1, <3>2, <3>3, <3>4
  <2>3. QED BY <2>1, <2>2
<1>13. X \cup Y = Used(N, n, f)
  <2>1. ASSUME NEW o \in DOMAIN f
        PROVE  (\E i \in 1 .. n : N[i] = o) <=>
               (\E i \in 1 .. n1 : N1[i] = o) \/ (\E i \in 1 .. n2 : N2[i] = o)
    <3>1. ASSUME NEW i \in 1 .. n, N[i] = o
          PROVE  (\E j \in 1 .. n1 : N1[j] = o) \/ (\E j \in 1 .. n2 : N2[j] = o)
      <4>1. CASE i <= n1
        <5>1. i \in 1 .. n1
          BY <1>5, <4>1
        <5>2. QED BY <1>8, <3>1, <5>1
      <4>2. CASE ~(i <= n1)
        <5> DEFINE j == i - n1
        <5>1. j \in 1 .. n2 /\ n1 + j = i
          BY <1>5, <4>2
        <5> HIDE DEF j
        <5>2. N2[j] = o
          BY <1>8, <3>1, <5>1
        <5>3. QED BY <5>1, <5>2
      <4>3. QED BY <4>1, <4>2
    <3>2. ASSUME NEW i \in 1 .. n1, N1[i] = o PROVE \E j \in 1 .. n : N[j] = o
      BY <1>8, <3>2
    <3>3. ASSUME NEW i \in 1 .. n2, N2[i] = o PROVE \E j \in 1 .. n : N[j] = o
      BY <1>8, <3>3
    <3>4. QED BY <3>1, <3>2, <3>3
  <2>2. QED BY <1>7, <2>1 DEF Used
<1>14. K[0] = a /\ K[n] = c
  <2>1. 0 \in 0 .. n1 /\ n2 \in 0 .. n2 /\ n1 + n2 = n
    BY <1>5
  <2>2. K[0] = K1[0] /\ K[n1 + n2] = K2[n2]
    BY <1>9, <2>1
  <2>3. QED BY <1>7, <2>1, <2>2
<1> HIDE DEF n
<1>15. Named(r, N, K, f, nodes)
  BY <1>6, <1>10, <1>11, <1>12 DEF Named, Counts
<1>16. Made(r, a, c, X \cup Y, f, nodes)
  BY <1>6, <1>13, <1>14, <1>15 DEF Made
<1>17. QED BY <1>16 DEF r

LEMMA MadeSplit ==
    ASSUME NEW f, NEW nodes, NEW ps, NEW a, NEW c, NEW X,
           Made(ps, a, c, X, f, nodes), NEW k \in 0 .. Len(ps)
    PROVE  \E b, Y, Z : /\ Made(SubSeq(ps, 1, k), a, b, Y, f, nodes)
                        /\ Made(SubSeq(ps, k + 1, Len(ps)), b, c, Z, f, nodes)
                        /\ X = Y \cup Z /\ b \in Nat
<1>1. PICK N, K : /\ Named(ps, N, K, f, nodes)
                  /\ K[0] = a /\ K[Len(ps)] = c /\ X = Used(N, Len(ps), f)
  BY DEF Made
<1> DEFINE n == Len(ps)
           m == n - k
           p == SubSeq(ps, 1, k)
           q == SubSeq(ps, k + 1, n)
           K1 == [i \in 0 .. k |-> K[i]]
           N2 == [i \in 1 .. m |-> N[k + i]]
           K2 == [i \in 0 .. m |-> K[k + i]]
<1>2. /\ ps \in Seq(Seq(Cell)) /\ K \in [0 .. n -> Nat]
      /\ \A i \in 0 .. n - 1 :
           K[i + 1] = IF i + 1 \in NodePlaces(N, n) THEN K[i] + 1 ELSE K[i]
      /\ \A i \in 1 .. n : IsPart(ps[i], N[i], K[i], f, nodes)
  BY <1>1 DEF Named, Counts
<1>3. n \in Nat /\ k \in Nat /\ k <= n /\ m \in Nat /\ n = k + m
  BY <1>2
<1>4. p \in Seq(Seq(Cell)) /\ Len(p) = k /\ \A i \in 1 .. k : p[i] = ps[i]
  BY <1>2
<1>5. q \in Seq(Seq(Cell)) /\ Len(q) = m /\ \A i \in 1 .. m : q[i] = ps[k + i]
  <2>1. \A i \in k + 1 .. n : ps[i] \in Seq(Cell)
    BY <1>2, <1>3
  <2>2. /\ q \in Seq(Seq(Cell))
        /\ Len(q) = IF k + 1 <= n THEN n - (k + 1) + 1 ELSE 0
        /\ \A i \in 1 .. n - (k + 1) + 1 : q[i] = ps[k + 1 + i - 1]
    <3> HIDE DEF n
    <3>1. QED BY <1>3, <2>1, SubSeqProperties, SMTT(60)
  <2> HIDE DEF q, n
  <2>3. Len(q) = m
    BY <1>3, <2>2
  <2>4. ASSUME NEW i \in 1 .. m PROVE q[i] = ps[k + i]
    <3>1. i \in 1 .. n - (k + 1) + 1 /\ k + 1 + i - 1 = k + i
      BY <1>3
    <3>2. QED BY <2>2, <3>1
  <2>5. QED BY <2>2, <2>3, <2>4
<1>6. K[0] = a /\ K[n] = c /\ X = Used(N, n, f)
  BY <1>1
<1> HIDE DEF n, m, p, q
<1>7. \A i \in 0 .. k : K1[i] = K[i] /\ i \in 0 .. n /\ K[i] \in Nat
  BY <1>2, <1>3
<1>8. K1 \in [0 .. k -> Nat]
  BY <1>7
<1>9. /\ \A i \in 0 .. m : K2[i] = K[k + i] /\ k + i \in 0 .. n /\ K[k + i] \in Nat
      /\ \A i \in 1 .. m : N2[i] = N[k + i] /\ k + i \in 1 .. n
  BY <1>2, <1>3
<1>10. K2 \in [0 .. m -> Nat]
  BY <1>9
<1> HIDE DEF K1, K2, N2
<1>11. Named(p, N, K1, f, nodes)
  <2>1. ASSUME NEW i \in 0 .. k - 1
        PROVE  K1[i + 1] = IF i + 1 \in NodePlaces(N, k) THEN K1[i] + 1 ELSE K1[i]
    <3>1. i \in 0 .. n - 1 /\ i + 1 \in 0 .. k /\ i \in 0 .. k /\ i + 1 \in 1 .. k /\ i + 1 \in 1 .. n
      BY <1>3
    <3>2. i + 1 \in NodePlaces(N, k) <=> i + 1 \in NodePlaces(N, n)
      BY <3>1 DEF NodePlaces
    <3>3. QED BY <1>2, <1>7, <3>1, <3>2
  <2>2. ASSUME NEW i \in 1 .. k PROVE IsPart(p[i], N[i], K1[i], f, nodes)
    <3>1. i \in 1 .. n /\ i \in 0 .. k
      BY <1>3
    <3>2. IsPart(ps[i], N[i], K[i], f, nodes) /\ p[i] = ps[i] /\ K1[i] = K[i]
      BY <1>2, <1>4, <1>7, <3>1
    <3>3. QED BY <3>2
  <2>3. QED BY <1>4, <1>8, <2>1, <2>2 DEF Named, Counts
<1>12. Named(q, N2, K2, f, nodes)
  <2>1. ASSUME NEW i \in 0 .. m - 1
        PROVE  K2[i + 1] = IF i + 1 \in NodePlaces(N2, m) THEN K2[i] + 1 ELSE K2[i]
    <3> DEFINE j == k + i
    <3>1. /\ j \in 0 .. n - 1 /\ i + 1 \in 0 .. m /\ i \in 0 .. m /\ i + 1 \in 1 .. m
          /\ j + 1 \in 1 .. n /\ k + (i + 1) = j + 1
      BY <1>3
    <3>2. K2[i + 1] = K[k + (i + 1)] /\ K2[i] = K[j] /\ N2[i + 1] = N[k + (i + 1)]
      BY <1>9, <3>1
    <3> HIDE DEF j
    <3>3. i + 1 \in NodePlaces(N2, m) <=> j + 1 \in NodePlaces(N, n)
      BY <3>1, <3>2 DEF NodePlaces
    <3>4. K[j + 1] = IF j + 1 \in NodePlaces(N, n) THEN K[j] + 1 ELSE K[j]
      BY <1>2, <3>1
    <3>5. QED BY <3>1, <3>2, <3>3, <3>4
  <2>2. ASSUME NEW i \in 1 .. m PROVE IsPart(q[i], N2[i], K2[i], f, nodes)
    <3>1. k + i \in 1 .. n /\ i \in 0 .. m
      BY <1>3
    <3>2. /\ IsPart(ps[k + i], N[k + i], K[k + i], f, nodes)
          /\ q[i] = ps[k + i] /\ K2[i] = K[k + i] /\ N2[i] = N[k + i]
      BY <1>2, <1>5, <1>9, <3>1
    <3>3. QED BY <3>2
  <2>3. QED BY <1>5, <1>10, <2>1, <2>2 DEF Named, Counts
<1>13. X = Used(N, k, f) \cup Used(N2, m, f)
  <2>1. ASSUME NEW o \in DOMAIN f
        PROVE  (\E i \in 1 .. n : N[i] = o) <=>
               (\E i \in 1 .. k : N[i] = o) \/ (\E i \in 1 .. m : N2[i] = o)
    <3>1. ASSUME NEW i \in 1 .. n, N[i] = o
          PROVE  (\E j \in 1 .. k : N[j] = o) \/ (\E j \in 1 .. m : N2[j] = o)
      <4>1. CASE i <= k
        <5>1. i \in 1 .. k
          BY <1>3, <4>1
        <5>2. QED BY <3>1, <5>1
      <4>2. CASE ~(i <= k)
        <5> DEFINE j == i - k
        <5>1. j \in 1 .. m /\ k + j = i
          BY <1>3, <4>2
        <5> HIDE DEF j
        <5>2. N2[j] = o
          BY <1>9, <3>1, <5>1
        <5>3. QED BY <5>1, <5>2
      <4>3. QED BY <4>1, <4>2
    <3>2. ASSUME NEW i \in 1 .. k, N[i] = o PROVE \E j \in 1 .. n : N[j] = o
      <4>1. i \in 1 .. n
        BY <1>3
      <4>2. QED BY <3>2, <4>1
    <3>3. ASSUME NEW i \in 1 .. m, N2[i] = o PROVE \E j \in 1 .. n : N[j] = o
      BY <1>9, <3>3
    <3>4. QED BY <3>1, <3>2, <3>3
  <2>2. QED BY <1>6, <2>1 DEF Used
<1>14. 0 \in 0 .. k /\ k \in 0 .. k /\ 0 \in 0 .. m /\ m \in 0 .. m /\ k + 0 = k /\ k + m = n
  BY <1>3
<1>15. K1[0] = a /\ K1[k] = K[k] /\ K2[0] = K[k] /\ K2[m] = c /\ K[k] \in Nat
  BY <1>6, <1>7, <1>9, <1>14
<1>16. Made(p, a, K[k], Used(N, k, f), f, nodes)
  BY <1>4, <1>11, <1>15 DEF Made
<1>17. Made(q, K[k], c, Used(N2, m, f), f, nodes)
  BY <1>5, <1>12, <1>15 DEF Made
<1>18. QED BY <1>13, <1>15, <1>16, <1>17 DEF p, q, n

LEMMA MadeOptions ==
    ASSUME NEW C, NEW order \in Seq(C), NEW g, Plain(g), NEW f, NEW nodes,
           \A o \in DOMAIN f : o \in DOMAIN g /\ f[o] = g[o],
           \A o \in DOMAIN g : o \in ToSet(order) => o \in DOMAIN f,
           NEW a \in Nat
    PROVE  Made(Options(order, g), a, a, {o \in DOMAIN f : o \in ToSet(order)},
                f, nodes)
<1> DEFINE ps == Options(order, g)
           N == Present(order, g)
           n == Len(ps)
           K == [i \in 0 .. n |-> a]
<1>1. /\ ps \in Seq(Seq(Cell))
      /\ \A i \in 1 .. n : N[i] \in DOMAIN g /\ ps[i] = OptionOf(N[i], g)
      /\ \A o \in DOMAIN g : o \in ToSet(order) <=> \E i \in 1 .. n : N[i] = o
  <2>1. Spelled(ps, N, order, g)
    BY OptionsFacts
  <2> HIDE DEF N, ps
  <2>2. QED BY <2>1, Zenon DEF Spelled
<1> HIDE DEF N, ps
<1>2. n \in Nat
  BY <1>1
<1> HIDE DEF n
<1>3. K \in [0 .. n -> Nat] /\ \A i \in 0 .. n : K[i] = a
  OBVIOUS
<1> HIDE DEF K
<1>4. "NODE_INFO" \notin DOMAIN g
  BY DEF Plain, Filled
<1>5. NodePlaces(N, n) = {}
  BY <1>1, <1>4 DEF NodePlaces
<1>6. Counts(K, NodePlaces(N, n), n)
  <2>1. \A i \in 0 .. n - 1 : i \in 0 .. n /\ i + 1 \in 0 .. n
    BY <1>2
  <2>2. QED BY <1>3, <1>5, <2>1 DEF Counts
<1>7. ASSUME NEW i \in 1 .. n PROVE IsPart(ps[i], N[i], K[i], f, nodes)
  <2>1. N[i] \in DOMAIN g /\ ps[i] = OptionOf(N[i], g) /\ N[i] \in ToSet(order)
    BY <1>1
  <2>2. N[i] \in DOMAIN f /\ f[N[i]] = g[N[i]]
    BY <2>1
  <2>3. OptionOf(N[i], g) = OptionOf(N[i], f)
    BY <2>2 DEF OptionOf
  <2>4. QED BY <2>1, <2>2, <2>3 DEF IsPart
<1>8. Named(ps, N, K, f, nodes)
  BY <1>1, <1>6, <1>7 DEF Named, n
<1>9. {o \in DOMAIN f : o \in ToSet(order)} = Used(N, n, f)
  BY <1>1 DEF Used
<1>10. K[0] = a /\ K[n] = a
  BY <1>2, <1>3
<1>11. QED BY <1>8, <1>9, <1>10 DEF Made, n, ps

LEMMA MadeNodes ==
    ASSUME NEW f, Plain(f), NEW nodes, NodeValues(nodes), Len(nodes) \in Nat,
           DOMAIN nodes = 1 .. Len(nodes)
    PROVE  Made([i \in DOMAIN nodes |-> NodeInfo(nodes[i])], 0, Len(nodes), {},
                f, nodes)
<1> DEFINE n == Len(nodes)
           ps == [i \in 1 .. n |-> NodeInfo(nodes[i])]
           N == [i \in 1 .. n |-> "NODE_INFO"]
           K == [i \in 0 .. n |-> i]
<1>1. n \in Nat /\ \A i \in 1 .. n : NodeInfo(nodes[i]) \in Seq(Cell)
  BY NodeInfoFacts DEF NodeValues
<1>a. ps = [i \in DOMAIN nodes |-> NodeInfo(nodes[i])]
  OBVIOUS
<1> HIDE DEF n
<1>2. /\ ps \in Seq(Seq(Cell)) /\ Len(ps) = n
      /\ \A i \in 1 .. n : ps[i] = NodeInfo(nodes[i])
  BY <1>1
<1>3. /\ \A i \in 1 .. n : N[i] = "NODE_INFO"
      /\ K \in [0 .. n -> Nat] /\ \A i \in 0 .. n : K[i] = i
  BY <1>1
<1> HIDE DEF ps, N, K
<1>4. Counts(K, NodePlaces(N, n), n)
  <2>1. ASSUME NEW i \in 0 .. n - 1
        PROVE  K[i + 1] = IF i + 1 \in NodePlaces(N, n) THEN K[i] + 1 ELSE K[i]
    <3>1. i + 1 \in 1 .. n /\ i \in 0 .. n /\ i + 1 \in 0 .. n
      BY <1>1
    <3>2. i + 1 \in NodePlaces(N, n)
      BY <1>3, <3>1 DEF NodePlaces
    <3>3. QED BY <1>3, <3>1, <3>2
  <2>2. QED BY <1>3, <2>1 DEF Counts
<1>5. ASSUME NEW i \in 1 .. n PROVE IsPart(ps[i], N[i], K[i], f, nodes)
  <2>1. i \in 0 .. n
    BY <1>1
  <2>2. ps[i] = NodeInfo(nodes[i]) /\ N[i] = "NODE_INFO" /\ K[i] = i
    BY <1>2, <1>3, <2>1
  <2>3. QED BY <2>2 DEF IsPart, n
<1>6. Named(ps, N, K, f, nodes)
  BY <1>2, <1>4, <1>5 DEF Named
<1>7. Used(N, n, f) = {}
  <2>1. "NODE_INFO" \notin DOMAIN f
    BY DEF Plain, Filled
  <2>2. QED BY <1>3, <2>1 DEF Used
<1>8. K[0] = 0 /\ K[n] = n
  BY <1>1, <1>3
<1>9. Made(ps, 0, n, {}, f, nodes)
  BY <1>2, <1>6, <1>7, <1>8 DEF Made
<1>10. QED BY <1>9, <1>a DEF n

LEMMA MadeUnknown ==
    ASSUME NEW f, Plain(f), NEW nodes, NEW u \in Unknown, NEW a \in Nat
    PROVE  Made(<<Tlv(u.code, u.val)>>, a, a, {}, f, nodes)
<1> DEFINE p == Tlv(u.code, u.val)
           ps == <<p>>
           N == [i \in 1 .. 1 |-> "UNKNOWN"]
           K == [i \in 0 .. 1 |-> a]
<1>1. p \in Seq(Cell)
  BY UnknownFacts
<1>a. \E v \in Unknown : p = Tlv(v.code, v.val)
  OBVIOUS
<1> HIDE DEF p
<1>2. ps \in Seq(Seq(Cell)) /\ Len(ps) = 1 /\ \A i \in 1 .. 1 : ps[i] = p
  BY <1>1
<1>3. /\ \A i \in 1 .. 1 : N[i] = "UNKNOWN"
      /\ K \in [0 .. 1 -> Nat] /\ \A i \in 0 .. 1 : K[i] = a
  OBVIOUS
<1> HIDE DEF ps, N, K
<1>4. NodePlaces(N, 1) = {}
  BY <1>3 DEF NodePlaces
<1>5. Counts(K, NodePlaces(N, 1), 1)
  <2>1. \A i \in 0 .. 1 - 1 : i \in 0 .. 1 /\ i + 1 \in 0 .. 1
    OBVIOUS
  <2>2. QED BY <1>3, <1>4, <2>1 DEF Counts
<1>6. \A i \in 1 .. 1 : IsPart(ps[i], N[i], K[i], f, nodes)
  BY <1>a, <1>2, <1>3 DEF IsPart
<1>7. Named(ps, N, K, f, nodes)
  BY <1>2, <1>5, <1>6 DEF Named
<1>8. Used(N, 1, f) = {}
  <2>1. "UNKNOWN" \notin DOMAIN f
    BY CodeNames DEF Plain, Filled, Code
  <2>2. QED BY <1>3, <2>1 DEF Used
<1>9. K[0] = a /\ K[1] = a
  BY <1>3
<1>10. Made(ps, a, a, {}, f, nodes)
  BY <1>2, <1>7, <1>8, <1>9 DEF Made
<1>11. QED BY <1>10 DEF ps, p

LEMMA MadeTlvs ==
    ASSUME NEW f, Plain(f), NEW nodes, NodeValues(nodes), NEW ps, NEW a, NEW b,
           NEW X, Made(ps, a, b, X, f, nodes)
    PROVE  ps \in Seq(Seq(Cell)) /\ AllTlvs(ps)
<1>1. PICK N, K : Named(ps, N, K, f, nodes)
  BY DEF Made
<1>2. /\ ps \in Seq(Seq(Cell))
      /\ \A i \in 1 .. Len(ps) : IsPart(ps[i], N[i], K[i], f, nodes)
  BY <1>1 DEF Named
<1>3. \A i \in 1 .. Len(ps) : IsTlv(ps[i])
  BY <1>2, PartIsTlv
<1>4. QED BY <1>2, <1>3 DEF AllTlvs

-----------------------------------------------------------------------------
(* The messages *)

LEMMA LayoutType ==
    ASSUME NEW t \in DOMAIN TypeCode \ {"ECHO_REPLY"}
    PROVE  Layout(t) \in Seq(TopLevel)
<1>1. {"MSG_SEQ_NUMBER", "CLUSTER_NAME", "TLS_SUPPORTED",
       "TLS_CLIENT_CERT_REQUIRED", "SUPPORTED_MESSAGES", "SUPPORTED_OPTIONS",
       "NODE_ID", "DECISION_ALGORITHM", "HEARTBEAT_INTERVAL", "TIE_BREAKER",
       "RING_ID", "REPLY_ERROR_CODE", "SERVER_MAXIMUM_REQUEST_SIZE",
       "SERVER_MAXIMUM_REPLY_SIZE", "SUPPORTED_DECISION_ALGORITHMS",
       "NODE_LIST_TYPE", "CONFIG_VERSION", "QUORATE", "VOTE", "HEURISTICS",
       "KEEP_ACTIVE_PARTITION_TB"} \subseteq TopLevel
  BY DEF TopLevel, Code
<1> HIDE DEF TopLevel
<1>2. /\ HandshakeLayout["PREINIT"] \in Seq(TopLevel)
      /\ HandshakeLayout["PREINIT_REPLY"] \in Seq(TopLevel)
      /\ HandshakeLayout["STARTTLS"] \in Seq(TopLevel)
      /\ HandshakeLayout["INIT"] \in Seq(TopLevel)
      /\ HandshakeLayout["INIT_REPLY"] \in Seq(TopLevel)
      /\ HandshakeLayout["SERVER_ERROR"] \in Seq(TopLevel)
      /\ HandshakeLayout["ECHO_REQUEST"] \in Seq(TopLevel)
  BY <1>1 DEF HandshakeLayout
<1>3. /\ OptionLayout["SET_OPTION"] \in Seq(TopLevel)
      /\ OptionLayout["SET_OPTION_REPLY"] \in Seq(TopLevel)
  BY <1>1 DEF OptionLayout
<1>4. /\ VoteLayout["NODE_LIST"] \in Seq(TopLevel)
      /\ VoteLayout["NODE_LIST_REPLY"] \in Seq(TopLevel)
      /\ VoteLayout["ASK_FOR_VOTE"] \in Seq(TopLevel)
      /\ VoteLayout["ASK_FOR_VOTE_REPLY"] \in Seq(TopLevel)
      /\ VoteLayout["VOTE_INFO"] \in Seq(TopLevel)
      /\ VoteLayout["VOTE_INFO_REPLY"] \in Seq(TopLevel)
      /\ VoteLayout["HEURISTICS_CHANGE"] \in Seq(TopLevel)
      /\ VoteLayout["HEURISTICS_CHANGE_REPLY"] \in Seq(TopLevel)
  BY <1>1 DEF VoteLayout
<1>5. DOMAIN HandshakeLayout = {"PREINIT", "PREINIT_REPLY", "STARTTLS", "INIT",
                                "INIT_REPLY", "SERVER_ERROR", "ECHO_REQUEST"}
  BY DEF HandshakeLayout
<1>6. DOMAIN OptionLayout = {"SET_OPTION", "SET_OPTION_REPLY"}
  BY DEF OptionLayout
<1>7. t \in {"PREINIT", "PREINIT_REPLY", "STARTTLS", "INIT", "INIT_REPLY",
             "SERVER_ERROR", "ECHO_REQUEST", "SET_OPTION", "SET_OPTION_REPLY",
             "NODE_LIST", "NODE_LIST_REPLY", "ASK_FOR_VOTE",
             "ASK_FOR_VOTE_REPLY", "VOTE_INFO", "VOTE_INFO_REPLY",
             "HEURISTICS_CHANGE", "HEURISTICS_CHANGE_REPLY"}
  BY DEF TypeCode
<1>8. CASE t \in DOMAIN HandshakeLayout
  BY <1>2, <1>5, <1>8 DEF Layout
<1>9. CASE t \in DOMAIN OptionLayout /\ t \notin DOMAIN HandshakeLayout
  BY <1>3, <1>6, <1>9 DEF Layout
<1>10. CASE t \notin DOMAIN OptionLayout /\ t \notin DOMAIN HandshakeLayout
  <2>1. Layout(t) = VoteLayout[t]
    BY <1>10 DEF Layout
  <2>2. t \in {"NODE_LIST", "NODE_LIST_REPLY", "ASK_FOR_VOTE",
               "ASK_FOR_VOTE_REPLY", "VOTE_INFO", "VOTE_INFO_REPLY",
               "HEURISTICS_CHANGE", "HEURISTICS_CHANGE_REPLY"}
    BY <1>5, <1>6, <1>7, <1>10
  <2>3. QED BY <1>4, <2>1, <2>2
<1>11. QED BY <1>8, <1>9, <1>10

(* What a receiver is to find of the options of m. *)
KeptNames(m) == {o \in DOMAIN m.opts :
                   ~(o = "HEURISTICS" /\ m.type = "NODE_LIST" /\ m.opts[o] = 0)}
Kept(m) == [o \in KeptNames(m) |-> m.opts[o]]

LEMMA MessageFacts ==
    ASSUME NEW m, IsMessage(m)
    PROVE  /\ m.type \in DOMAIN TypeCode \ {"ECHO_REPLY"}
           /\ Layout(m.type) \in Seq(TopLevel)
           /\ Plain(m.opts) /\ Plain(Kept(m))
           /\ DOMAIN m.opts \subseteq TopLevel /\ DOMAIN Kept(m) = KeptNames(m)
           /\ KeptNames(m) \subseteq DOMAIN m.opts
           /\ \A o \in KeptNames(m) : Kept(m)[o] = m.opts[o]
           /\ Len(m.nodes) \in Nat /\ DOMAIN m.nodes = 1 .. Len(m.nodes)
           /\ NodeValues(m.nodes)
           /\ \A o \in DOMAIN m.opts : o \in ToSet(Layout(m.type))
                \/ (m.type = "NODE_LIST" /\ o = "HEURISTICS")
<1>1. /\ m.type \in DOMAIN TypeCode \ {"ECHO_REPLY"}
      /\ Filled(m.opts, ToSet(Layout(m.type)) \cup
                     IF m.type = "NODE_LIST" THEN {"HEURISTICS"} ELSE {})
      /\ m.nodes = [i \in 1 .. Len(m.nodes) |-> m.nodes[i]] /\ Len(m.nodes) \in Nat
      /\ \A i \in 1 .. Len(m.nodes) :
           Filled(m.nodes[i], NodeFields) /\ "NODE_ID" \in DOMAIN m.nodes[i]
  BY DEF IsMessage
<1> DEFINE order == Layout(m.type)
           f == m.opts
           g == Kept(m)
<1>2. order \in Seq(TopLevel)
  BY <1>1, LayoutType
<1>3. /\ f = [o \in DOMAIN f |-> f[o]] /\ \A o \in DOMAIN f : Fits(o, f[o])
      /\ \A o \in DOMAIN f : o \in ToSet(order) \/ (m.type = "NODE_LIST" /\ o = "HEURISTICS")
  BY <1>1 DEF Filled
<1>4. ToSet(order) \subseteq TopLevel
  <2> HIDE DEF order
  <2>1. QED BY <1>2 DEF ToSet
<1>5. "HEURISTICS" \in TopLevel
  BY DEF TopLevel, Code
<1>6. TopLevel \subseteq DOMAIN Code \ {"NODE_INFO"}
  BY DEF TopLevel
<1>7. DOMAIN f \subseteq TopLevel
  BY <1>3, <1>4, <1>5
<1>8. Plain(f)
  BY <1>3, <1>6, <1>7 DEF Plain, Filled
<1>9. /\ DOMAIN g = KeptNames(m) /\ KeptNames(m) \subseteq DOMAIN f
      /\ \A o \in KeptNames(m) : g[o] = f[o]
  BY DEF Kept, KeptNames
<1>10. g = [o \in DOMAIN g |-> g[o]]
  BY DEF Kept
<1> HIDE DEF g, f
<1>11. Plain(g)
  BY <1>3, <1>6, <1>7, <1>9, <1>10 DEF Plain, Filled
<1>12. NodeValues(m.nodes)
  BY <1>1 DEF NodeValues, IsNodeValue
<1>13. DOMAIN m.nodes = 1 .. Len(m.nodes)
  BY <1>1
<1>14. QED BY <1>1, <1>2, <1>3, <1>7, <1>8, <1>9, <1>11, <1>12, <1>13 DEF order, f, g

(* The options and nodes of m are what its builder writes. *)
LEMMA PartsMade ==
    ASSUME NEW m, IsMessage(m)
    PROVE  Made(Parts(m), 0, Len(m.nodes), KeptNames(m), Kept(m), m.nodes)
<1> DEFINE f == m.opts
           g == Kept(m)
           nodes == m.nodes
           order == Layout(m.type)
<1>1. /\ order \in Seq(TopLevel) /\ Plain(f) /\ Plain(g)
      /\ DOMAIN g = KeptNames(m) /\ KeptNames(m) \subseteq DOMAIN f
      /\ \A o \in KeptNames(m) : g[o] = f[o]
      /\ Len(nodes) \in Nat /\ DOMAIN nodes = 1 .. Len(nodes) /\ NodeValues(nodes)
      /\ \A o \in DOMAIN f : o \in ToSet(order) \/ (m.type = "NODE_LIST" /\ o = "HEURISTICS")
  BY MessageFacts
<1>2. CASE m.type # "NODE_LIST"
  <2>1. KeptNames(m) = DOMAIN f /\ nodes = <<>> /\ Len(nodes) = 0
    BY <1>2 DEF KeptNames, IsMessage
  <2>2. Parts(m) = Options(order, f)
    BY <1>2 DEF Parts
  <2> HIDE DEF f, g, order, nodes
  <2>3. Made(Options(order, f), 0, 0, {o \in DOMAIN g : o \in ToSet(order)}, g, nodes)
    BY <1>1, <2>1, MadeOptions
  <2>4. {o \in DOMAIN g : o \in ToSet(order)} = KeptNames(m)
    BY <1>1, <1>2, <2>1
  <2>5. QED BY <2>1, <2>2, <2>3, <2>4 DEF g, nodes
<1>3. CASE m.type = "NODE_LIST"
  <2> DEFINE A == Options(order, f)
             B == [i \in DOMAIN nodes |-> NodeInfo(nodes[i])]
             h == <<"HEURISTICS">>
             there == "HEURISTICS" \in DOMAIN f /\ f["HEURISTICS"] # 0
             D == IF there THEN Options(h, f) ELSE <<>>
             X == {o \in DOMAIN g : o \in ToSet(order)}
             Z == {o \in DOMAIN g : o = "HEURISTICS"}
  <2>1. order = VoteLayout["NODE_LIST"]
    BY <1>3 DEF Layout, HandshakeLayout, OptionLayout
  <2>2. Parts(m) = (A \o B) \o D
    BY <1>3, <2>1 DEF Parts, NodeList
  <2>3. "HEURISTICS" \notin ToSet(order)
    BY <2>1 DEF ToSet, VoteLayout
  <2>4. /\ \A o \in DOMAIN f : o # "HEURISTICS" => o \in KeptNames(m)
        /\ "HEURISTICS" \in KeptNames(m) <=> there
    BY <1>3 DEF KeptNames
  <2> HIDE DEF f, g, order, nodes
  <2>5. Made(A, 0, 0, X, g, nodes)
    <3>1. \A o \in DOMAIN f : o \in ToSet(order) => o \in DOMAIN g
      BY <1>1, <2>3, <2>4
    <3>2. QED BY <1>1, <3>1, MadeOptions
  <2>6. Made(B, 0, Len(nodes), {}, g, nodes)
    BY <1>1, MadeNodes
  <2> HIDE DEF A, B, X
  <2>7. Made(D, Len(nodes), Len(nodes), Z, g, nodes)
    <3>1. h \in Seq(TopLevel) /\ \A o : o \in ToSet(h) <=> o = "HEURISTICS"
      <4>1. "HEURISTICS" \in TopLevel
        BY DEF TopLevel, Code
      <4>2. h \in Seq(TopLevel) /\ DOMAIN h = {1} /\ h[1] = "HEURISTICS"
        BY <4>1
      <4> HIDE DEF h
      <4>3. QED BY <4>2 DEF ToSet
    <3> HIDE DEF h
    <3>2. CASE there
      <4>1. \A o \in DOMAIN f : o \in ToSet(h) => o \in DOMAIN g
        BY <1>1, <2>4, <3>1, <3>2
      <4>2. Made(Options(h, f), Len(nodes), Len(nodes),
                 {o \in DOMAIN g : o \in ToSet(h)}, g, nodes)
        BY <1>1, <3>1, <4>1, MadeOptions
      <4>3. {o \in DOMAIN g : o \in ToSet(h)} = Z
        BY <3>1
      <4>4. QED BY <3>2, <4>2, <4>3
    <3>3. CASE ~there
      <4>1. Z = {} /\ D = <<>>
        BY <1>1, <2>4, <3>3
      <4>2. Made(<<>>, Len(nodes), Len(nodes), {}, g, nodes)
        <5> DEFINE e == <<>>
                   K == [i \in 0 .. 0 |-> Len(nodes)]
        <5>1. e \in Seq(Seq(Cell)) /\ Len(e) = 0
          OBVIOUS
        <5>2. K \in [0 .. 0 -> Nat] /\ K[0] = Len(nodes)
          BY <1>1
        <5> HIDE DEF e, K
        <5>3. Named(e, e, K, g, nodes)
          BY <5>1, <5>2 DEF Named, Counts
        <5>4. Used(e, 0, g) = {}
          BY DEF Used
        <5>5. Made(e, Len(nodes), Len(nodes), {}, g, nodes)
          BY <5>1, <5>2, <5>3, <5>4 DEF Made
        <5>6. QED BY <5>5 DEF e
      <4>3. QED BY <4>1, <4>2
    <3>4. QED BY <3>2, <3>3
  <2>8. X \cup {} \cup Z = KeptNames(m)
    BY <1>1, <1>3, <2>3, <2>4 DEF X
  <2> HIDE DEF D, Z
  <2>9. Made(A \o B, 0, Len(nodes), X \cup {}, g, nodes)
    BY <2>5, <2>6, MadeJoin
  <2>10. Made((A \o B) \o D, 0, Len(nodes), X \cup {} \cup Z, g, nodes)
    BY <2>7, <2>9, MadeJoin
  <2>11. QED BY <2>2, <2>8, <2>10 DEF g, nodes
<1>4. QED BY <1>2, <1>3

LEMMA PayloadFacts ==
    ASSUME NEW m, IsMessage(m)
    PROVE  /\ Parts(m) \in Seq(Seq(Cell)) /\ AllTlvs(Parts(m))
           /\ Payload(m) \in Seq(Cell)
<1>1. Made(Parts(m), 0, Len(m.nodes), KeptNames(m), Kept(m), m.nodes)
  BY PartsMade
<1>2. Plain(Kept(m)) /\ NodeValues(m.nodes)
  BY MessageFacts
<1>3. Parts(m) \in Seq(Seq(Cell)) /\ AllTlvs(Parts(m))
  BY <1>1, <1>2, MadeTlvs
<1>4. QED BY <1>3, Offsets DEF Payload

BuildStep(m, cap, f, i) ==
    IF i = 0 THEN [ok |-> cap >= 6 /\ ~Refused(m), buf |-> <<>>]
    ELSE Add(f[i - 1], Parts(m)[i], cap - 6)

(* A builder that succeeds has added every option. *)
LEMMA BuildWhole ==
    ASSUME NEW m, IsMessage(m), NEW cap \in Nat, Build(m, cap).ok
    PROVE  Build(m, cap).buf = Payload(m)
<1> DEFINE ps == Parts(m)
           n == Len(ps)
           X == [ok : BOOLEAN, buf : Seq(Cell)]
           a == [ok |-> cap >= 6 /\ ~Refused(m), buf |-> <<>>]
           G == [i \in 1 .. n |-> [x \in X |-> Add(x, ps[i], cap - 6)]]
           Body(f) == [i \in 0 .. n |-> BuildStep(m, cap, f, i)]
           built == CHOOSE f : f = Body(f)
<1>1. ps \in Seq(Seq(Cell))
  BY PayloadFacts
<1>2. n \in Nat /\ \A i \in 1 .. n : ps[i] \in Seq(Cell)
  <2> HIDE DEF ps
  <2>1. QED BY <1>1
<1>3. a \in X
  <2>1. <<>> \in Seq(Cell)
    OBVIOUS
  <2>2. (cap >= 6 /\ ~Refused(m)) \in BOOLEAN
    OBVIOUS
  <2>3. QED BY <2>1, <2>2
<1>4. ASSUME NEW x \in X, NEW i \in 1 .. n PROVE Add(x, ps[i], cap - 6) \in X
  <2> DEFINE p == ps[i]
  <2>1. p \in Seq(Cell) /\ x.buf \in Seq(Cell) /\ x.ok \in BOOLEAN
    BY <1>2
  <2> HIDE DEF p
  <2>2. x.buf \o p \in Seq(Cell)
    BY <2>1, Joined
  <2>3. [x EXCEPT !.buf = @ \o p] \in X /\ [x EXCEPT !.ok = FALSE] \in X
    BY <2>1, <2>2
  <2>4. Add(x, p, cap - 6) \in X
    BY <2>3 DEF Add
  <2>5. QED BY <2>4 DEF p
<1> HIDE DEF ps, n, X, a
<1>5. \E f : f = Body(f)
  <2>1. Maps(G, n, X)
    BY <1>4 DEF Maps
  <2>2. \A x \in X, i \in 1 .. n : G[i][x] = Add(x, ps[i], cap - 6)
    OBVIOUS
  <2> HIDE DEF G
  <2>3. PICK f : Runs(f, n, X, a, G)
    BY <1>2, <1>3, <2>1, Recursion
  <2>4. f \in [0 .. n -> X] /\ f[0] = a /\ \A i \in 1 .. n : f[i] = G[i][f[i - 1]]
    BY <2>3 DEF Runs
  <2>5. ASSUME NEW i \in 0 .. n PROVE f[i] = BuildStep(m, cap, f, i)
    <3>1. CASE i = 0
      BY <2>4, <3>1 DEF BuildStep, a
    <3>2. CASE i # 0
      <4>1. i \in 1 .. n /\ f[i - 1] \in X
        BY <1>2, <2>4, <3>2
      <4>2. QED BY <2>2, <2>4, <3>2, <4>1 DEF BuildStep, ps
    <3>3. QED BY <3>1, <3>2
  <2>6. f = [i \in 0 .. n |-> f[i]]
    BY <2>4
  <2>7. [i \in 0 .. n |-> f[i]] = Body(f)
    BY <2>5
  <2>8. f = Body(f)
    <3> HIDE DEF Body
    <3>1. QED BY <2>6, <2>7
  <2>9. QED BY <2>8
<1>6. built = Body(built)
  <2> HIDE DEF Body
  <2>1. QED BY <1>5
<1>7. Build(m, cap) = built[n]
  BY Zenon DEF Build, BuildStep, ps, n
<1> HIDE DEF built
<1>8. \A i \in 0 .. n : built[i] = BuildStep(m, cap, built, i)
  <2>1. \A i \in 0 .. n : Body(built)[i] = BuildStep(m, cap, built, i)
    OBVIOUS
  <2> HIDE DEF Body
  <2>2. QED BY <1>6, <2>1
<1>9. /\ First(ps, 0) = <<>> /\ First(ps, n) = FlattenSeq(ps)
      /\ \A i \in 1 .. n : First(ps, i) = First(ps, i - 1) \o ps[i]
  BY <1>1, FirstFacts DEF n
<1> DEFINE S == {i \in 0 .. n : /\ built[i] \in X
                                /\ built[i].ok => built[i].buf = First(ps, i)}
<1>10. 0 \in S
  <2>1. 0 \in 0 .. n
    BY <1>2
  <2>2. built[0] = a
    BY <1>8, <2>1 DEF BuildStep, a
  <2>3. a.buf = <<>>
    BY DEF a
  <2>4. QED BY <1>3, <1>9, <2>1, <2>2, <2>3
<1>11. ASSUME NEW i \in 0 .. n - 1, i \in S PROVE i + 1 \in S
  <2> DEFINE j == i + 1
             x == built[i]
             p == ps[j]
  <2>1. j \in 1 .. n /\ j \in 0 .. n /\ j # 0 /\ j - 1 = i
    BY <1>2
  <2>2. x \in X /\ (x.ok => x.buf = First(ps, i))
    BY <1>11
  <2> HIDE DEF j
  <2>3. built[j] = Add(x, p, cap - 6)
    BY <1>8, <2>1 DEF BuildStep, ps
  <2>4. built[j] \in X
    BY <1>4, <2>1, <2>2, <2>3
  <2>5. First(ps, j) = First(ps, i) \o p
    BY <1>9, <2>1
  <2> HIDE DEF x, p
  <2>6. ASSUME built[j].ok PROVE built[j].buf = First(ps, j)
    <3>1. Add(x, p, cap - 6).ok
      BY <2>3, <2>6
    <3>2. x.ok /\ Add(x, p, cap - 6).buf = x.buf \o p
      BY <2>2, <3>1 DEF Add, X
    <3>3. QED BY <2>2, <2>3, <2>5, <3>2
  <2>7. QED BY <2>1, <2>4, <2>6 DEF j
<1>12. 0 .. n \subseteq S
  <2> HIDE DEF S
  <2>1. QED BY <1>2, <1>10, <1>11, UpTo
<1>13. n \in S
  BY <1>2, <1>12
<1>14. QED BY <1>7, <1>9, <1>13 DEF Payload, ps

-----------------------------------------------------------------------------
(* Frames *)

(* s begins with a frame of this type and payload. *)
Begins(s, code, payload) ==
    /\ Get(s, 0, 2) = code /\ Get(s, 2, 4) = Len(payload) /\ Holds(s, 6, payload)

LEMMA FrameFacts ==
    ASSUME NEW code \in Number(2), NEW payload \in Seq(Cell), 6 + Len(payload) <= RxSize
    PROVE  /\ Frame(code, payload) \in Seq(Cell)
           /\ Len(Frame(code, payload)) = 6 + Len(payload)
           /\ \A s : Holds(s, 0, Frame(code, payload)) => Begins(s, code, payload)
           /\ \A s : (\A i \in 1 .. 6 : s[i] = Frame(code, payload)[i])
                       => Get(s, 2, 4) = Len(payload)
<1> DEFINE a == Put(2, code)
           b == Put(4, Len(payload))
           n == Len(payload)
<1>1. n \in Nat /\ 2 \in Widths /\ 4 \in Widths
  BY DEF Widths
<1>2. n \in Number(4)
  <2>1. RxSize <= Base4 /\ RxSize \in Nat /\ Base4 \in Nat
    BY StashAssumption, Bases DEF Base4, Base2
  <2>2. Limit(4) = Base4
    BY DEF Limit
  <2>3. QED BY <1>1, <2>1, <2>2 DEF Number
<1>3. /\ a \in Seq(Cell) /\ Len(a) = 2
      /\ \A s, at : at \in Nat /\ Holds(s, at, a) => Get(s, at, 2) = code
  BY <1>1, PutGet
<1>4. /\ b \in Seq(Cell) /\ Len(b) = 4
      /\ \A s, at : at \in Nat /\ Holds(s, at, b) => Get(s, at, 4) = n
  BY <1>1, <1>2, PutGet
<1>5. Frame(code, payload) = (a \o b) \o payload
  BY DEF Frame
<1> HIDE DEF a, b
<1>6. a \o b \in Seq(Cell) /\ Len(a \o b) = Len(a) + Len(b)
  BY <1>3, <1>4, Joined
<1> DEFINE h == a \o b
<1>7. h \in Seq(Cell) /\ Len(h) = 6
  <2> HIDE DEF h
  <2>1. QED BY <1>3, <1>4, <1>6 DEF h
<1>8. \A s : Holds(s, 0, h) => Get(s, 0, 2) = code /\ Get(s, 2, 4) = n
  <2>1. ASSUME NEW s, Holds(s, 0, h) PROVE Get(s, 0, 2) = code /\ Get(s, 2, 4) = n
    <3>1. Holds(s, 0, a) /\ Holds(s, 0 + Len(a), b)
      BY <1>3, <1>4, <2>1, HoldsBoth
    <3>2. Holds(s, 2, b)
      BY <1>3, <3>1
    <3>3. QED BY <1>3, <1>4, <3>1, <3>2
  <2>2. QED BY <2>1
<1> HIDE DEF h
<1>9. h \o payload \in Seq(Cell) /\ Len(h \o payload) = Len(h) + n
  BY <1>7, Joined
<1>10. ASSUME NEW s, Holds(s, 0, h \o payload) PROVE Begins(s, code, payload)
  <2>1. h \in Seq(Cell)
    BY <1>7
  <2>2. Holds(s, 0, h) /\ Holds(s, 0 + Len(h), payload)
    BY <1>10, <2>1, HoldsBoth
  <2>3. Holds(s, 6, payload)
    BY <1>7, <2>2
  <2>4. QED BY <1>8, <2>2, <2>3 DEF Begins
<1>11. ASSUME NEW s, \A i \in 1 .. 6 : s[i] = (h \o payload)[i] PROVE Get(s, 2, 4) = n
  <2>a. h \in Seq(Cell)
    BY <1>7
  <2>b. \A i \in 1 .. Len(h) + Len(payload) :
          (h \o payload)[i] = IF i <= Len(h) THEN h[i] ELSE payload[i - Len(h)]
    BY <2>a, ConcatProperties
  <2> DEFINE c == h \o payload
             l == Len(h)
  <2>c. \A i \in 1 .. l + n : c[i] = IF i <= l THEN h[i] ELSE payload[i - l]
    BY <2>b
  <2>d. l = 6 /\ \A i \in 1 .. 6 : s[i] = c[i]
    BY <1>7, <1>11
  <2> HIDE DEF c, l, n
  <2>1. ASSUME NEW i \in 1 .. 6 PROVE c[i] = h[i] /\ 0 + i = i
    <3>1. i \in 1 .. l + n /\ i <= l
      BY <1>1, <2>d
    <3>2. QED BY <2>c, <3>1
  <2>2. Holds(s, 0, h)
    <3>1. ASSUME NEW i \in 1 .. 6 PROVE s[0 + i] = h[i]
      <4>1. s[i] = c[i]
        BY <2>d
      <4>2. QED BY <2>1, <4>1
    <3>2. QED BY <1>7, <3>1 DEF Holds
  <2>3. QED BY <1>8, <2>2
<1>12. Frame(code, payload) = h \o payload
  BY <1>5 DEF h
<1>13. Len(h \o payload) = 6 + n
  BY <1>7, <1>9
<1>14. QED BY <1>9, <1>10, <1>11, <1>12, <1>13

(* A sequence of the cells of a stash: what Over leaves there. *)
Cellular(s) == s \in Seq(Cell) /\ Len(s) = RxSize

LEMMA OverFacts ==
    ASSUME NEW s, Cellular(s), NEW f \in Seq(Cell), Len(f) <= RxSize
    PROVE  Cellular(Over(s, f)) /\ Holds(Over(s, f), 0, f)
<1> DEFINE n == Len(f)
           r == SubSeq(s, n + 1, RxSize)
<1>1. n \in Nat /\ RxSize \in Nat /\ s \in Seq(Cell) /\ Len(s) = RxSize /\ n <= RxSize
  BY StashAssumption DEF Cellular
<1>2. r \in Seq(Cell) /\ Len(r) = RxSize - n
  <2>1. \A i \in n + 1 .. RxSize : s[i] \in Cell
    BY <1>1
  <2>2. /\ r \in Seq(Cell)
        /\ Len(r) = IF n + 1 <= RxSize THEN RxSize - (n + 1) + 1 ELSE 0
    <3> HIDE DEF n
    <3>1. QED BY <1>1, <2>1, SubSeqProperties
  <2> HIDE DEF r, n
  <2>3. QED BY <1>1, <2>2
<1> HIDE DEF r
<1>3. f \o r \in Seq(Cell) /\ Len(f \o r) = n + Len(r)
  BY <1>2, Joined
<1>4. \A i \in 1 .. n : (f \o r)[i] = f[i]
  BY <1>2, ConcatProperties
<1>5. Len(f \o r) = RxSize
  BY <1>1, <1>2, <1>3
<1>6. Holds(f \o r, 0, f)
  BY <1>1, <1>4 DEF Holds
<1>7. QED BY <1>3, <1>5, <1>6 DEF Over, r, Cellular

LEMMA FrameLength ==
    ASSUME NEW code \in Number(2), NEW payload \in Seq(Cell)
    PROVE  Len(Frame(code, payload)) = 6 + Len(payload)
<1> DEFINE a == Put(2, code)
           n == Len(payload)
           h == PutU16(n \div Base2)
           l == PutU16(n % Base2)
           b == Put(4, n)
<1>1. ASSUME NEW v \in Nat PROVE PutU16(v) \in Seq(Cell) /\ Len(PutU16(v)) = 2
  <2>1. (v \div Base) % Base \in Cell /\ v % Base \in Cell
    BY Bases DEF Cell
  <2>2. QED BY <2>1 DEF PutU16
<1>2. n \in Nat /\ n \div Base2 \in Nat /\ n % Base2 \in Nat
  BY Bases
<1>3. h \in Seq(Cell) /\ l \in Seq(Cell) /\ Len(h) + Len(l) = 4
  <2> HIDE DEF n
  <2>1. h \in Seq(Cell) /\ Len(h) = 2
    BY <1>1, <1>2
  <2>2. l \in Seq(Cell) /\ Len(l) = 2
    <3> DEFINE r == n % Base2
    <3> HIDE DEF r
    <3>1. r \in Nat /\ l = PutU16(r)
      BY <1>2 DEF r
    <3>2. PutU16(r) \in Seq(Cell) /\ Len(PutU16(r)) = 2
      BY <1>1, <3>1
    <3> HIDE DEF l
    <3>3. QED BY <3>1, <3>2
  <2> HIDE DEF h, l
  <2>3. QED BY <2>1, <2>2
<1>4. b = h \o l
  BY DEF Put, PutU32
<1> HIDE DEF h, l, n
<1>5. h \o l \in Seq(Cell) /\ Len(h \o l) = Len(h) + Len(l)
  BY <1>3, Joined, Zenon
<1>6. b \in Seq(Cell) /\ Len(b) = 4
  BY <1>3, <1>4, <1>5
<1>7. a \in Seq(Cell) /\ Len(a) = 2
  <2>1. 2 \in Widths
    BY DEF Widths
  <2>2. QED BY <2>1, PutGet
<1>8. Frame(code, payload) = (a \o b) \o payload
  BY DEF Frame, n
<1> HIDE DEF a, b
<1>9. a \o b \in Seq(Cell) /\ Len(a \o b) = Len(a) + Len(b)
  BY <1>6, <1>7, Joined, Zenon
<1> DEFINE c == a \o b
<1>10. c \in Seq(Cell) /\ Len(c) = 6
  BY <1>6, <1>7, <1>9
<1> HIDE DEF c
<1>11. Len(c \o payload) = Len(c) + Len(payload)
  BY <1>10, Joined, Zenon
<1>12. QED BY <1>8, <1>10, <1>11 DEF c

(* The first n cells of a frame are read and decoded. *)
LEMMA ReceiveFrame ==
    ASSUME Cellular(stash), NEW code \in Number(2), NEW payload \in Seq(Cell),
           NEW n \in 0 .. 6 + Len(payload), NEW m, NEW what,
           Receive(m, Frame(code, payload), n, what)
    PROVE  /\ Cellular(stash') /\ Sound(stash', flen')
           /\ got' = Decode(stash', flen', RxSize)
           /\ sent' = m /\ how' = what /\ flen' = n
           /\ n = 6 + Len(payload) => Begins(stash', code, payload)
           /\ 6 + Len(payload) <= RxSize
<1> DEFINE f == Frame(code, payload)
           g == SubSeq(f, 1, n)
<1>1. /\ Len(f) <= RxSize /\ sent' = m /\ how' = what /\ flen' = n
      /\ stash' = Over(stash, g) /\ got' = Decode(stash', n, RxSize)
  BY DEF Receive
<1>2. Len(f) = 6 + Len(payload)
  BY FrameLength
<1>3. 6 + Len(payload) <= RxSize /\ Len(payload) \in Nat /\ RxSize \in Nat
  BY <1>1, <1>2, StashAssumption
<1>4. /\ f \in Seq(Cell)
      /\ \A s : Holds(s, 0, f) => Begins(s, code, payload)
      /\ \A s : (\A i \in 1 .. 6 : s[i] = f[i]) => Get(s, 2, 4) = Len(payload)
  BY <1>3, FrameFacts
<1> HIDE DEF f
<1>a. Len(f) \in Nat /\ n \in 0 .. Len(f)
  BY <1>2, <1>4
<1>5. g \in Seq(Cell) /\ Len(g) = n /\ \A i \in 1 .. n : g[i] = f[i]
  BY <1>4, <1>a
<1>6. n \in Nat /\ n <= RxSize
  BY <1>1, <1>a, <1>3
<1> HIDE DEF g
<1>7. Cellular(stash') /\ Holds(stash', 0, g)
  <2>1. Len(g) <= RxSize
    BY <1>5, <1>6
  <2>2. QED BY <1>1, <1>5, <2>1, OverFacts
<1>8. \A i \in 1 .. n : stash'[i] = f[i]
  <2>1. \A i \in 1 .. n : stash'[0 + i] = f[i]
    BY <1>5, <1>7 DEF Holds
  <2>2. \A i \in 1 .. n : 0 + i = i
    BY <1>6
  <2>3. QED BY <2>1, <2>2
<1>9. Bytes(stash', RxSize)
  BY <1>7, <1>3 DEF Cellular, Bytes
<1>10. ASSUME n >= 6 PROVE 6 + Get(stash', 2, 4) < SizeMod
  <2>1. \A i \in 1 .. 6 : stash'[i] = f[i]
    BY <1>6, <1>8, <1>10
  <2>2. Get(stash', 2, 4) = Len(payload)
    BY <1>4, <2>1
  <2>3. QED BY <1>3, <2>2, StashAssumption
<1>11. Sound(stash', n)
  BY <1>6, <1>9, <1>10 DEF Sound
<1>12. ASSUME n = 6 + Len(payload) PROVE Begins(stash', code, payload)
  <2>1. n = Len(f)
    BY <1>2, <1>12
  <2>2. \A i \in 1 .. n : 0 + i = i
    BY <1>6
  <2>3. Holds(stash', 0, f)
    BY <1>8, <2>1, <2>2 DEF Holds
  <2>4. QED BY <1>4, <2>3
<1>13. QED BY <1>1, <1>3, <1>7, <1>11, <1>12

LEMMA TypeCodes ==
    ASSUME NEW t \in DOMAIN TypeCode
    PROVE  TypeCode[t] \in Number(2) /\ TypeName(TypeCode[t]) = t
<1>1. TypeCode[t] \in Nat /\ TypeCode[t] < 18
  BY DEF TypeCode
<1>2. Number(2) = 0 .. Base2 - 1 /\ Base2 \in Nat /\ Base2 >= 25
  BY Bases DEF Number, Limit
<1>3. \A t1, t2 \in DOMAIN TypeCode : TypeCode[t1] = TypeCode[t2] => t1 = t2
  BY DEF TypeCode
<1>4. TypeName(TypeCode[t]) = t
  BY <1>3 DEF TypeName
<1>5. QED BY <1>1, <1>2, <1>4

(* A message as it may arrive: of any type, also of the one no builder but *)
(* qesp_msg_echo_reply_from makes.                                         *)
Meant(m) ==
    /\ m = [type |-> m.type, opts |-> m.opts, nodes |-> m.nodes]
    /\ m.type \in DOMAIN TypeCode
    /\ Plain(m.opts) /\ DOMAIN m.opts \subseteq TopLevel
    /\ m.nodes = [i \in 1 .. Len(m.nodes) |-> m.nodes[i]] /\ Len(m.nodes) \in Nat
    /\ NodeValues(m.nodes)

LEMMA MessageMeant ==
    ASSUME NEW m, IsMessage(m)
    PROVE  Meant(m)
<1>1. /\ m.type \in DOMAIN TypeCode /\ Plain(m.opts) /\ DOMAIN m.opts \subseteq TopLevel
      /\ NodeValues(m.nodes)
  BY MessageFacts
<1>2. QED BY <1>1 DEF Meant, IsMessage

(* Everything m says, and nothing else that is known, is in this frame. *)
Carried(m, s, len) ==
    \E ps : /\ Made(ps, 0, Len(m.nodes), KeptNames(m), Kept(m), m.nodes)
            /\ Begins(s, TypeCode[m.type], FlattenSeq(ps))
            /\ len = 6 + Len(FlattenSeq(ps))

(* The echo of a request has its payload. *)
LEMMA EchoFacts ==
    ASSUME Cellular(stash), Sound(stash, flen), NEW cap \in Caps, Echo(cap)
    PROVE  /\ Cellular(stash') /\ Sound(stash', flen')
           /\ got' = Decode(stash', flen', RxSize)
           /\ sent' = [sent EXCEPT !.type = "ECHO_REPLY"] /\ how' = "ECHOED"
           /\ flen' = flen
           /\ \A code, payload :
                Begins(stash, code, payload) /\ payload \in Seq(Cell)
                /\ 6 + Len(payload) = flen
                  => Begins(stash', TypeCode["ECHO_REPLY"], payload)
<1> DEFINE x == SubSeq(stash, 1, flen)
           c == TypeCode["ECHO_REPLY"]
           a == Put(2, c)
           r == SubSeq(x, 3, Len(x))
           e == EchoReply(x)
           g == SubSeq(e, 1, flen)
<1>1. /\ flen' = flen /\ how' = "ECHOED" /\ sent' = [sent EXCEPT !.type = "ECHO_REPLY"]
      /\ stash' = Over(stash, g) /\ got' = Decode(stash', flen', RxSize)
      /\ flen >= 6
  BY DEF Echo, Echoed, Receive, CheckFrame
<1>2. /\ flen \in Nat /\ flen <= RxSize /\ RxSize \in Nat
      /\ stash \in Seq(Cell) /\ Len(stash) = RxSize
  BY StashAssumption DEF Sound, Cellular
<1>3. x \in Seq(Cell) /\ Len(x) = flen /\ \A i \in 1 .. flen : x[i] = stash[i]
  <2>1. flen \in 0 .. Len(stash)
    BY <1>2
  <2>2. stash \in Seq(Cell)
    BY <1>2
  <2>3. QED BY <2>1, <2>2
<1>4. e = a \o r
  BY DEF EchoReply
<1> HIDE DEF x
<1>5. r \in Seq(Cell) /\ Len(r) = flen - 2 /\ \A i \in 1 .. flen - 2 : r[i] = x[i + 2]
  <2>1. \A i \in 3 .. flen : x[i] \in Cell
    BY <1>2, <1>3
  <2>2. r = SubSeq(x, 3, flen)
    BY <1>3
  <2>a. 3 \in Int /\ flen \in Int
    BY <1>2
  <2>3. /\ SubSeq(x, 3, flen) \in Seq(Cell)
        /\ Len(SubSeq(x, 3, flen)) = IF 3 <= flen THEN flen - 3 + 1 ELSE 0
        /\ \A i \in 1 .. flen - 3 + 1 : SubSeq(x, 3, flen)[i] = x[3 + i - 1]
    BY <2>1, <2>a, SubSeqProperties
  <2> HIDE DEF r
  <2>4. flen - 3 + 1 = flen - 2 /\ \A i \in 1 .. flen - 2 : 3 + i - 1 = i + 2
    BY <1>2
  <2>5. QED BY <1>1, <1>2, <2>2, <2>3, <2>4
<1>6. /\ a \in Seq(Cell) /\ Len(a) = 2
      /\ \A s, at : at \in Nat /\ Holds(s, at, a) => Get(s, at, 2) = c
  <2>1. 2 \in Widths /\ c \in Number(2)
    <3>1. "ECHO_REPLY" \in DOMAIN TypeCode
      BY DEF TypeCode
    <3>2. QED BY <3>1, TypeCodes DEF Widths
  <2>2. QED BY <2>1, PutGet
<1> HIDE DEF a, r, e, c
<1>7. a \o r \in Seq(Cell) /\ Len(a \o r) = Len(a) + Len(r)
  BY <1>5, <1>6, Joined, Zenon
<1>8. /\ \A i \in 1 .. 2 : (a \o r)[i] = a[i]
      /\ \A i \in 3 .. flen : (a \o r)[i] = r[i - 2]
  <2>1. \A i \in 1 .. Len(a) + Len(r) : (a \o r)[i] = IF i <= Len(a) THEN a[i] ELSE r[i - Len(a)]
    <3>1. a \in Seq(Cell) /\ r \in Seq(Cell)
      BY <1>5, <1>6
    <3>2. QED BY <3>1, ConcatProperties
  <2> DEFINE d == a \o r
             la == Len(a)
             lr == Len(r)
  <2>2. /\ \A i \in 1 .. la + lr : d[i] = IF i <= la THEN a[i] ELSE r[i - la]
        /\ la = 2 /\ lr = flen - 2
    BY <1>5, <1>6, <2>1
  <2> HIDE DEF d, la, lr
  <2>3. la + lr = flen
    BY <1>2, <2>2
  <2>4. \A i \in 1 .. 2 : d[i] = a[i]
    BY <1>1, <1>2, <2>2, <2>3
  <2>5. \A i \in 3 .. flen : d[i] = r[i - 2]
    BY <1>1, <1>2, <2>2, <2>3
  <2>6. QED BY <2>4, <2>5 DEF d
<1>9. /\ e \in Seq(Cell) /\ Len(e) = flen
      /\ \A i \in 1 .. 2 : e[i] = a[i]
      /\ \A i \in 3 .. flen : e[i] = stash[i]
  <2>1. ASSUME NEW i \in 3 .. flen PROVE e[i] = stash[i]
    <3> DEFINE j == i - 2
    <3>1. j \in 1 .. flen - 2 /\ j + 2 = i /\ i \in 1 .. flen
      BY <1>2
    <3> HIDE DEF j
    <3>2. r[j] = x[i] /\ x[i] = stash[i]
      BY <1>3, <1>5, <3>1
    <3>3. QED BY <1>4, <1>8, <3>2 DEF j
  <2>2. Len(a) + Len(r) = flen
    BY <1>2, <1>5, <1>6
  <2>3. QED BY <1>4, <1>7, <1>8, <2>1, <2>2
<1>10. g \in Seq(Cell) /\ Len(g) = flen /\ \A i \in 1 .. flen : g[i] = e[i]
  <2>1. e \in Seq(Cell) /\ flen \in 0 .. Len(e)
    BY <1>2, <1>9
  <2>2. QED BY <2>1
<1> HIDE DEF g
<1>11. Cellular(stash') /\ Holds(stash', 0, g)
  <2>1. Len(g) <= RxSize
    BY <1>2, <1>10
  <2>2. QED BY <1>1, <1>10, <2>1, OverFacts
<1>12. \A i \in 1 .. flen : stash'[i] = e[i]
  <2>1. \A i \in 1 .. flen : stash'[0 + i] = g[i]
    BY <1>10, <1>11 DEF Holds
  <2>2. \A i \in 1 .. flen : 0 + i = i
    BY <1>2
  <2>3. QED BY <1>10, <2>1, <2>2
<1>13. \A i \in 3 .. flen : stash'[i] = stash[i]
  <2>1. \A i \in 3 .. flen : i \in 1 .. flen
    BY <1>2
  <2>2. QED BY <1>9, <1>12, <2>1
<1>14. Get(stash', 2, 4) = Get(stash, 2, 4)
  <2>1. \A i \in 1 .. 4 : stash'[2 + i] = stash[2 + i]
    <3>1. \A i \in 1 .. 4 : 2 + i \in 3 .. flen
      BY <1>1, <1>2
    <3>2. QED BY <1>13, <3>1
  <2>2. 2 \in Nat /\ 4 \in Widths
    BY DEF Widths
  <2>3. QED BY <2>1, <2>2, GetSame
<1>15. Bytes(stash', RxSize)
  BY <1>2, <1>11 DEF Cellular, Bytes
<1>16. Sound(stash', flen)
  BY <1>14, <1>15 DEF Sound
<1>17. ASSUME NEW code, NEW payload, Begins(stash, code, payload),
              payload \in Seq(Cell), 6 + Len(payload) = flen
       PROVE  Begins(stash', c, payload)
  <2>1. Holds(stash', 0, a)
    <3>1. \A i \in 1 .. 2 : stash'[0 + i] = a[i]
      <4>1. \A i \in 1 .. 2 : 0 + i = i /\ i \in 1 .. flen
        BY <1>1, <1>2
      <4>2. QED BY <1>9, <1>12, <4>1
    <3>2. QED BY <1>6, <3>1 DEF Holds
  <2>2. Get(stash', 0, 2) = c
    BY <1>6, <2>1
  <2>3. Holds(stash', 6, payload)
    <3>1. Len(payload) \in Nat
      BY <1>17
    <3>2. ASSUME NEW i \in 1 .. Len(payload) PROVE stash'[6 + i] = payload[i]
      <4>1. 6 + i \in 3 .. flen
        BY <1>17, <3>1
      <4>2. stash[6 + i] = payload[i]
        BY <1>17 DEF Begins, Holds
      <4>3. QED BY <1>13, <4>1, <4>2
    <3>3. QED BY <3>2 DEF Holds
  <2>4. Get(stash', 2, 4) = Len(payload)
    BY <1>14, <1>17 DEF Begins
  <2>5. QED BY <2>2, <2>3, <2>4 DEF Begins
<1>18. QED BY <1>1, <1>11, <1>16, <1>17, Zenon DEF c

-----------------------------------------------------------------------------
(* What was built is decoded to what it means. *)

GoodOption(o, f) == Valid(o, f[o]) /\ ListFits(o, f[o])

(* t is option o of f, as the decoder sees it. *)
Stands(s, t, o, f) ==
    /\ o \in DOMAIN f /\ ~t.bad /\ t.code = Code[o]
    /\ Value(s, t) = MeaningOf(o, f[o])
    /\ WellFormed(s, t, {o}) <=> GoodOption(o, f)

(* t is none of these. *)
Passed(t, known) == ~t.bad /\ \A o \in known : t.code # Code[o]

LEMMA OptionStands ==
    ASSUME NEW f, Plain(f), NEW o \in DOMAIN f, NEW s, NEW q \in Nat,
           Holds(s, q, OptionOf(o, f))
    PROVE  Stands(s, Rec(OptionOf(o, f), q), o, f)
<1> DEFINE p == OptionOf(o, f)
           t == Rec(p, q)
           cells == Cells(o, f[o])
           v == MeaningOf(o, f[o])
<1>1. o \in DOMAIN Code /\ Fits(o, f[o])
  BY DEF Plain, Filled
<1>2. /\ Get(p, 0, 2) = Code[o] /\ Len(p) = Len(cells) + 4 /\ Len(cells) \in Nat
      /\ Holds(s, q + 4, cells)
  BY OptionFacts
<1>3. /\ Reads(o, cells, Len(cells), v)
      /\ LengthOK(o, Len(cells)) <=> ListFits(o, f[o])
      /\ Valid(o, v) <=> Valid(o, f[o])
  BY <1>1, CellsFacts
<1> HIDE DEF p, cells, v
<1>4. t.code = Code[o] /\ t.at = q + 4 /\ t.len = Len(cells) /\ ~t.bad
  <2>1. t.code = Get(p, 0, 2) /\ t.at = q + 4 /\ t.len = Len(p) - 4 /\ ~t.bad
    BY DEF Rec
  <2> HIDE DEF t
  <2>2. QED BY <1>2, <2>1
<1> HIDE DEF t
<1>5. Name(t.code) = o
  BY <1>1, <1>4, CodeNames
<1>6. Value(s, t) = v
  <2>1. t.at \in Nat /\ Holds(s, t.at, cells)
    BY <1>2, <1>4
  <2>2. QED BY <1>3, <1>4, <1>5, <2>1 DEF Reads
<1>7. WellFormed(s, t, {o}) <=> LengthOK(o, Len(cells)) /\ ValueOK(o, v)
  <2>1. t.code \in {Code[x] : x \in {o}}
    BY <1>4
  <2>2. QED BY <1>4, <1>5, <1>6, <2>1, Zenon DEF WellFormed
<1>8. ValueOK(o, v) <=> Valid(o, v)
  BY Zenon DEF ValueOK, Valid
<1>9. QED BY <1>3, <1>4, <1>6, <1>7, <1>8 DEF Stands, GoodOption, t, p, v

LEMMA StandsKnown ==
    ASSUME NEW s, NEW t, NEW o, NEW f, Stands(s, t, o, f), o \in DOMAIN Code,
           NEW known \in SUBSET DOMAIN Code, o \in known
    PROVE  WellFormed(s, t, known) <=> GoodOption(o, f)
<1>1. t.code = Code[o] /\ ~t.bad /\ (WellFormed(s, t, {o}) <=> GoodOption(o, f))
  BY DEF Stands
<1>2. t.code \in {Code[x] : x \in {o}} /\ t.code \in {Code[x] : x \in known}
  BY <1>1
<1>3. WellFormed(s, t, {o}) <=> WellFormed(s, t, known)
  BY <1>1, <1>2, Zenon DEF WellFormed
<1>4. QED BY <1>1, <1>3

LEMMA PassedWell ==
    ASSUME NEW s, NEW t, NEW known, Passed(t, known)
    PROVE  WellFormed(s, t, known)
BY DEF Passed, WellFormed

(* ts are the options U of f, and some that are not known. *)
Shows(s, ts, U, f, known) ==
    /\ IsTuple(ts)
    /\ \A i \in DOMAIN ts : (\E o \in U : Stands(s, ts[i], o, f)) \/ Passed(ts[i], known)
    /\ \A o \in U : \E i \in DOMAIN ts : Stands(s, ts[i], o, f)

LEMMA ShownOptions ==
    ASSUME NEW s, NEW ts, NEW f, NEW known \in SUBSET DOMAIN Code,
           NEW U \in SUBSET known, Shows(s, ts, U, f, known)
    PROVE  /\ (\A i \in DOMAIN ts : WellFormed(s, ts[i], known))
                <=> \A o \in U : GoodOption(o, f)
           /\ LastOf(s, ts, known) = [o \in U |-> MeaningOf(o, f[o])]
           /\ \A o \in known : There(ts, o) <=> o \in U
<1>1. /\ IsTuple(ts)
      /\ \A i \in DOMAIN ts : (\E o \in U : Stands(s, ts[i], o, f)) \/ Passed(ts[i], known)
      /\ \A o \in U : \E i \in DOMAIN ts : Stands(s, ts[i], o, f)
  BY DEF Shows
<1>2. \A o, q \in DOMAIN Code : Code[o] = Code[q] => o = q
  BY CodeNames
<1>3. ASSUME NEW i \in DOMAIN ts, NEW o \in known, ts[i].code = Code[o]
      PROVE  o \in U /\ Stands(s, ts[i], o, f)
  <2>1. ~Passed(ts[i], known)
    BY <1>3 DEF Passed
  <2>2. PICK q \in U : Stands(s, ts[i], q, f)
    BY <1>1, <2>1
  <2>3. Code[q] = Code[o]
    BY <1>3, <2>2 DEF Stands
  <2>4. q = o
    BY <1>2, <2>3
  <2>5. QED BY <2>2, <2>4
<1>4. \A o \in known : There(ts, o) <=> o \in U
  <2>1. ASSUME NEW o \in known, There(ts, o) PROVE o \in U
    BY <1>3, <2>1 DEF There
  <2>2. ASSUME NEW o \in U PROVE There(ts, o)
    BY <1>1 DEF There, Stands
  <2>3. QED BY <2>1, <2>2
<1>5. ASSUME \A o \in U : GoodOption(o, f), NEW i \in DOMAIN ts
      PROVE  WellFormed(s, ts[i], known)
  <2>1. CASE Passed(ts[i], known)
    BY <2>1, PassedWell
  <2>2. CASE \E o \in U : Stands(s, ts[i], o, f)
    BY <1>5, <2>2, StandsKnown
  <2>3. QED BY <1>1, <2>1, <2>2
<1>6. ASSUME \A i \in DOMAIN ts : WellFormed(s, ts[i], known), NEW o \in U
      PROVE  GoodOption(o, f)
  <2>1. PICK i \in DOMAIN ts : Stands(s, ts[i], o, f)
    BY <1>1
  <2>2. WellFormed(s, ts[i], known)
    BY <1>6
  <2>3. QED BY <2>1, <2>2, StandsKnown
<1>7. ASSUME NEW o \in U PROVE LastOf(s, ts, known)[o] = MeaningOf(o, f[o])
  <2>1. There(ts, o) /\ o \in known
    BY <1>4
  <2>2. PICK i : LastAt(ts, o, i) /\ LastOf(s, ts, known)[o] = Value(s, ts[i])
    BY <1>1, <2>1, LastOfValue
  <2>3. i \in DOMAIN ts /\ ts[i].code = Code[o]
    BY <2>2 DEF LastAt
  <2>4. Stands(s, ts[i], o, f)
    BY <1>3, <2>1, <2>3
  <2>5. QED BY <2>2, <2>4 DEF Stands
<1>8. LastOf(s, ts, known) = [o \in U |-> MeaningOf(o, f[o])]
  <2> DEFINE L == LastOf(s, ts, known)
  <2>1. L = [o \in DOMAIN L |-> L[o]]
    BY DEF LastOf
  <2>2. DOMAIN L = U
    BY <1>4, LastOfDomain
  <2>3. \A o \in U : L[o] = MeaningOf(o, f[o])
    BY <1>7
  <2> HIDE DEF L
  <2>4. QED BY <2>1, <2>2, <2>3 DEF L
<1>9. QED BY <1>4, <1>5, <1>6, <1>8

(* A node is read as it was written. *)
LEMMA NodeStands ==
    ASSUME NEW v, IsNodeValue(v), NEW s, NEW q \in Nat, Holds(s, q, NodeInfo(v)),
           Bytes(s, q + Len(NodeInfo(v)))
    PROVE  /\ IsNode(Rec(NodeInfo(v), q))
           /\ NodeOK(s, Rec(NodeInfo(v), q)) <=> ValidNode(v)
           /\ NodeOf(s, Rec(NodeInfo(v), q)) = v
<1> DEFINE p == NodeInfo(v)
           t == Rec(p, q)
           ps == NodeParts(v)
           n == Len(ps)
           at == q + 4
           cells == FlattenSeq(ps)
           ts == Tlvs(s, at, Len(cells))
<1>1. /\ Get(p, 0, 2) = Code["NODE_INFO"] /\ Len(p) = Len(cells) + 4
      /\ Holds(s, at, cells)
  BY NodeInfoFacts
<1>2. /\ ps \in Seq(Seq(Cell)) /\ cells \in Seq(Cell)
      /\ \A i \in 1 .. n : \E o \in DOMAIN v : ps[i] = OptionOf(o, v)
      /\ \A o \in DOMAIN v : \E i \in 1 .. n : ps[i] = OptionOf(o, v)
  BY NodePartsFacts
<1>3. Plain(v)
  BY NodePlain
<1>4. DOMAIN v \in SUBSET NodeFields /\ "NODE_ID" \in DOMAIN v /\ v = [o \in DOMAIN v |-> v[o]]
  BY DEF IsNodeValue, Filled
<1>5. NodeFields \in SUBSET DOMAIN Code /\ "NODE_ID" \in NodeFields
  BY CodeNames DEF NodeFields
<1> HIDE DEF ps
<1>6. n \in Nat /\ Len(cells) \in Nat
  <2> HIDE DEF cells
  <2>1. QED BY <1>2
<1>7. AllTlvs(ps)
  <2>1. \A o \in DOMAIN v : IsTlv(OptionOf(o, v))
    BY <1>3, OptionFacts
  <2>2. QED BY <1>2, <2>1 DEF AllTlvs
<1>8. Bytes(s, at + Len(cells)) /\ at \in Nat
  <2>1. q + Len(p) = at + Len(cells)
    BY <1>1, <1>6
  <2> HIDE DEF p, cells
  <2>2. QED BY <2>1 DEF p
<1>9. /\ ts \in Seq(Found(at + Len(cells))) /\ Len(ts) = n
      /\ \A i \in 1 .. n : ts[i] = Rec(ps[i], at + Off(ps, i - 1))
  BY <1>1, <1>7, <1>8, IterWhole, Zenon
<1>10. /\ \A i \in 1 .. n : Holds(s, at + Off(ps, i - 1), ps[i])
       /\ \A i \in 1 .. n : at + Off(ps, i - 1) \in Nat
  <2>1. \A i \in 1 .. n : Holds(s, at + Off(ps, i - 1), ps[i])
    <3> HIDE DEF at
    <3>1. QED BY <1>1, <1>2, <1>8, HoldsParts
  <2>2. \A i \in 1 .. n : i - 1 \in 0 .. n
    BY <1>6
  <2>3. \A i \in 0 .. n : Off(ps, i) \in Nat
    BY <1>2, Offsets
  <2>4. QED BY <1>8, <2>1, <2>2, <2>3
<1>11. t.code = Code["NODE_INFO"] /\ ~t.bad /\ t.at = at /\ t.len = Len(cells)
  <2>1. t.code = Get(p, 0, 2) /\ t.at = q + 4 /\ t.len = Len(p) - 4 /\ ~t.bad
    BY DEF Rec
  <2> HIDE DEF t, p, cells
  <2>2. QED BY <1>1, <1>6, <2>1
<1>12. NodeTlvs(s, t) = ts
  <2> HIDE DEF t, at, cells
  <2>1. QED BY <1>11 DEF NodeTlvs
<1> HIDE DEF t, p, ts, cells, at, n
<1>13. IsTuple(ts) /\ DOMAIN ts = 1 .. n
  <2>1. DOMAIN ts = 1 .. Len(ts) /\ Len(ts) \in Nat
    BY <1>9
  <2>2. QED BY <1>9, <2>1 DEF IsTuple
<1>14. \A i \in 1 .. n, o \in DOMAIN v :
         ps[i] = OptionOf(o, v) => Stands(s, ts[i], o, v)
  <2>1. ASSUME NEW i \in 1 .. n, NEW o \in DOMAIN v, ps[i] = OptionOf(o, v)
        PROVE  Stands(s, ts[i], o, v)
    <3> DEFINE x == at + Off(ps, i - 1)
    <3>1. x \in Nat /\ Holds(s, x, OptionOf(o, v)) /\ ts[i] = Rec(OptionOf(o, v), x)
      BY <1>9, <1>10, <2>1
    <3> HIDE DEF x
    <3>2. QED BY <1>3, <3>1, OptionStands
  <2>2. QED BY <2>1
<1>15. Shows(s, ts, DOMAIN v, v, NodeFields)
  BY <1>2, <1>13, <1>14, ZenonT(60) DEF Shows
<1>16. /\ (\A i \in DOMAIN ts : WellFormed(s, ts[i], NodeFields))
            <=> \A o \in DOMAIN v : GoodOption(o, v)
       /\ LastOf(s, ts, NodeFields) = [o \in DOMAIN v |-> MeaningOf(o, v[o])]
       /\ \A o \in NodeFields : There(ts, o) <=> o \in DOMAIN v
  BY <1>4, <1>5, <1>15, ShownOptions
<1>17. \A o \in DOMAIN v : /\ MeaningOf(o, v[o]) = v[o]
                           /\ GoodOption(o, v) <=> Valid(o, v[o])
  <2>1. \A o \in NodeFields : o # "TIE_BREAKER" /\ o \notin Lists
    BY DEF NodeFields, Lists
  <2>2. QED BY <1>4, <2>1 DEF MeaningOf, GoodOption, ListFits
<1>18. LastOf(s, ts, NodeFields) = v
  BY <1>4, <1>16, <1>17
<1>19. There(ts, "NODE_ID")
  BY <1>4, <1>5, <1>16
<1>20. NodeOK(s, t) <=> ValidNode(v)
  <2>1. NodeOK(s, t) <=> /\ \A i \in DOMAIN ts : WellFormed(s, ts[i], NodeFields)
                         /\ There(ts, "NODE_ID") /\ v["NODE_ID"] # 0
    BY <1>12, <1>18, Zenon DEF NodeOK, There
  <2>2. QED BY <1>16, <1>17, <1>19, <2>1 DEF ValidNode
<1>21. NodeOf(s, t) = v
  BY <1>12, <1>18 DEF NodeOf
<1>22. IsNode(t)
  BY <1>11 DEF IsNode
<1>23. QED BY <1>20, <1>21, <1>22 DEF t, p

(* What qesp_msg_decode is to accept: options X of f and the first b nodes. *)
Acceptable(X, b, f, nodes) ==
    /\ \A o \in X : GoodOption(o, f)
    /\ b <= MaxNodes
    /\ \A k \in 1 .. b : ValidNode(nodes[k])

(* What it is to return for them. *)
Outcome(type, X, b, f, nodes) ==
    IF Acceptable(X, b, f, nodes)
    THEN [type |-> type, opts |-> [o \in X |-> MeaningOf(o, f[o])],
          nodes |-> [k \in 1 .. b |-> nodes[k]]]
    ELSE Rejected

(* t is option o of f, the k-th node, or one that is passed over. *)
Seen(s, t, o, k, f, nodes) ==
    /\ IsNode(t) <=> o = "NODE_INFO"
    /\ o \in DOMAIN f => Stands(s, t, o, f)
    /\ o \notin DOMAIN f => Passed(t, Checked)
    /\ o = "NODE_INFO" => /\ NodeOK(s, t) <=> ValidNode(nodes[k])
                          /\ NodeOf(s, t) = nodes[k]

LEMMA PartSeen ==
    ASSUME NEW p, NEW o, NEW k, NEW f, Plain(f), NEW nodes, NodeValues(nodes),
           DOMAIN f \subseteq TopLevel, IsPart(p, o, k, f, nodes),
           NEW s, NEW q \in Nat, Holds(s, q, p), Bytes(s, q + Len(p))
    PROVE  Seen(s, Rec(p, q), o, k, f, nodes)
<1> DEFINE t == Rec(p, q)
<1>1. t.code = Get(p, 0, 2) /\ ~t.bad
  BY DEF Rec
<1>2. /\ "NODE_INFO" \notin DOMAIN f /\ "UNKNOWN" \notin DOMAIN f
      /\ "NODE_INFO" \notin Checked /\ Checked \subseteq DOMAIN Code
      /\ "NODE_INFO" \in DOMAIN Code /\ TopLevel \subseteq DOMAIN Code
  <2>1. "UNKNOWN" \notin DOMAIN Code
    BY DEF Code
  <2>2. "NODE_INFO" \notin TopLevel /\ "NODE_INFO" # "NODE_STATE"
    BY DEF TopLevel
  <2>3. QED BY <2>1, <2>2, CodeNames DEF Checked
<1>3. \A x, y \in DOMAIN Code : Code[x] = Code[y] => x = y
  BY CodeNames
<1>4. CASE o \in DOMAIN f /\ p = OptionOf(o, f)
  <2>1. Stands(s, Rec(OptionOf(o, f), q), o, f)
    BY <1>4, OptionStands
  <2>2. Stands(s, t, o, f)
    BY <1>4, <2>1
  <2>3. t.code = Code[o] /\ o \in DOMAIN Code /\ o # "NODE_INFO"
    BY <1>2, <1>4, <2>2 DEF Stands
  <2> HIDE DEF t
  <2>4. ~IsNode(t)
    BY <1>2, <1>3, <2>3 DEF IsNode
  <2>5. QED BY <1>4, <2>2, <2>3, <2>4 DEF t, Seen
<1>5. CASE o = "NODE_INFO" /\ k \in 1 .. Len(nodes) /\ p = NodeInfo(nodes[k])
  <2> DEFINE v == nodes[k]
  <2>1. IsNodeValue(v)
    BY <1>5 DEF NodeValues
  <2> HIDE DEF v
  <2>2. p = NodeInfo(v)
    BY <1>5 DEF v
  <2>3. IsNode(t) /\ (NodeOK(s, t) <=> ValidNode(v)) /\ NodeOf(s, t) = v
    BY <2>1, <2>2, NodeStands
  <2> HIDE DEF t
  <2>4. Passed(t, Checked)
    BY <1>1, <1>2, <1>3, <2>3 DEF Passed, IsNode
  <2>5. QED BY <1>2, <1>5, <2>3, <2>4 DEF t, v, Seen
<1>6. CASE o = "UNKNOWN" /\ \E u \in Unknown : p = Tlv(u.code, u.val)
  <2>1. \A x \in DOMAIN Code : Get(p, 0, 2) # Code[x]
    BY <1>6, UnknownFacts
  <2> HIDE DEF t
  <2>2. Passed(t, Checked) /\ ~IsNode(t)
    BY <1>1, <1>2, <2>1 DEF Passed, IsNode
  <2>3. QED BY <1>2, <1>6, <2>2 DEF t, Seen
<1>7. QED BY <1>4, <1>5, <1>6 DEF IsPart

LEMMA DecodeMade ==
    ASSUME NEW f, Plain(f), NEW nodes, NodeValues(nodes), DOMAIN f \subseteq TopLevel,
           NEW ps, NEW b, NEW X, Made(ps, 0, b, X, f, nodes),
           NEW type \in DOMAIN TypeCode, NEW s, Cellular(s),
           Begins(s, TypeCode[type], FlattenSeq(ps)),
           NEW len, len = 6 + Len(FlattenSeq(ps)), len <= RxSize
    PROVE  Decode(s, len, RxSize) = Outcome(type, X, b, f, nodes)
<1>1. PICK N, K : /\ Named(ps, N, K, f, nodes)
                  /\ K[0] = 0 /\ K[Len(ps)] = b /\ X = Used(N, Len(ps), f)
  BY DEF Made
<1> DEFINE n == Len(ps)
           cells == FlattenSeq(ps)
           ts == TopTlvs(s)
           I == {i \in DOMAIN ts : IsNode(ts[i])}
           nds == NodesOf(ts)
           at(i) == 6 + Off(ps, i - 1)
<1>2. ps \in Seq(Seq(Cell)) /\ AllTlvs(ps)
  BY MadeTlvs
<1>3. /\ Off(ps, 0) = 0 /\ Len(cells) = Off(ps, n) /\ cells \in Seq(Cell)
      /\ \A i \in 0 .. n : Off(ps, i) \in Nat
      /\ \A i \in 1 .. n : Off(ps, i) = Off(ps, i - 1) + Len(ps[i])
  BY <1>2, Offsets
<1>4. n \in Nat /\ \A i \in 1 .. n : Len(ps[i]) \in Nat
  BY <1>2
<1>5. Counts(K, NodePlaces(N, n), n) /\ \A i \in 1 .. n : IsPart(ps[i], N[i], K[i], f, nodes)
  BY <1>1 DEF Named
<1>6. /\ Get(s, 0, 2) = TypeCode[type] /\ Get(s, 2, 4) = Len(cells) /\ Holds(s, 6, cells)
  BY DEF Begins
<1> HIDE DEF cells
<1>7. /\ Len(cells) \in Nat /\ RxSize \in Nat /\ len = 6 + Len(cells) /\ len \in Nat
      /\ len <= RxSize
  BY <1>3, StashAssumption DEF cells
<1>8. Bytes(s, RxSize) /\ Bytes(s, len)
  BY <1>7 DEF Cellular, Bytes
<1>9. CheckFrame(s, len, RxSize)
  <2>1. (6 + Len(cells)) % SizeMod = 6 + Len(cells)
    BY <1>7, StashAssumption
  <2>2. len >= 6
    BY <1>7
  <2>3. QED BY <1>6, <1>7, <2>1, <2>2 DEF CheckFrame
<1>10. ts = Tlvs(s, 6, Len(cells))
  BY <1>6 DEF TopTlvs
<1>11. /\ ts \in Seq(Found(6 + Len(cells))) /\ Len(ts) = n
       /\ \A i \in 1 .. n : ts[i] = Rec(ps[i], at(i))
  <2>1. 6 \in Nat /\ Bytes(s, 6 + Len(cells))
    BY <1>7, <1>8
  <2> HIDE DEF ts
  <2>2. QED BY <1>2, <1>6, <1>10, <2>1, IterWhole, Zenon DEF cells
<1>12. IsTuple(ts) /\ DOMAIN ts = 1 .. n
  <2> HIDE DEF ts
  <2>1. DOMAIN ts = 1 .. Len(ts) /\ Len(ts) \in Nat
    BY <1>11
  <2>2. QED BY <1>11, <2>1 DEF IsTuple
<1>13. \A i \in 1 .. n : at(i) \in Nat /\ Holds(s, at(i), ps[i]) /\ Bytes(s, at(i) + Len(ps[i]))
  <2>1. \A i \in 1 .. n : Holds(s, at(i), ps[i])
    <3>1. 6 \in Nat /\ Holds(s, 6, FlattenSeq(ps))
      BY <1>6 DEF cells
    <3>2. QED BY <1>2, <3>1, HoldsParts
  <2>2. ASSUME NEW i \in 1 .. n
        PROVE  at(i) \in Nat /\ Bytes(s, at(i) + Len(ps[i]))
    <3> DEFINE l == Len(ps[i])
    <3>1. /\ i - 1 \in 0 .. n /\ i \in 0 .. n /\ n \in i .. n
      BY <1>4
    <3>2. Off(ps, i - 1) \in Nat /\ Off(ps, i) = Off(ps, i - 1) + l /\ Off(ps, i) \in Nat
      BY <1>3, <3>1
    <3>3. Off(ps, i) <= Off(ps, n)
      BY <1>2, <3>1, OffsetsGrow, SMTT(60)
    <3>4. l \in Nat /\ Off(ps, n) \in Nat
      BY <1>3, <1>4, <1>7
    <3> HIDE DEF l
    <3>5. at(i) + l <= len /\ at(i) + l \in Nat /\ at(i) \in Nat
      BY <1>3, <1>7, <3>2, <3>3, <3>4
    <3> HIDE DEF at
    <3>6. Bytes(s, at(i) + l)
      BY <1>7, <1>8, <3>5 DEF Bytes
    <3>7. QED BY <3>5, <3>6 DEF l
  <2>3. QED BY <2>1, <2>2
<1> HIDE DEF at, ts, nds, I
<1>14. \A i \in 1 .. n :
         /\ IsNode(ts[i]) <=> N[i] = "NODE_INFO"
         /\ N[i] \in DOMAIN f => Stands(s, ts[i], N[i], f)
         /\ N[i] \notin DOMAIN f => Passed(ts[i], Checked)
         /\ N[i] = "NODE_INFO" => /\ NodeOK(s, ts[i]) <=> ValidNode(nodes[K[i]])
                                  /\ NodeOf(s, ts[i]) = nodes[K[i]]
  <2>1. ASSUME NEW i \in 1 .. n
        PROVE  /\ IsNode(ts[i]) <=> N[i] = "NODE_INFO"
               /\ N[i] \in DOMAIN f => Stands(s, ts[i], N[i], f)
               /\ N[i] \notin DOMAIN f => Passed(ts[i], Checked)
               /\ N[i] = "NODE_INFO" => /\ NodeOK(s, ts[i]) <=> ValidNode(nodes[K[i]])
                                        /\ NodeOf(s, ts[i]) = nodes[K[i]]
    <3> DEFINE p == ps[i]
               o == N[i]
               k == K[i]
               q == at(i)
    <3>1. IsPart(p, o, k, f, nodes) /\ q \in Nat /\ Holds(s, q, p) /\ Bytes(s, q + Len(p))
      BY <1>5, <1>13
    <3>2. ts[i] = Rec(p, q)
      BY <1>11
    <3> HIDE DEF p, o, k, q
    <3>3. Seen(s, Rec(p, q), o, k, f, nodes)
      BY <3>1, PartSeen
    <3>4. QED BY <3>2, <3>3, Zenon DEF o, k, Seen
  <2>2. QED BY <2>1
<1>15. X \in SUBSET TopLevel /\ TopLevel \in SUBSET Checked /\ Checked \in SUBSET DOMAIN Code
  BY <1>1, CodeNames DEF Used, Checked
<1>16. /\ \A i \in 1 .. n : N[i] \in DOMAIN f => N[i] \in X
       /\ \A o \in X : o \in DOMAIN f /\ \E i \in 1 .. n : N[i] = o
  BY <1>1 DEF Used
<1>17. Shows(s, ts, X, f, Checked)
  <2>1. ASSUME NEW i \in DOMAIN ts
        PROVE  (\E o \in X : Stands(s, ts[i], o, f)) \/ Passed(ts[i], Checked)
    <3>1. i \in 1 .. n
      BY <1>12
    <3>2. CASE N[i] \in DOMAIN f
      <4>1. N[i] \in X /\ Stands(s, ts[i], N[i], f)
        BY <1>14, <1>16, <3>1, <3>2, Zenon
      <4>2. QED BY <4>1, Zenon
    <3>3. CASE N[i] \notin DOMAIN f
      BY <1>14, <3>1, <3>3, Zenon
    <3>4. QED BY <3>2, <3>3, Zenon
  <2>2. ASSUME NEW o \in X
        PROVE  \E i \in DOMAIN ts : Stands(s, ts[i], o, f)
    <3>1. o \in DOMAIN f /\ \E i \in 1 .. n : N[i] = o
      BY <1>16, Zenon
    <3>2. PICK i \in 1 .. n : N[i] = o
      BY <3>1, Zenon
    <3>3. i \in DOMAIN ts
      BY <1>12
    <3>4. N[i] \in DOMAIN f => Stands(s, ts[i], N[i], f)
      BY <1>14, Zenon
    <3>5. Stands(s, ts[i], o, f)
      BY <3>1, <3>2, <3>4, Zenon
    <3>6. QED BY <3>3, <3>5, Zenon
  <2>3. QED BY <1>12, <2>1, <2>2, Zenon DEF Shows
<1>18. Shows(s, ts, X, f, TopLevel)
  <2>1. \A t : Passed(t, Checked) => Passed(t, TopLevel)
    BY <1>15 DEF Passed
  <2>2. QED BY <1>17, <2>1 DEF Shows
<1>19. (\A i \in DOMAIN ts : WellFormed(s, ts[i], Checked)) <=> \A o \in X : GoodOption(o, f)
  <2>1. X \in SUBSET Checked
    BY <1>15
  <2>2. Checked \in SUBSET DOMAIN Code
    BY <1>15
  <2>3. QED BY <1>17, <2>1, <2>2, ShownOptions
<1>20. LastOf(s, ts, TopLevel) = [o \in X |-> MeaningOf(o, f[o])]
  <2>1. TopLevel \in SUBSET DOMAIN Code
    BY <1>15
  <2>2. QED BY <1>15, <1>18, <2>1, ShownOptions
<1>21. I = NodePlaces(N, n)
  BY <1>12, <1>14 DEF NodePlaces, I
<1>22. nds = Pick(ts, I)
  BY DEF nds, I, NodesOf
<1>23. Picked(nds, ts, I, K, n) /\ nds \in Seq(Found(6 + Len(cells)))
  <2>1. ts \in Seq(Found(6 + Len(cells)))
    BY <1>11
  <2>2. Counts(K, I, Len(ts)) /\ K[0] = 0
    BY <1>1, <1>5, <1>11, <1>21
  <2>3. Picked(Pick(ts, I), ts, I, K, Len(ts)) /\ Pick(ts, I) \in Seq(Found(6 + Len(cells)))
    BY <2>1, <2>2, PickCount, PickType
  <2>4. QED BY <1>11, <1>22, <2>3
<1>24. b = K[n]
  BY <1>1
<1>25. Len(nds) = b /\ DOMAIN nds = 1 .. b
  <2>1. DOMAIN nds = 1 .. Len(nds)
    BY <1>23
  <2>2. Len(nds) = b
    BY <1>23, <1>24 DEF Picked
  <2>3. QED BY <2>1, <2>2
<1>26. \A k \in 1 .. b : /\ NodeOK(s, nds[k]) <=> ValidNode(nodes[k])
                         /\ NodeOf(s, nds[k]) = nodes[k]
  <2>1. ASSUME NEW k \in 1 .. b
        PROVE  (NodeOK(s, nds[k]) <=> ValidNode(nodes[k])) /\ NodeOf(s, nds[k]) = nodes[k]
    <3>1. PICK j \in 1 .. n : j \in I /\ K[j] = k
      BY <1>23, <1>24 DEF Picked
    <3>2. nds[K[j]] = ts[j]
      BY <1>23, <3>1 DEF Picked
    <3>3. nds[k] = ts[j] /\ N[j] = "NODE_INFO"
      BY <1>21, <3>1, <3>2 DEF NodePlaces
    <3>4. (NodeOK(s, ts[j]) <=> ValidNode(nodes[K[j]])) /\ NodeOf(s, ts[j]) = nodes[K[j]]
      BY <1>14, <3>3
    <3>5. QED BY <3>1, <3>3, <3>4
  <2>2. QED BY <2>1
<1>27. Refuses(s, ts, nds) <=> ~Acceptable(X, b, f, nodes)
  <2>1. TooMany(nds) <=> ~(b <= MaxNodes)
    <3>1. b \in Nat /\ MaxNodes \in Nat
      BY <1>4, <1>5, <1>24, SizesAssumption DEF Counts
    <3>2. QED BY <1>25, <3>1 DEF TooMany
  <2>2. (\E i \in DOMAIN nds : ~NodeOK(s, nds[i])) <=> ~(\A k \in 1 .. b : ValidNode(nodes[k]))
    BY <1>25, <1>26
  <2>3. QED BY <1>19, <2>1, <2>2 DEF Refuses, Acceptable
<1>28. Result(s, ts, nds) = [type |-> type, opts |-> [o \in X |-> MeaningOf(o, f[o])],
                             nodes |-> [k \in 1 .. b |-> nodes[k]]]
  <2>1. TypeName(Get(s, 0, 2)) = type
    BY <1>6, TypeCodes
  <2>2. [i \in DOMAIN nds |-> NodeOf(s, nds[i])] = [k \in 1 .. b |-> nodes[k]]
    BY <1>25, <1>26
  <2>3. QED BY <1>20, <2>1, <2>2 DEF Result
<1>29. Decode(s, len, RxSize) =
         IF Refuses(s, ts, nds) THEN Rejected ELSE Result(s, ts, nds)
  BY <1>9, DecodeDef DEF ts, nds
<1>30. QED BY <1>27, <1>28, <1>29 DEF Outcome

LEMMA KeptFacts ==
    ASSUME NEW m, Meant(m)
    PROVE  /\ Plain(Kept(m)) /\ DOMAIN Kept(m) = KeptNames(m)
           /\ KeptNames(m) \subseteq TopLevel /\ KeptNames(m) \subseteq DOMAIN m.opts
           /\ \A o \in KeptNames(m) : Kept(m)[o] = m.opts[o]
           /\ \A o \in DOMAIN m.opts \cap Lists : o \in KeptNames(m)
<1>1. Plain(m.opts) /\ DOMAIN m.opts \subseteq TopLevel
  BY DEF Meant
<1>2. /\ DOMAIN Kept(m) = KeptNames(m) /\ KeptNames(m) \subseteq DOMAIN m.opts
      /\ \A o \in KeptNames(m) : Kept(m)[o] = m.opts[o]
      /\ Kept(m) = [o \in KeptNames(m) |-> Kept(m)[o]]
  BY DEF Kept, KeptNames
<1>3. Plain(Kept(m))
  BY <1>1, <1>2 DEF Plain, Filled
<1>4. \A o \in DOMAIN m.opts \cap Lists : o \in KeptNames(m)
  BY DEF KeptNames, Lists
<1>5. QED BY <1>1, <1>2, <1>3, <1>4

LEMMA MeaningFacts ==
    ASSUME NEW m, Meant(m)
    PROVE  Meaning(m) = [type |-> m.type,
                         opts |-> [o \in KeptNames(m) |-> MeaningOf(o, Kept(m)[o])],
                         nodes |-> [k \in 1 .. Len(m.nodes) |-> m.nodes[k]]]
<1> DEFINE g == [o \in KeptNames(m) |->
                   IF o = "TIE_BREAKER" /\ m.opts[o].mode # 3
                   THEN [m.opts[o] EXCEPT !.node = 0] ELSE m.opts[o]]
<1>1. Meaning(m) = [m EXCEPT !.opts = g]
  BY Zenon DEF Meaning, KeptNames
<1>2. g = [o \in KeptNames(m) |-> MeaningOf(o, Kept(m)[o])]
  <2>1. \A o \in KeptNames(m) : MeaningOf(o, Kept(m)[o]) =
          IF o = "TIE_BREAKER" /\ m.opts[o].mode # 3
          THEN [m.opts[o] EXCEPT !.node = 0] ELSE m.opts[o]
    BY KeptFacts DEF MeaningOf
  <2>2. QED BY <2>1
<1> HIDE DEF g
<1>3. m = [type |-> m.type, opts |-> m.opts, nodes |-> m.nodes]
  BY DEF Meant
<1>4. [m EXCEPT !.opts = g] = [type |-> m.type, opts |-> g, nodes |-> m.nodes]
  BY <1>3
<1>5. m.nodes = [k \in 1 .. Len(m.nodes) |-> m.nodes[k]]
  BY DEF Meant
<1>6. QED BY <1>1, <1>2, <1>4, <1>5

LEMMA DecodableFacts ==
    ASSUME NEW m, Meant(m)
    PROVE  Decodable(m) <=> Acceptable(KeptNames(m), Len(m.nodes), Kept(m), m.nodes)
<1>1. DOMAIN Meaning(m).opts = KeptNames(m)
  BY MeaningFacts
<1>2. DOMAIN m.nodes = 1 .. Len(m.nodes)
  BY DEF Meant
<1>3. /\ KeptNames(m) \subseteq DOMAIN m.opts
      /\ \A o \in KeptNames(m) : Kept(m)[o] = m.opts[o]
      /\ \A o \in DOMAIN m.opts \cap Lists : o \in KeptNames(m)
  BY KeptFacts
<1>4. (\A o \in KeptNames(m) : GoodOption(o, Kept(m))) <=>
        /\ \A o \in KeptNames(m) : Valid(o, m.opts[o])
        /\ \A o \in DOMAIN m.opts \cap Lists : Len(m.opts[o]) <= MaxList
  BY <1>3 DEF GoodOption, ListFits
<1>5. QED BY <1>1, <1>2, <1>4, Zenon DEF Decodable, Acceptable

-----------------------------------------------------------------------------
(* A payload that ends early *)

(* Where the cells of the i-th sequence are. *)
LEMMA FlattenCells ==
    ASSUME NEW C, NEW ps \in Seq(Seq(C)), NEW i \in 1 .. Len(ps),
           NEW x \in 1 .. Len(ps[i])
    PROVE  FlattenSeq(ps)[Off(ps, i - 1) + x] = ps[i][x]
<1> DEFINE F == FlattenSeq(ps)
<1>1. F \in Seq(C) /\ \A j \in 0 .. Len(ps) : Off(ps, j) \in Nat
  BY Offsets
<1>2. Holds(F, 0, F)
  <2> HIDE DEF F
  <2>1. \A j \in 1 .. Len(F) : 0 + j = j
    BY <1>1
  <2>2. QED BY <2>1 DEF Holds
<1>3. Holds(F, 0 + Off(ps, i - 1), ps[i])
  <2>1. 0 \in Nat
    OBVIOUS
  <2>2. QED BY <1>2, <2>1, HoldsParts
<1>4. i - 1 \in 0 .. Len(ps)
  OBVIOUS
<1>5. 0 + Off(ps, i - 1) = Off(ps, i - 1)
  <2> DEFINE a == Off(ps, i - 1)
  <2>1. a \in Nat
    BY <1>1, <1>4
  <2> HIDE DEF a
  <2>2. 0 + a = a
    BY <2>1
  <2>3. QED BY <2>2 DEF a
<1>6. QED BY <1>3, <1>5 DEF Holds

HasBad(ts) == \E x \in 1 .. Len(ts) : ts[x].bad

(* An iterator whose end is inside an option finds an error. *)
LEMMA IterBroken ==
    ASSUME NEW ps, AllTlvs(ps), NEW s, NEW at \in Nat, NEW k \in Nat,
           k < Len(FlattenSeq(ps)), Bytes(s, at + k),
           \A j \in 1 .. k : s[at + j] = FlattenSeq(ps)[j],
           \A i \in 0 .. Len(ps) : k # Off(ps, i)
    PROVE  HasBad(Tlvs(s, at, k))
<1> DEFINE n == Len(ps)
           F == FlattenSeq(ps)
           end == at + k
           it == Iter(s, end)
           Good(i) == Off(ps, i) <= k => HasBad(it[at + Off(ps, i)])
           S == {d \in 0 .. n : Good(n - d)}
<1>1. ps \in Seq(Seq(Cell)) /\ \A i \in 1 .. Len(ps) : IsTlv(ps[i])
  BY DEF AllTlvs
<1>2. /\ Off(ps, 0) = 0 /\ Len(F) = Off(ps, n)
      /\ \A i \in 0 .. n : Off(ps, i) \in Nat
      /\ \A i \in 1 .. n : Off(ps, i) = Off(ps, i - 1) + Len(ps[i])
  BY <1>1, Offsets
<1>3. \A i \in 1 .. n : \A x \in 1 .. Len(ps[i]) : F[Off(ps, i - 1) + x] = ps[i][x]
  BY <1>1, FlattenCells
<1>4. n \in Nat
  BY <1>1
<1>5. end \in Nat /\ Bytes(s, end) /\ (\A j \in 1 .. k : s[at + j] = F[j])
      /\ k < Len(F) /\ \A i \in 0 .. n : k # Off(ps, i)
  OBVIOUS
<1> HIDE DEF F, n
<1>6. ASSUME NEW i \in 1 .. n, Good(i) PROVE Good(i - 1)
  <2> DEFINE a == Off(ps, i - 1)
             p == ps[i]
             l == Len(p)
             q == at + a
  <2>1. i - 1 \in 0 .. n /\ i \in 0 .. n
    BY <1>4
  <2>2. a \in Nat /\ Off(ps, i) = a + l /\ Off(ps, i) \in Nat /\ k # a
    BY <1>2, <1>5, <2>1
  <2>3. IsTlv(p) /\ l \in Nat /\ l >= 4
    BY <1>1 DEF n, IsTlv
  <2>4. \A x \in 1 .. l : F[a + x] = p[x]
    BY <1>3
  <2>5. Off(ps, i) <= k => HasBad(it[at + Off(ps, i)])
    BY <1>6
  <2>6. QED
    <3> SUFFICES ASSUME a <= k PROVE HasBad(it[q])
      OBVIOUS
    <3> HIDE DEF a, p, l
    <3>1. a < k /\ q \in Nat /\ q < end
      BY <1>5, <2>2
    <3>2. \A x \in 1 .. l : a + x <= k => s[q + x] = p[x]
      <4>1. ASSUME NEW x \in 1 .. l, a + x <= k PROVE s[q + x] = p[x]
        <5> DEFINE j == a + x
        <5>1. j \in 1 .. k /\ at + j = q + x
          BY <2>2, <2>3, <4>1
        <5>2. F[j] = p[x]
          BY <2>4
        <5> HIDE DEF j, q
        <5>3. s[at + j] = F[j]
          BY <1>5, <5>1
        <5>4. QED BY <5>1, <5>2, <5>3
      <4>2. QED BY <4>1
    <3>3. CASE a + l <= k
      <4> DEFINE y == it[q + l]
      <4>1. Holds(s, q, p)
        <5>1. \A x \in 1 .. l : a + x <= k
          BY <2>2, <2>3, <3>3
        <5>2. QED BY <3>2, <5>1 DEF Holds, l
      <4>2. q + l <= end /\ q + l \in Nat /\ at + Off(ps, i) = q + l
        BY <2>2, <2>3, <3>3
      <4>3. y \in Seq(Found(end))
        <5> HIDE DEF end, q
        <5>1. QED BY <1>5, <4>2, IterType
      <4>4. it[q] = <<Rec(p, q)>> \o y
        <5> HIDE DEF end, q
        <5>1. QED BY <1>5, <2>3, <3>1, <4>1, <4>2, IterPasses DEF l
      <4>5. HasBad(y)
        BY <2>2, <2>5, <3>3, <4>2
      <4> HIDE DEF y, it, q
      <4> DEFINE z == it[q]
                 e == Rec(p, q)
      <4>6. z = <<e>> \o y
        BY <4>4
      <4> HIDE DEF z, e
      <4>7. Len(z) = Len(y) + 1 /\ \A x \in 1 .. Len(y) : z[x + 1] = y[x]
        BY <4>3, <4>6, Prefixed
      <4>8. PICK x \in 1 .. Len(y) : y[x].bad
        BY <4>5 DEF HasBad
      <4>9. z[x + 1].bad
        BY <4>7, <4>8
      <4>10. x + 1 \in 1 .. Len(z)
        <5>1. Len(y) \in Nat
          BY <4>3
        <5>2. QED BY <4>7, <5>1
      <4>11. HasBad(z)
        BY <4>9, <4>10 DEF HasBad
      <4>12. QED BY <4>11 DEF z
    <3>4. CASE ~(a + l <= k)
      <4>1. it[q] = IterStep(s, end, it, q)
        <5> HIDE DEF end, q
        <5>1. QED BY <1>5, <3>1, IterDef
      <4>2. ~AtEnd(q, end)
        BY <1>5, <3>1 DEF AtEnd
      <4>3. q + 4 > end \/ After(s, q) > end
        <5>1. ASSUME ~(q + 4 > end) PROVE After(s, q) > end
          <6>1. \A x \in 1 .. 4 : x \in 1 .. l /\ a + x <= k
            BY <1>5, <2>2, <2>3, <5>1
          <6>2. \A x \in 1 .. 4 : s[q + x] = p[x]
            BY <3>2, <6>1
          <6>3. After(s, q) = q + l
            <7> HIDE DEF q
            <7>1. QED BY <2>3, <3>1, <6>2, TlvIsRec DEF l
          <6>4. q + l > end
            BY <1>5, <2>2, <2>3, <3>4
          <6>5. QED BY <6>3, <6>4
        <5>2. QED BY <5>1
      <4> HIDE DEF it, q, end
      <4>4. it[q] = <<Broken>>
        BY <4>1, <4>2, <4>3 DEF IterStep
      <4>5. Len(it[q]) = 1 /\ it[q][1].bad
        BY <4>4 DEF Broken
      <4>6. QED BY <4>5 DEF HasBad
    <3>5. QED BY <3>3, <3>4
<1> HIDE DEF end, it
<1>7. 0 \in S
  <2>1. n - 0 = n /\ n \in 0 .. n /\ Off(ps, n) \in Nat
    BY <1>2, <1>4
  <2>2. ~(Off(ps, n) <= k)
    BY <1>2, <1>5, <2>1
  <2>3. QED BY <1>4, <2>1, <2>2
<1> HIDE DEF Good
<1>8. ASSUME NEW d \in 0 .. n - 1, d \in S PROVE d + 1 \in S
  <2> DEFINE i == n - d
  <2>1. i \in 1 .. n /\ n - (d + 1) = i - 1 /\ d + 1 \in 0 .. n
    BY <1>4
  <2>2. Good(i)
    BY <1>8
  <2> HIDE DEF i
  <2>3. Good(i - 1)
    BY <1>6, <2>1, <2>2
  <2>4. QED BY <2>1, <2>3
<1>9. 0 .. n \subseteq S
  <2> HIDE DEF S
  <2>1. QED BY <1>4, <1>7, <1>8, UpTo
<1>10. Good(0)
  <2>1. n \in 0 .. n /\ n - n = 0
    BY <1>4
  <2>2. QED BY <1>9, <2>1
<1>11. HasBad(it[at])
  <2>1. Off(ps, 0) <= k /\ at + Off(ps, 0) = at
    BY <1>2
  <2>2. QED BY <1>10, <2>1 DEF Good
<1>12. QED BY <1>11 DEF it, end, Tlvs

LEMMA CountGrows ==
    ASSUME NEW n \in Nat, NEW I, NEW K, Counts(K, I, n)
    PROVE  K[0] <= K[n] /\ K[0] \in Nat /\ K[n] \in Nat
<1> DEFINE S == {i \in 0 .. n : K[0] <= K[i]}
<1>1. /\ \A i \in 0 .. n : K[i] \in Nat
      /\ \A i \in 0 .. n - 1 : K[i + 1] = IF i + 1 \in I THEN K[i] + 1 ELSE K[i]
  BY DEF Counts
<1>2. 0 \in S
  BY <1>1
<1>3. ASSUME NEW i \in 0 .. n - 1, i \in S PROVE i + 1 \in S
  <2>1. /\ K[i] \in Nat /\ i + 1 \in 0 .. n /\ K[0] <= K[i] /\ K[0] \in Nat
        /\ (K[i + 1] = K[i] + 1 \/ K[i + 1] = K[i])
    BY <1>1, <1>3
  <2>2. QED BY <2>1
<1>4. 0 .. n \subseteq S
  <2> HIDE DEF S
  <2>1. QED BY <1>2, <1>3, UpTo
<1>5. QED BY <1>1, <1>4

(* The first i options, out of everything put together. *)
LEMMA FirstPrefix ==
    ASSUME NEW C, NEW ps \in Seq(Seq(C)), NEW i \in 0 .. Len(ps)
    PROVE  SubSeq(FlattenSeq(ps), 1, Off(ps, i)) = First(ps, i)
<1> DEFINE F == FlattenSeq(ps)
           n == Len(ps)
           S == {d \in 0 .. n : \A x \in 1 .. Off(ps, n - d) :
                                  F[x] = First(ps, n - d)[x]}
<1>1. n \in Nat /\ \A j \in 1 .. n : ps[j] \in Seq(C)
  OBVIOUS
<1>2. /\ First(ps, n) = F
      /\ \A j \in 0 .. n : First(ps, j) \in Seq(C)
      /\ \A j \in 1 .. n : First(ps, j) = First(ps, j - 1) \o ps[j]
  BY FirstFacts
<1>3. F \in Seq(C) /\ \A j \in 0 .. n : Off(ps, j) \in Nat
  BY Offsets
<1>4. Off(ps, i) <= Len(F) /\ Len(F) = Off(ps, n)
  <2>1. n \in i .. n
    BY <1>1
  <2>2. QED BY <2>1, OffsetsGrow, Offsets
<1> HIDE DEF F, n
<1>5. 0 \in S
  <2>1. n - 0 = n
    BY <1>1
  <2>2. QED BY <1>1, <1>2, <2>1
<1>6. ASSUME NEW d \in 0 .. n - 1, d \in S PROVE d + 1 \in S
  <2> DEFINE j == n - d
             a == First(ps, j - 1)
             b == ps[j]
  <2>1. j \in 1 .. n /\ n - (d + 1) = j - 1 /\ d + 1 \in 0 .. n /\ j - 1 \in 0 .. n
    BY <1>1
  <2>2. \A x \in 1 .. Off(ps, j) : F[x] = First(ps, j)[x]
    BY <1>6
  <2> HIDE DEF j
  <2>3. a \in Seq(C) /\ b \in Seq(C) /\ First(ps, j) = a \o b
    BY <1>1, <1>2, <2>1
  <2> HIDE DEF a, b
  <2>4. /\ Len(a \o b) = Len(a) + Len(b) /\ Len(a) \in Nat /\ Len(b) \in Nat
        /\ \A x \in 1 .. Len(a) + Len(b) :
             (a \o b)[x] = IF x <= Len(a) THEN a[x] ELSE b[x - Len(a)]
    BY <2>3, ConcatProperties
  <2>5. Off(ps, j) = Len(a) + Len(b) /\ Off(ps, j - 1) = Len(a)
    BY <2>3, <2>4 DEF Off, a
  <2>6. ASSUME NEW x \in 1 .. Len(a) PROVE F[x] = a[x]
    <3>1. x \in 1 .. Len(a) + Len(b) /\ x <= Len(a)
      BY <2>4
    <3>2. x \in 1 .. Off(ps, j) /\ (a \o b)[x] = a[x]
      BY <2>4, <2>5, <3>1
    <3>3. QED BY <2>2, <2>3, <3>2
  <2>7. \A x \in 1 .. Off(ps, j - 1) : F[x] = First(ps, j - 1)[x]
    BY <2>5, <2>6 DEF a
  <2>8. QED BY <2>1, <2>7
<1>7. 0 .. n \subseteq S
  <2> HIDE DEF S
  <2>1. QED BY <1>1, <1>5, <1>6, UpTo
<1>8. \A x \in 1 .. Off(ps, i) : F[x] = First(ps, i)[x]
  <2> DEFINE d == n - i
  <2>1. d \in 0 .. n /\ n - d = i
    BY <1>1 DEF n
  <2> HIDE DEF d
  <2>2. QED BY <1>7, <2>1
<1>9. First(ps, i) \in Seq(C) /\ Len(First(ps, i)) = Off(ps, i) /\ Off(ps, i) \in Nat
  BY <1>2, <1>3 DEF Off, n
<1> DEFINE a == First(ps, i)
           c == SubSeq(F, 1, Off(ps, i))
           l == Off(ps, i)
<1>10. c \in Seq(C) /\ Len(c) = l /\ \A x \in 1 .. l : c[x] = F[x]
  <2>1. l \in 0 .. Len(F)
    BY <1>3, <1>4, <1>9
  <2> HIDE DEF l
  <2>2. SubSeq(F, 1, l) \in Seq(C) /\ Len(SubSeq(F, 1, l)) = l
        /\ \A x \in 1 .. l : SubSeq(F, 1, l)[x] = F[x]
    BY <1>3, <2>1
  <2>3. QED BY <2>2 DEF l
<1>11. c = a
  <2>1. Len(a) = l /\ a \in Seq(C) /\ \A x \in 1 .. l : a[x] = F[x]
    BY <1>8, <1>9
  <2> HIDE DEF a, c, l
  <2>2. QED BY <1>10, <2>1
<1>12. QED BY <1>11 DEF F

(* The frame of a payload that ends inside an option is rejected. *)
LEMMA CutInside ==
    ASSUME NEW m, IsMessage(m), NEW s, NEW len, Sound(s, len),
           NEW k \in 0 .. Len(Payload(m)) - 1,
           Begins(s, TypeCode[m.type], SubSeq(Payload(m), 1, k)), len = 6 + k,
           \A i \in 0 .. Len(Parts(m)) : k # Off(Parts(m), i)
    PROVE  Decode(s, len, RxSize) = Rejected
<1> DEFINE ps == Parts(m)
           F == FlattenSeq(ps)
           p == SubSeq(F, 1, k)
           ts == TopTlvs(s)
<1>1. AllTlvs(ps) /\ F \in Seq(Cell)
  BY PayloadFacts DEF Payload
<1>2. k \in 0 .. Len(F) - 1 /\ Get(s, 2, 4) = Len(p) /\ Holds(s, 6, p)
  BY DEF Payload, Begins
<1> HIDE DEF ps, F
<1>3. k \in Nat /\ k < Len(F) /\ Len(F) \in Nat
  BY <1>1, <1>2
<1>4. Len(p) = k /\ \A j \in 1 .. k : p[j] = F[j]
  BY <1>1, <1>3
<1> HIDE DEF p
<1>5. Bytes(s, 6 + k)
  BY <1>3, StashAssumption DEF Sound, Bytes
<1>6. \A j \in 1 .. k : s[6 + j] = F[j]
  BY <1>2, <1>4 DEF Holds
<1>7. HasBad(Tlvs(s, 6, k))
  <2>1. 6 \in Nat /\ \A i \in 0 .. Len(ps) : k # Off(ps, i)
    BY DEF ps
  <2>2. QED BY <1>1, <1>3, <1>5, <1>6, <2>1, IterBroken DEF F
<1>8. ts = Tlvs(s, 6, k)
  BY <1>2, <1>4 DEF TopTlvs
<1>9. PICK x \in 1 .. Len(ts) : ts[x].bad
  BY <1>7, <1>8 DEF HasBad
<1>10. ASSUME CheckFrame(s, len, RxSize) PROVE Refuses(s, ts, NodesOf(ts))
  <2>1. ts \in Seq(Found(6 + Get(s, 2, 4)))
    BY <1>10, TopType
  <2> HIDE DEF ts
  <2>2. x \in DOMAIN ts
    BY <2>1
  <2>3. ~WellFormed(s, ts[x], Checked)
    BY <1>9 DEF WellFormed
  <2>4. QED BY <2>2, <2>3 DEF Refuses
<1>11. QED BY <1>10, DecodeDef DEF ts

(* The frame of the first i parts of m: a part of m, or nothing. *)
LEMMA CutBetween ==
    ASSUME NEW m, IsMessage(m), NEW s, NEW len, Cellular(s), len <= RxSize,
           NEW i \in 0 .. Len(Parts(m)),
           Begins(s, TypeCode[m.type], First(Parts(m), i)),
           len = 6 + Off(Parts(m), i), NEW r, r = Decode(s, len, RxSize), r # Rejected
    PROVE  Restriction(r.opts, Meaning(m).opts) /\ IsPrefix(r.nodes, m.nodes)
<1> DEFINE ps == Parts(m)
           qs == SubSeq(ps, 1, i)
           f == Kept(m)
           X == KeptNames(m)
           nodes == m.nodes
           type == m.type
           g == [o \in X |-> MeaningOf(o, f[o])]
<1>1. Made(ps, 0, Len(nodes), X, f, nodes)
  BY PartsMade
<1>2. Meant(m)
  BY MessageMeant
<1>3. Plain(f) /\ DOMAIN f \subseteq TopLevel /\ DOMAIN f = X
  BY <1>2, KeptFacts
<1>4. /\ type \in DOMAIN TypeCode /\ NodeValues(nodes) /\ Len(nodes) \in Nat
      /\ nodes = [k \in 1 .. Len(nodes) |-> nodes[k]]
  BY <1>2 DEF Meant
<1>5. Meaning(m).opts = g
  BY <1>2, MeaningFacts
<1>6. First(ps, i) = FlattenSeq(qs) /\ Off(ps, i) = Len(FlattenSeq(qs))
  BY DEF First, Off
<1>7. /\ Begins(s, TypeCode[type], FlattenSeq(qs)) /\ len = 6 + Len(FlattenSeq(qs))
  BY <1>6
<1> HIDE DEF ps, f, X, nodes, type
<1>8. i \in 0 .. Len(ps)
  BY DEF ps
<1>9. PICK b, Y, Z : /\ Made(qs, 0, b, Y, f, nodes)
                     /\ Made(SubSeq(ps, i + 1, Len(ps)), b, Len(nodes), Z, f, nodes)
                     /\ X = Y \cup Z /\ b \in Nat
  BY <1>1, <1>8, MadeSplit
<1> HIDE DEF qs
<1>10. Decode(s, len, RxSize) = Outcome(type, Y, b, f, nodes)
  BY <1>3, <1>4, <1>7, <1>9, DecodeMade
<1>11. r = [type |-> type, opts |-> [o \in Y |-> MeaningOf(o, f[o])],
            nodes |-> [k \in 1 .. b |-> nodes[k]]]
  BY <1>10, Zenon DEF Outcome
<1>12. b <= Len(nodes)
  <2> DEFINE z == SubSeq(ps, i + 1, Len(ps))
  <2>1. PICK N, K : Named(z, N, K, f, nodes) /\ K[0] = b /\ K[Len(z)] = Len(nodes)
    BY <1>9 DEF Made
  <2> HIDE DEF z
  <2>2. Counts(K, NodePlaces(N, Len(z)), Len(z)) /\ Len(z) \in Nat
    BY <2>1 DEF Named
  <2>3. K[0] <= K[Len(z)]
    BY <2>2, CountGrows
  <2>4. QED BY <2>1, <2>3
<1>13. Restriction(r.opts, g)
  <2>1. r.opts = [o \in Y |-> MeaningOf(o, f[o])]
    BY <1>11
  <2>2. Y \subseteq X
    BY <1>9
  <2>3. QED BY <2>1, <2>2 DEF Restriction
<1>14. IsPrefix(r.nodes, nodes)
  <2> DEFINE a == [k \in 1 .. b |-> nodes[k]]
             W == {nodes[k] : k \in 1 .. Len(nodes)}
             y == [o \in Y |-> MeaningOf(o, f[o])]
  <2>1. r.nodes = a
    <3>1. r = [type |-> type, opts |-> y, nodes |-> a]
      BY <1>11
    <3> HIDE DEF y, a
    <3>2. QED BY <3>1
  <2>2. nodes \in Seq(W)
    BY <1>4
  <2>3. b \in Nat /\ \A k \in 1 .. b : nodes[k] \in W
    BY <1>4, <1>9, <1>12
  <2> HIDE DEF W
  <2>4. a \in Seq(W) /\ Len(a) = b /\ \A k \in 1 .. b : a[k] = nodes[k]
    BY <2>3
  <2> HIDE DEF a
  <2>5. SubSeq(a, 1, b) = SubSeq(nodes, 1, b)
    BY <1>4, <1>9, <1>12, <2>2, <2>4
  <2>6. IsPrefix(a, nodes)
    BY <1>4, <1>9, <1>12, <2>4, <2>5 DEF IsPrefix
  <2>7. QED BY <2>1, <2>6
<1>15. QED BY <1>5, <1>13, <1>14 DEF nodes

-----------------------------------------------------------------------------
(* The inductive invariant *)

(* m was cut off after k cells of its payload. *)
CutOff(m, s, len) ==
    /\ IsMessage(m)
    /\ \E k \in 0 .. Len(Payload(m)) - 1 :
         Begins(s, TypeCode[m.type], SubSeq(Payload(m), 1, k)) /\ len = 6 + k

Decoded == Sound(stash, flen) /\ got = Decode(stash, flen, RxSize)

CodecInv ==
    /\ Cellular(stash)
    /\ how \in {"IDLE", "REFUSED"} => got = Rejected
    /\ how \notin {"IDLE", "REFUSED"} => Decoded
    /\ how \in {"WHOLE", "NEWER", "ECHOED"} => Meant(sent) /\ Carried(sent, stash, flen)
    /\ how = "CUT" => CutOff(sent, stash, flen)

LEMMA MessageCode ==
    ASSUME NEW m, IsMessage(m)
    PROVE  TypeCode[m.type] \in Number(2)
BY MessageFacts, TypeCodes

LEMMA InitInv == Init => CodecInv
<1> SUFFICES ASSUME Init PROVE CodecInv
  OBVIOUS
<1>1. Cellular(Blank)
  <2>1. 0 \in Cell /\ RxSize \in Nat
    BY Bases, StashAssumption DEF Cell
  <2>2. QED BY <2>1 DEF Blank, Cellular
<1>2. ASSUME NEW m \in Earlier
      PROVE  Cellular(Over(Blank, Frame(TypeCode[m.type], Payload(m))))
  <2> DEFINE c == TypeCode[m.type]
             p == Payload(m)
  <2>1. IsMessage(m) /\ 6 + Len(p) <= RxSize
    BY MessagesAssumption DEF Payload
  <2>2. p \in Seq(Cell) /\ c \in Number(2)
    BY <2>1, PayloadFacts, MessageCode
  <2> HIDE DEF c, p
  <2>3. Frame(c, p) \in Seq(Cell) /\ Len(Frame(c, p)) = 6 + Len(p)
    BY <2>1, <2>2, FrameFacts
  <2>4. QED BY <1>1, <2>1, <2>3, OverFacts DEF c, p
<1>3. Cellular(stash)
  BY <1>1, <1>2 DEF Init
<1>4. how = "IDLE" /\ got = Rejected
  BY DEF Init
<1>5. QED BY <1>3, <1>4 DEF CodecInv

(* A frame of m with this payload is received whole. *)
LEMMA WholeFacts ==
    ASSUME Cellular(stash), NEW m, IsMessage(m), NEW payload \in Seq(Cell), NEW what,
           Whole(m, payload, what)
    PROVE  /\ Cellular(stash') /\ Decoded' /\ sent' = m /\ how' = what
           /\ flen' = 6 + Len(payload)
           /\ Begins(stash', TypeCode[m.type], payload)
<1> DEFINE c == TypeCode[m.type]
           n == 6 + Len(payload)
<1>1. c \in Number(2)
  BY MessageCode
<1>2. Len(Frame(c, payload)) = n /\ n \in 0 .. 6 + Len(payload)
  BY <1>1, FrameLength
<1>3. Receive(m, Frame(c, payload), n, what)
  <2>1. Receive(m, Frame(c, payload), Len(Frame(c, payload)), what)
    BY DEF Whole
  <2>2. QED BY <1>2, <2>1
<1> HIDE DEF c
<1>4. /\ Cellular(stash') /\ Sound(stash', flen')
      /\ got' = Decode(stash', flen', RxSize)
      /\ sent' = m /\ how' = what /\ flen' = n
      /\ n = 6 + Len(payload) => Begins(stash', c, payload)
  BY <1>1, <1>2, <1>3, ReceiveFrame
<1>5. QED BY <1>4 DEF Decoded, c

(* An option that is not known, put anywhere between the options of m. *)
LEMMA NewerMade ==
    ASSUME NEW m, IsMessage(m), NEW i \in 1 .. Len(Parts(m)) + 1, NEW u \in Unknown
    PROVE  Made(InsertAt(Parts(m), i, Tlv(u.code, u.val)), 0, Len(m.nodes),
                KeptNames(m), Kept(m), m.nodes)
<1> DEFINE ps == Parts(m)
           f == Kept(m)
           nodes == m.nodes
           k == i - 1
           a == SubSeq(ps, 1, k)
           t == <<Tlv(u.code, u.val)>>
           r == SubSeq(ps, k + 1, Len(ps))
<1>1. Made(ps, 0, Len(nodes), KeptNames(m), f, nodes)
  BY PartsMade
<1>2. Plain(f) /\ NodeValues(nodes)
  BY MessageFacts
<1>3. Len(ps) \in Nat
  BY PayloadFacts
<1>4. InsertAt(ps, i, Tlv(u.code, u.val)) = (a \o t) \o r
  <2>1. k + 1 = i
    BY <1>3
  <2>2. QED BY <2>1 DEF InsertAt
<1> HIDE DEF ps, f, nodes
<1>5. k \in 0 .. Len(ps)
  BY <1>3 DEF ps
<1> HIDE DEF k
<1>6. PICK b, Y, Z : /\ Made(a, 0, b, Y, f, nodes)
                     /\ Made(r, b, Len(nodes), Z, f, nodes)
                     /\ KeptNames(m) = Y \cup Z /\ b \in Nat
  BY <1>1, <1>5, MadeSplit
<1> HIDE DEF a, r
<1>7. Made(t, b, b, {}, f, nodes)
  BY <1>2, <1>6, MadeUnknown
<1> HIDE DEF t
<1>8. Made(a \o t, 0, b, Y \cup {}, f, nodes)
  BY <1>6, <1>7, MadeJoin
<1>9. Made((a \o t) \o r, 0, Len(nodes), (Y \cup {}) \cup Z, f, nodes)
  BY <1>6, <1>8, MadeJoin
<1>10. (Y \cup {}) \cup Z = KeptNames(m)
  BY <1>6
<1>11. QED BY <1>4, <1>9, <1>10 DEF ps, f, nodes

LEMMA NextInv == CodecInv /\ [Next]_vars => CodecInv'
<1> SUFFICES ASSUME CodecInv, [Next]_vars PROVE CodecInv'
  OBVIOUS
<1>0. Cellular(stash)
  BY DEF CodecInv
<1>1. ASSUME NEW m \in Messages, NEW cap \in Caps, Send(m, cap) PROVE CodecInv'
  <2> DEFINE p == Payload(m)
  <2>1. IsMessage(m) /\ cap \in Nat
    BY MessagesAssumption, SizesAssumption
  <2>2. Whole(m, p, "WHOLE")
    <3>1. Build(m, cap).buf = p
      BY <1>1, <2>1, BuildWhole DEF Send
    <3>2. QED BY <1>1, <3>1 DEF Send
  <2>3. p \in Seq(Cell)
    BY <2>1, PayloadFacts
  <2>4. /\ Cellular(stash') /\ Decoded' /\ sent' = m /\ how' = "WHOLE"
        /\ flen' = 6 + Len(p) /\ Begins(stash', TypeCode[m.type], p)
    <3> HIDE DEF p
    <3>1. QED BY <1>0, <2>1, <2>2, <2>3, WholeFacts
  <2>5. Made(Parts(m), 0, Len(m.nodes), KeptNames(m), Kept(m), m.nodes)
    BY <2>1, PartsMade
  <2>6. Carried(m, stash', flen')
    BY <2>4, <2>5 DEF Carried, Payload
  <2>7. Meant(m)
    BY <2>1, MessageMeant
  <2>8. QED BY <2>4, <2>6, <2>7 DEF CodecInv
<1>2. ASSUME NEW m \in Messages, NEW cap \in Caps, SendFails(m, cap) PROVE CodecInv'
  <2>1. stash' = stash /\ got' = got /\ how' = "REFUSED" /\ how = "IDLE"
    BY <1>2 DEF SendFails
  <2>2. QED BY <2>1 DEF CodecInv
<1>3. ASSUME NEW m \in Messages, NEW u \in Unknown, NEW i \in 1 .. Len(Parts(m)) + 1,
             SendNewer(m, i, u)
      PROVE  CodecInv'
  <2> DEFINE ps == InsertAt(Parts(m), i, Tlv(u.code, u.val))
             p == FlattenSeq(ps)
  <2>1. IsMessage(m)
    BY MessagesAssumption
  <2>2. Made(ps, 0, Len(m.nodes), KeptNames(m), Kept(m), m.nodes)
    BY <2>1, NewerMade
  <2>3. Plain(Kept(m)) /\ NodeValues(m.nodes)
    BY <2>1, MessageFacts
  <2>4. Whole(m, p, "NEWER")
    BY <1>3 DEF SendNewer
  <2> HIDE DEF ps
  <2>5. ps \in Seq(Seq(Cell))
    BY <2>2, <2>3, MadeTlvs
  <2>6. p \in Seq(Cell)
    BY <2>5, Offsets
  <2>7. /\ Cellular(stash') /\ Decoded' /\ sent' = m /\ how' = "NEWER"
        /\ flen' = 6 + Len(p) /\ Begins(stash', TypeCode[m.type], p)
    <3> HIDE DEF p
    <3>1. QED BY <1>0, <2>1, <2>4, <2>6, WholeFacts
  <2>8. Carried(m, stash', flen')
    BY <2>2, <2>7 DEF Carried
  <2>9. Meant(m)
    BY <2>1, MessageMeant
  <2>10. QED BY <2>7, <2>8, <2>9 DEF CodecInv
<1>4. ASSUME NEW m \in Messages, NEW k \in 0 .. Len(Payload(m)) - 1, SendCut(m, k)
      PROVE  CodecInv'
  <2> DEFINE w == Payload(m)
             p == SubSeq(w, 1, k)
  <2>1. IsMessage(m)
    BY MessagesAssumption
  <2>2. w \in Seq(Cell)
    BY <2>1, PayloadFacts
  <2>3. Whole(m, p, "CUT")
    BY <1>4 DEF SendCut
  <2>4. k \in 0 .. Len(w) - 1
    OBVIOUS
  <2> HIDE DEF w
  <2>5. p \in Seq(Cell) /\ Len(p) = k
    BY <2>2, <2>4
  <2>6. /\ Cellular(stash') /\ Decoded' /\ sent' = m /\ how' = "CUT"
        /\ flen' = 6 + Len(p) /\ Begins(stash', TypeCode[m.type], p)
    <3> HIDE DEF p
    <3>1. QED BY <1>0, <2>1, <2>3, <2>5, WholeFacts
  <2>7. CutOff(m, stash', flen')
    BY <2>1, <2>4, <2>5, <2>6 DEF CutOff, w
  <2>8. QED BY <2>6, <2>7 DEF CodecInv
<1>5. ASSUME NEW m \in Messages, NEW c \in Noise, NEW i \in 1 .. Len(Payload(m)),
             SendNoisy(m, i, c)
      PROVE  CodecInv'
  <2> DEFINE w == Payload(m)
             p == [w EXCEPT ![i] = c]
  <2>1. IsMessage(m) /\ c \in Cell
    BY MessagesAssumption, UnknownAssumption
  <2>2. w \in Seq(Cell)
    BY <2>1, PayloadFacts
  <2>3. Whole(m, p, "NOISY")
    BY <1>5 DEF SendNoisy
  <2>a. i \in 1 .. Len(w)
    OBVIOUS
  <2> HIDE DEF w
  <2>4. p \in Seq(Cell)
    BY <2>1, <2>2, <2>a
  <2>5. Cellular(stash') /\ Decoded' /\ how' = "NOISY"
    <3> HIDE DEF p
    <3>1. QED BY <1>0, <2>1, <2>3, <2>4, WholeFacts
  <2>6. QED BY <2>5 DEF CodecInv
<1>6. ASSUME NEW m \in Messages, NEW n \in 0 .. 5 + Len(Payload(m)), DecodeEarly(m, n)
      PROVE  CodecInv'
  <2> DEFINE c == TypeCode[m.type]
             p == Payload(m)
  <2>1. IsMessage(m)
    BY MessagesAssumption
  <2>2. p \in Seq(Cell) /\ c \in Number(2)
    BY <2>1, PayloadFacts, MessageCode
  <2>3. Receive(m, Frame(c, p), n, "EARLY")
    BY <1>6 DEF DecodeEarly
  <2>a. n \in 0 .. 5 + Len(p)
    OBVIOUS
  <2> HIDE DEF c, p
  <2>4. n \in 0 .. 6 + Len(p)
    <3>1. Len(p) \in Nat
      BY <2>2
    <3>2. QED BY <2>a, <3>1
  <2>5. /\ Cellular(stash') /\ Sound(stash', flen') /\ how' = "EARLY"
        /\ got' = Decode(stash', flen', RxSize)
    BY <1>0, <2>2, <2>3, <2>4, ReceiveFrame
  <2>6. QED BY <2>5 DEF CodecInv, Decoded
<1>7. ASSUME NEW cap \in Caps, Echo(cap) PROVE CodecInv'
  <2> DEFINE m == [sent EXCEPT !.type = "ECHO_REPLY"]
  <2>1. /\ how \in {"WHOLE", "NEWER"} /\ sent.type = "ECHO_REQUEST"
    BY <1>7 DEF Echo, Echoed
  <2>2. Decoded /\ Meant(sent) /\ Carried(sent, stash, flen)
    BY <2>1 DEF CodecInv
  <2>3. /\ Cellular(stash') /\ Sound(stash', flen')
        /\ got' = Decode(stash', flen', RxSize)
        /\ sent' = m /\ how' = "ECHOED" /\ flen' = flen
        /\ \A code, payload :
             Begins(stash, code, payload) /\ payload \in Seq(Cell)
             /\ 6 + Len(payload) = flen
               => Begins(stash', TypeCode["ECHO_REPLY"], payload)
    BY <1>0, <1>7, <2>2, EchoFacts DEF Decoded
  <2>4. m = [type |-> "ECHO_REPLY", opts |-> sent.opts, nodes |-> sent.nodes]
    BY <2>2 DEF Meant
  <2> HIDE DEF m
  <2>5. m.type = "ECHO_REPLY" /\ m.opts = sent.opts /\ m.nodes = sent.nodes
    BY <2>4
  <2>6. Meant(m)
    <3>1. "ECHO_REPLY" \in DOMAIN TypeCode
      BY DEF TypeCode
    <3>2. QED BY <2>2, <2>4, <2>5, <3>1 DEF Meant
  <2>7. KeptNames(m) = KeptNames(sent) /\ Kept(m) = Kept(sent)
    <3>1. KeptNames(m) = KeptNames(sent)
      BY <2>1, <2>5 DEF KeptNames
    <3>2. QED BY <2>5, <3>1 DEF Kept
  <2>8. PICK ps : /\ Made(ps, 0, Len(sent.nodes), KeptNames(sent), Kept(sent), sent.nodes)
                  /\ Begins(stash, TypeCode[sent.type], FlattenSeq(ps))
                  /\ flen = 6 + Len(FlattenSeq(ps))
    BY <2>2 DEF Carried
  <2>9. Plain(Kept(m)) /\ NodeValues(m.nodes)
    <3>1. Plain(m.opts)
      BY <2>6 DEF Meant
    <3>2. QED BY <2>6, <3>1 DEF Meant, Plain, Filled, Kept, KeptNames
  <2>10. FlattenSeq(ps) \in Seq(Cell)
    <3>1. ps \in Seq(Seq(Cell))
      BY <2>5, <2>7, <2>8, <2>9, MadeTlvs
    <3>2. QED BY <3>1, Offsets
  <2>11. Carried(m, stash', flen')
    <3>1. Begins(stash', TypeCode["ECHO_REPLY"], FlattenSeq(ps))
      BY <2>3, <2>8, <2>10
    <3>2. QED BY <2>3, <2>5, <2>7, <2>8, <3>1 DEF Carried
  <2>12. QED BY <2>3, <2>6, <2>11 DEF CodecInv, Decoded
<1>8. ASSUME NEW cap \in Caps, EchoFails(cap) PROVE CodecInv'
  <2>1. stash' = stash /\ got' = Rejected /\ how' = "REFUSED"
    BY <1>8 DEF EchoFails
  <2>2. QED BY <2>1 DEF CodecInv
<1>9. CASE UNCHANGED vars
  BY <1>9 DEF CodecInv, Decoded, vars
<1>10. QED BY <1>1, <1>2, <1>3, <1>4, <1>5, <1>6, <1>7, <1>8, <1>9 DEF Next

LEMMA Always == Spec => []CodecInv
<1>1. QED BY InitInv, NextInv, PTL DEF Spec

-----------------------------------------------------------------------------
(* The theorems *)

(* Whatever arrives, a decoded message has enum values the handlers know,  *)
(* nodes that are not 0, and no more nodes and list entries than the       *)
(* tables behind qesp_msg_decode hold (decode_range, decode_node_info).    *)
THEOREM OnlyInRange == Spec => []DecodedInRange
<1>1. CodecInv => DecodedInRange
  <2> SUFFICES ASSUME CodecInv, got # Rejected PROVE InRange(got)
    BY DEF DecodedInRange
  <2>1. Sound(stash, flen) /\ got = Decode(stash, flen, RxSize)
    BY DEF CodecInv, Decoded
  <2>2. QED BY <2>1, DecodeInRange
<1>2. QED BY <1>1, Always, PTL

(* What is decoded depends on the frame alone, never on what an earlier    *)
(* turn left behind it in the shared stash s_rx (qesp_msg_check,           *)
(* qesp_tlv_iter_next).                                                    *)
THEOREM NothingBehindTheFrame == Spec => []OnlyTheFrame
<1>1. CodecInv => OnlyTheFrame
  <2> SUFFICES ASSUME CodecInv, how \notin {"IDLE", "REFUSED"}
               PROVE  got = Decode(Over(Blank, SubSeq(stash, 1, flen)), flen, RxSize)
    BY DEF OnlyTheFrame
  <2> DEFINE f == SubSeq(stash, 1, flen)
             t == Over(Blank, f)
  <2>1. Sound(stash, flen) /\ got = Decode(stash, flen, RxSize) /\ Cellular(stash)
    BY DEF CodecInv, Decoded
  <2>2. /\ flen \in Nat /\ flen <= RxSize /\ RxSize \in Nat
        /\ stash \in Seq(Cell) /\ Len(stash) = RxSize
    BY <2>1, StashAssumption DEF Sound, Cellular
  <2>3. f \in Seq(Cell) /\ Len(f) = flen /\ \A i \in 1 .. flen : f[i] = stash[i]
    <3>1. flen \in 0 .. Len(stash) /\ stash \in Seq(Cell)
      BY <2>2
    <3>2. QED BY <3>1
  <2> HIDE DEF f
  <2>4. Cellular(Blank)
    <3>1. 0 \in Cell
      BY Bases DEF Cell
    <3>2. QED BY <2>2, <3>1 DEF Blank, Cellular
  <2>5. Cellular(t) /\ Holds(t, 0, f)
    <3>1. Len(f) <= RxSize
      BY <2>2, <2>3
    <3>2. QED BY <2>3, <2>4, <3>1, OverFacts
  <2> HIDE DEF t
  <2>6. Bytes(t, RxSize)
    BY <2>2, <2>5 DEF Cellular, Bytes
  <2>7. Agree(stash, t, flen)
    <3>1. \A i \in 1 .. flen : t[0 + i] = f[i] /\ 0 + i = i
      BY <2>2, <2>3, <2>5 DEF Holds
    <3>2. QED BY <2>3, <3>1 DEF Agree
  <2>8. Decode(stash, flen, RxSize) = Decode(t, flen, RxSize)
    BY <2>1, <2>6, <2>7, DecodeSame
  <2>9. QED BY <2>1, <2>8 DEF t, f
<1>2. QED BY <1>1, Always, PTL

(* What builders complete is decoded to what it means, or rejected if a    *)
(* value is out of range; options that are not known change nothing        *)
(* wherever they stand; an echo carries what the request carried (msg.c    *)
(* builders, qesp_msg_decode, qesp_msg_echo_reply_from).                   *)
THEOREM SentIsDecoded == Spec => []RoundTrip
<1>1. CodecInv => RoundTrip
  <2> SUFFICES ASSUME CodecInv, how \in {"WHOLE", "NEWER", "ECHOED"}
               PROVE  got = IF Decodable(sent) THEN Meaning(sent) ELSE Rejected
    BY DEF RoundTrip
  <2> DEFINE f == Kept(sent)
             X == KeptNames(sent)
             nodes == sent.nodes
             b == Len(nodes)
  <2>1. Cellular(stash) /\ Meant(sent) /\ Carried(sent, stash, flen)
    BY DEF CodecInv
  <2>2. got = Decode(stash, flen, RxSize) /\ flen <= RxSize
    BY DEF CodecInv, Decoded, Sound
  <2>3. PICK ps : /\ Made(ps, 0, b, X, f, nodes)
                  /\ Begins(stash, TypeCode[sent.type], FlattenSeq(ps))
                  /\ flen = 6 + Len(FlattenSeq(ps))
    BY <2>1 DEF Carried
  <2>4. Plain(f) /\ DOMAIN f \subseteq TopLevel
    BY <2>1, KeptFacts
  <2>5. sent.type \in DOMAIN TypeCode /\ NodeValues(nodes)
    BY <2>1 DEF Meant
  <2>6. Acceptable(X, b, f, nodes) <=> Decodable(sent)
    BY <2>1, DecodableFacts
  <2>7. Meaning(sent) = [type |-> sent.type, opts |-> [o \in X |-> MeaningOf(o, f[o])],
                         nodes |-> [k \in 1 .. b |-> nodes[k]]]
    BY <2>1, MeaningFacts
  <2> HIDE DEF f, X, nodes, b
  <2> DEFINE type == sent.type
  <2>a. type \in DOMAIN TypeCode /\ Begins(stash, TypeCode[type], FlattenSeq(ps))
    BY <2>3, <2>5
  <2> HIDE DEF type
  <2>8. Decode(stash, flen, RxSize) = Outcome(type, X, b, f, nodes)
    BY <2>1, <2>2, <2>3, <2>4, <2>5, <2>a, DecodeMade
  <2>9. QED BY <2>2, <2>6, <2>7, <2>8, Zenon DEF Outcome, type
<1>2. QED BY <1>1, Always, PTL

(* A payload that ends early is accepted only if it ends between two       *)
(* options, and then nothing is decoded that was not sent                  *)
(* (qesp_tlv_iter_next, decode_node_info).                                 *)
THEOREM CutIsNoticed == Spec => []CutBetweenOptions
<1>1. CodecInv => CutBetweenOptions
  <2> SUFFICES ASSUME CodecInv, how = "CUT", got # Rejected
               PROVE  /\ \E i \in 0 .. Len(Parts(sent)) :
                           flen = 6 + Len(FlattenSeq(SubSeq(Parts(sent), 1, i)))
                      /\ Restriction(got.opts, Meaning(sent).opts)
                      /\ IsPrefix(got.nodes, sent.nodes)
    BY DEF CutBetweenOptions
  <2> DEFINE ps == Parts(sent)
             F == Payload(sent)
             code == TypeCode[sent.type]
  <2>1. /\ Cellular(stash) /\ Sound(stash, flen) /\ got = Decode(stash, flen, RxSize)
        /\ flen <= RxSize /\ CutOff(sent, stash, flen)
    BY DEF CodecInv, Decoded, Sound
  <2>2. IsMessage(sent)
    BY <2>1 DEF CutOff
  <2>3. PICK k \in 0 .. Len(F) - 1 : Begins(stash, code, SubSeq(F, 1, k)) /\ flen = 6 + k
    BY <2>1 DEF CutOff
  <2>4. PICK i \in 0 .. Len(ps) : k = Off(ps, i)
    BY <2>1, <2>2, <2>3, CutInside
  <2>5. ps \in Seq(Seq(Cell))
    BY <2>2, PayloadFacts
  <2>6. SubSeq(F, 1, Off(ps, i)) = First(ps, i)
    BY <2>4, <2>5, FirstPrefix DEF Payload
  <2>7. Begins(stash, code, First(ps, i)) /\ flen = 6 + Off(ps, i)
    BY <2>3, <2>4, <2>6
  <2>8. Restriction(got.opts, Meaning(sent).opts) /\ IsPrefix(got.nodes, sent.nodes)
    BY <2>1, <2>2, <2>4, <2>7, CutBetween
  <2>9. flen = 6 + Len(FlattenSeq(SubSeq(ps, 1, i)))
    BY <2>7 DEF Off, First
  <2>10. QED BY <2>4, <2>8, <2>9
<1>2. QED BY <1>1, Always, PTL
=============================================================================
