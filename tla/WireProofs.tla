----------------------------- MODULE WireProofs -----------------------------
(***************************************************************************)
(* Whatever is written is read, for values of any number and size that     *)
(* have room in their fields: integers, strings, lists, matches, score     *)
(* frames and bundles of them, packets, and requests of many packets.      *)
(*                                                                         *)
(* What is defined along a sequence or a number is first shown to be what  *)
(* its recursion says (ShiftedIs, NumberIs, UlebIs, FlattenAppend,         *)
(* ReadOnAppend): if there were a number for which a function of 0..n is   *)
(* not, there would be a least one.  Reads(b, t, v) then says that the     *)
(* bytes b are read by the types t as the values v whatever comes after    *)
(* them, and everything that is written is put together by ReadsMore and   *)
(* ReadsFlatten.                                                           *)
(***************************************************************************)
EXTENDS Packets, SequenceTheorems, WellFoundedInduction, TLAPS

-----------------------------------------------------------------------------
(* Numbers: their digits, and the number that has them.                     *)

\* A set of numbers has a least one.
LEMMA LeastNat ==
    ASSUME NEW T \in SUBSET Nat, T # {}
    PROVE  \E n \in T : \A m \in T : n <= m
<1>1. PICK n \in T : \A m \in T : <<m, n>> \notin OpToRel(<, Nat)
    BY NatLessThanWellFounded, WFMin
<1>2. OpToRel(<, Nat) = {p \in Nat \X Nat : p[1] < p[2]}
    BY DEF OpToRel
<1>3. ASSUME NEW m \in T  PROVE n <= m
    <2>1. <<m, n>> \notin {p \in Nat \X Nat : p[1] < p[2]}
        BY <1>1, <1>2, Zenon
    <2>2. m \in Nat /\ n \in Nat /\ <<m, n>> \in Nat \X Nat
        OBVIOUS
    <2>3. ~(m < n)
        BY <2>1, <2>2
    <2>4. QED  BY <2>2, <2>3
<1>4. QED  BY <1>3

\* A function of 0..n, each value from the one before.
Shifts(f, n, m) == f = [j \in 0..m |-> IF j = 0 THEN n ELSE f[j - 1] \div 256]

LEMMA ShiftsExists == ASSUME NEW n, NEW m \in Nat PROVE \E f : Shifts(f, n, m)
<1> DEFINE T == {k \in Nat : ~\E f : Shifts(f, n, k)}
<1> SUFFICES ASSUME T # {}  PROVE FALSE
    OBVIOUS
<1>1. PICK k \in T : \A j \in T : k <= j
    BY LeastNat
<1>2. CASE k = 0
    <2>1. Shifts([j \in 0..0 |-> n], n, 0)
        BY DEF Shifts
    <2>2. QED  BY <1>2, <2>1
<1>3. CASE k # 0
    <2>1. k - 1 \in Nat /\ k - 1 \notin T
        BY <1>1, <1>3
    <2>2. PICK g : Shifts(g, n, k - 1)
        BY <2>1
    <2> DEFINE f == [j \in 0..k |-> IF j = k THEN g[k - 1] \div 256 ELSE g[j]]
    <2>3. f = [j \in 0..k |-> IF j = 0 THEN n ELSE f[j - 1] \div 256]
        BY <2>2, <1>3 DEF Shifts
    <2>4. QED  BY <2>3 DEF Shifts
<1>4. QED  BY <1>2, <1>3

LEMMA ShiftsAgree ==
    ASSUME NEW n, NEW l \in Nat, NEW m \in Nat, NEW f, Shifts(f, n, l), NEW g, Shifts(g, n, m), NEW k \in Nat, k <= l, k <= m
    PROVE  f[k] = g[k]
<1> DEFINE T == {j \in 0..k : f[j] # g[j]}
<1> SUFFICES ASSUME T # {}  PROVE FALSE
    OBVIOUS
<1>1. PICK j \in T : \A i \in T : j <= i
    <2>1. T \in SUBSET Nat
        OBVIOUS
    <2> HIDE DEF T
    <2>2. QED  BY <2>1, LeastNat
<1>2. f[j] # g[j] /\ j \in 0..k
    OBVIOUS
<1>3. f[0] = g[0]
    BY DEF Shifts
<1>4. f[j - 1] = g[j - 1]
    BY <1>1, <1>2, <1>3
<1>5. QED  BY <1>2, <1>3, <1>4 DEF Shifts

\* Each value is the one before without its lowest byte.
LEMMA ShiftedIs ==
    ASSUME NEW n, NEW k \in Nat
    PROVE  Shifted(n, 0) = n /\ Shifted(n, k + 1) = Shifted(n, k) \div 256
<1> DEFINE F(j) == CHOOSE f : Shifts(f, n, j)
<1>1. \A j \in Nat : Shifts(F(j), n, j)
    BY ShiftsExists
<1>2. \A j \in Nat : Shifted(n, j) = F(j)[j]
    BY DEF Shifted, Shifts
<1> HIDE DEF F
<1>3. F(k)[k] = F(k + 1)[k]
    BY <1>1, ShiftsAgree
<1>4. F(0)[0] = n /\ F(k + 1)[k + 1] = F(k + 1)[k] \div 256
    BY <1>1 DEF Shifts
<1>5. QED  BY <1>2, <1>3, <1>4

LEMMA ShiftedInt == ASSUME NEW n \in Int, NEW k \in Nat  PROVE Shifted(n, k) \in Int
<1> DEFINE T == {j \in Nat : Shifted(n, j) \notin Int}
<1> SUFFICES ASSUME T # {}  PROVE FALSE
    OBVIOUS
<1>1. PICK j \in T : \A i \in T : j <= i
    BY LeastNat
<1>2. j # 0
    BY ShiftedIs
<1>3. Shifted(n, j - 1) \in Int
    BY <1>1, <1>2
<1>4. Shifted(n, (j - 1) + 1) = Shifted(n, j - 1) \div 256
    BY <1>2, ShiftedIs
<1>5. QED  BY <1>2, <1>3, <1>4

\* The number that has the digits d, from the highest digit on.
Numbers(f, d, base, n) == f = [k \in 0..n |-> IF k = 0 THEN 0 ELSE d[Len(d) - k + 1] + base * f[k - 1]]

LEMMA NumbersExists == ASSUME NEW d, NEW base, NEW m \in Nat PROVE \E f : Numbers(f, d, base, m)
<1> DEFINE T == {k \in Nat : ~\E f : Numbers(f, d, base, k)}
<1> SUFFICES ASSUME T # {}  PROVE FALSE
    OBVIOUS
<1>1. PICK k \in T : \A j \in T : k <= j
    BY LeastNat
<1>2. CASE k = 0
    <2>1. Numbers([j \in 0..0 |-> 0], d, base, 0)
        BY DEF Numbers
    <2>2. QED  BY <1>2, <2>1
<1>3. CASE k # 0
    <2>1. k - 1 \in Nat /\ k - 1 \notin T
        BY <1>1, <1>3
    <2>2. PICK g : Numbers(g, d, base, k - 1)
        BY <2>1
    <2> DEFINE f == [j \in 0..k |-> IF j = k THEN d[Len(d) - k + 1] + base * g[k - 1] ELSE g[j]]
    <2>3. f = [j \in 0..k |-> IF j = 0 THEN 0 ELSE d[Len(d) - j + 1] + base * f[j - 1]]
        BY <2>2, <1>3 DEF Numbers
    <2>4. QED  BY <2>3 DEF Numbers
<1>4. QED  BY <1>2, <1>3

\* What Number is, for digits of any number.
LEMMA NumberFunction ==
    ASSUME NEW d, NEW base, Len(d) \in Nat
    PROVE  \E f : Numbers(f, d, base, Len(d)) /\ Number(d, base) = f[Len(d)]
<1> DEFINE F == CHOOSE f : Numbers(f, d, base, Len(d))
<1>1. Numbers(F, d, base, Len(d))
    BY NumbersExists
<1>2. Number(d, base) = F[Len(d)]
    BY DEF Number, Numbers
<1>3. QED  BY <1>1, <1>2

\* The digits of whatever numbers are each what is left over by the base.
LEMMA NumberIs ==
    ASSUME NEW d, NEW base \in Nat, Len(d) \in Nat, NEW left \in [1..Len(d) + 1 -> Int], left[Len(d) + 1] = 0,
           \A k \in 1..Len(d) : left[k] = d[k] + base * left[k + 1]
    PROVE  Number(d, base) = left[1]
<1>1. PICK f : Numbers(f, d, base, Len(d)) /\ Number(d, base) = f[Len(d)]
    BY NumberFunction
<1> DEFINE T == {k \in 0..Len(d) : f[k] # left[Len(d) - k + 1]}
<1>2. T = {}
    <2> SUFFICES ASSUME T # {}  PROVE FALSE
        OBVIOUS
    <2>1. PICK k \in T : \A j \in T : k <= j
        <3>1. T \in SUBSET Nat
            OBVIOUS
        <3> HIDE DEF T
        <3>2. QED  BY <3>1, LeastNat
    <2>2. k # 0
        BY <1>1 DEF Numbers
    <2>3. k - 1 \in 0..Len(d)
        BY <2>2
    <2>8. f[k - 1] = left[Len(d) - (k - 1) + 1]
        <3>1. k - 1 \notin T
            <4>1. ~(k <= k - 1)
                OBVIOUS
            <4> HIDE DEF T
            <4>2. QED  BY <2>1, <4>1
        <3>2. QED  BY <3>1, <2>3
    <2>4. f[k] = d[Len(d) - k + 1] + base * f[k - 1]
        BY <1>1, <2>2 DEF Numbers
    <2>5. left[Len(d) - k + 1] = d[Len(d) - k + 1] + base * left[Len(d) - k + 2]
        BY <2>2, SMTT(30)
    <2>6. QED  BY <2>8, <2>4, <2>5
<1>3. f[Len(d)] = left[1]
    BY <1>2
<1>4. QED  BY <1>1, <1>3

-----------------------------------------------------------------------------
(* Integers and uleb128.                                                    *)

\* What is left when the first part is taken or dropped.
LEMMA TakeDrop ==
    ASSUME NEW S, NEW s \in Seq(S), NEW t \in Seq(S)
    PROVE  SubSeq(s \o t, 1, Len(s)) = s /\ Drop(s \o t, Len(s)) = t
<1>1. /\ s \o t \in Seq(S) /\ Len(s \o t) = Len(s) + Len(t) /\ Len(s) \in Nat /\ Len(t) \in Nat
      /\ \A i \in 1 .. Len(s) + Len(t) : (s \o t)[i] = IF i <= Len(s) THEN s[i] ELSE t[i - Len(s)]
    BY ConcatProperties, LenProperties
<1>2. SubSeq(s \o t, 1, Len(s)) = s
    <2>1. /\ SubSeq(s \o t, 1, Len(s)) \in Seq(S)
          /\ Len(SubSeq(s \o t, 1, Len(s))) = IF 1 <= Len(s) THEN Len(s) - 1 + 1 ELSE 0
          /\ \A i \in 1 .. Len(s) - 1 + 1 : SubSeq(s \o t, 1, Len(s))[i] = (s \o t)[1 + i - 1]
        BY <1>1, SubSeqProperties, ElementOfSeq
    <2>2. QED  BY <1>1, <2>1, SeqEqual
<1>3. SubSeq(s \o t, Len(s) + 1, Len(s \o t)) = t
    <2> DEFINE u == SubSeq(s \o t, Len(s) + 1, Len(s \o t))
    <2>1. \A i \in Len(s) + 1 .. Len(s \o t) : (s \o t)[i] \in S
        BY <1>1, ElementOfSeq
    <2>2. /\ u \in Seq(S)
          /\ Len(u) = IF Len(s) + 1 <= Len(s \o t) THEN Len(s \o t) - (Len(s) + 1) + 1 ELSE 0
          /\ \A i \in 1 .. Len(s \o t) - (Len(s) + 1) + 1 : u[i] = (s \o t)[Len(s) + 1 + i - 1]
        BY <1>1, <2>1, SubSeqProperties
    <2>3. Len(u) = Len(t)
        BY <1>1, <2>2
    <2>4. \A i \in 1..Len(u) : u[i] = t[i]
        BY <1>1, <2>2
    <2> HIDE DEF u
    <2>5. u = t
        BY <2>2, <2>3, <2>4, SeqEqual
    <2>6. QED  BY <2>5 DEF u
<1>4. QED  BY <1>2, <1>3 DEF Drop

-----------------------------------------------------------------------------

\* As many bytes are written as the field is wide.
LEMMA WriteIntSeq ==
    ASSUME NEW n \in Int, NEW width \in Nat
    PROVE  WriteInt(n, width) \in Seq(Byte) /\ Len(WriteInt(n, width)) = width /\ DOMAIN WriteInt(n, width) = 1..width
<1>1. ASSUME NEW k \in 1..width  PROVE Shifted(n, k - 1) % 256 \in Byte
    <2>1. Shifted(n, k - 1) \in Int
        BY ShiftedInt
    <2>2. QED  BY <2>1 DEF Byte
<1>2. WriteInt(n, width) \in [1..width -> Byte]
    BY <1>1 DEF WriteInt
<1>3. QED  BY <1>2, SeqDef

\* An integer that fits is read as it was written.
LEMMA IntIsRead ==
    ASSUME NEW n \in Int, NEW width \in Nat \ {0}, NEW signed \in BOOLEAN,
           Shifted(n, width - 1) \in (IF signed THEN -128..127 ELSE Byte)
    PROVE  ReadInt(WriteInt(n, width), signed) = n
<1> DEFINE b == WriteInt(n, width)
           d == IF signed /\ Last(b) > 127 THEN [b EXCEPT ![Len(b)] = @ - 256] ELSE b
           left == [k \in 1..Len(d) + 1 |-> IF k = width + 1 THEN 0 ELSE Shifted(n, k - 1)]
<1>1. /\ b \in Seq(Byte) /\ Len(b) = width /\ DOMAIN b = 1..width
      /\ b = [k \in 1..width |-> Shifted(n, k - 1) % 256]
    BY WriteIntSeq DEF WriteInt
<1>2. \A k \in Nat : Shifted(n, k) \in Int
    BY ShiftedInt
<1> HIDE DEF b
<1>3. Len(d) = width
    BY <1>1
<1>4. \A k \in 1..width : d[k] = IF k = width THEN Shifted(n, width - 1) ELSE Shifted(n, k - 1) % 256
    <2>1. b[width] = Shifted(n, width - 1) % 256
        BY <1>1
    <2>2. Last(b) = b[width]
        BY <1>1 DEF Last
    <2>3. d[width] = Shifted(n, width - 1)
        <3> DEFINE t == Shifted(n, width - 1)
        <3>1. t \in Int
            BY <1>2
        <3>2. b[width] = t % 256
            BY <2>1
        <3> HIDE DEF t
        <3>3. t \in (IF signed THEN -128..127 ELSE 0..255)
            BY DEF Byte, t
        <3>4. CASE signed /\ t < 0
            <4>1. b[width] = t + 256
                BY <3>1, <3>2, <3>3, <3>4
            <4>2. d = [b EXCEPT ![Len(b)] = @ - 256]
                BY <2>2, <3>1, <3>3, <3>4, <4>1
            <4>3. d[width] = b[width] - 256
                BY <1>1, <4>2
            <4>4. QED  BY <3>1, <4>1, <4>3 DEF t
        <3>5. CASE ~(signed /\ t < 0)
            <4>1. b[width] = t
                BY <3>1, <3>2, <3>3, <3>5
            <4>2. d = b
                BY <2>2, <3>1, <3>3, <3>5, <4>1
            <4>4. QED  BY <4>1, <4>2 DEF t
        <3>6. QED  BY <3>4, <3>5
    <2>4. ASSUME NEW k \in 1..width, k # width  PROVE d[k] = b[k]
        BY <1>1, <2>4
    <2>5. QED  BY <1>1, <2>3, <2>4
<1> HIDE DEF d
<1>5. left \in [1..Len(d) + 1 -> Int] /\ left[Len(d) + 1] = 0 /\ left[1] = n
    BY <1>2, <1>3, ShiftedIs
<1>6. \A k \in 1..Len(d) : left[k] = d[k] + 256 * left[k + 1]
    <2> SUFFICES ASSUME NEW k \in 1..width  PROVE left[k] = d[k] + 256 * left[k + 1]
        BY <1>3
    <2>1. CASE k = width
        <3>1. left[k] = Shifted(n, width - 1) /\ left[k + 1] = 0
            BY <1>3, <2>1
        <3>2. QED  BY <1>2, <1>4, <2>1, <3>1
    <2>2. CASE k # width
        <3>1. left[k] = Shifted(n, k - 1) /\ left[k + 1] = Shifted(n, k)
            BY <1>3, <2>2
        <3>2. Shifted(n, (k - 1) + 1) = Shifted(n, k - 1) \div 256
            BY ShiftedIs
        <3>3. Shifted(n, k) = Shifted(n, k - 1) \div 256
            BY <3>2
        <3>4. d[k] = Shifted(n, k - 1) % 256
            BY <1>4, <2>2
        <3>5. Shifted(n, k - 1) \in Int
            BY <1>2
        <3>6. QED  BY <3>1, <3>3, <3>4, <3>5
    <2>3. QED  BY <2>1, <2>2
<1> HIDE DEF left
<1>7. Number(d, 256) = n
    <2>1. PICK l \in [1..Len(d) + 1 -> Int] :
             l[Len(d) + 1] = 0 /\ l[1] = n /\ \A k \in 1..Len(d) : l[k] = d[k] + 256 * l[k + 1]
        BY <1>5, <1>6, ZenonT(30)
    <2>2. 256 \in Nat /\ Len(d) \in Nat
        BY <1>3
    <2>3. Number(d, 256) = l[1]
        BY <2>1, <2>2, NumberIs
    <2>4. QED  BY <2>1, <2>3
<1>8. QED  BY <1>7 DEF ReadInt, d, b

-----------------------------------------------------------------------------

\* write_uleb128, of what it is for n \div 128.
UlebOf(n, more) == IF n < 128 THEN <<n>> ELSE <<(n % 128) + 128>> \o more
Ulebs(f, num) == f = [n \in 0..num |-> UlebOf(n, f[n \div 128])]

LEMMA UlebOfShort == ASSUME NEW n, n < 128, NEW more  PROVE UlebOf(n, more) = UlebOf(n, <<>>)
BY DEF UlebOf

LEMMA UlebsExists == ASSUME NEW m \in Nat PROVE \E f : Ulebs(f, m)
<1> DEFINE T == {k \in Nat : ~\E f : Ulebs(f, k)}
<1> SUFFICES ASSUME T # {}  PROVE FALSE
    OBVIOUS
<1>1. PICK k \in T : \A j \in T : k <= j
    BY LeastNat
<1>2. CASE k = 0
    <2>1. Ulebs([j \in 0..0 |-> UlebOf(0, <<>>)], 0)
        BY UlebOfShort DEF Ulebs
    <2>2. QED  BY <1>2, <2>1
<1>3. CASE k # 0
    <2>1. k - 1 \in Nat /\ k - 1 \notin T
        BY <1>1, <1>3
    <2>2. PICK g : Ulebs(g, k - 1)
        BY <2>1
    <2> DEFINE f == [n \in 0..k |-> IF n = k THEN UlebOf(k, IF k < 128 THEN <<>> ELSE g[k \div 128]) ELSE g[n]]
    <2>3. \A n \in 0..k : n >= 128 => n \div 128 \in 0..k - 1 /\ n \div 128 # k
        OBVIOUS
    <2>4. \A n \in 0..k : f[n] = UlebOf(n, f[n \div 128])
        <3> SUFFICES ASSUME NEW n \in 0..k  PROVE f[n] = UlebOf(n, f[n \div 128])
            OBVIOUS
        <3>1. n >= 128 => f[n \div 128] = g[n \div 128]
            BY <2>3
        <3>2. CASE n = k
            BY <3>1, <3>2, <2>3, UlebOfShort
        <3>3. CASE n # k
            <4>1. f[n] = g[n] /\ n \in 0..k - 1
                BY <3>3
            <4>2. g[n] = UlebOf(n, g[n \div 128])
                BY <2>2, <4>1 DEF Ulebs
            <4>3. QED  BY <3>1, <4>1, <4>2, <2>3, UlebOfShort
        <3>4. QED  BY <3>2, <3>3
    <2>5. f = [n \in 0..k |-> f[n]]
        OBVIOUS
    <2> HIDE DEF f
    <2>6. QED  BY <2>4, <2>5, SMTT(30) DEF Ulebs
<1>4. QED  BY <1>2, <1>3

LEMMA UlebsAgree ==
    ASSUME NEW l \in Nat, NEW m \in Nat, NEW f, Ulebs(f, l), NEW g, Ulebs(g, m), NEW k \in Nat, k <= l, k <= m
    PROVE  f[k] = g[k]
<1> DEFINE T == {j \in 0..k : f[j] # g[j]}
<1> SUFFICES ASSUME T # {}  PROVE FALSE
    OBVIOUS
<1>1. PICK j \in T : \A i \in T : j <= i
    <2>1. T \in SUBSET Nat
        OBVIOUS
    <2> HIDE DEF T
    <2>2. QED  BY <2>1, LeastNat
<1>2. f[j] # g[j] /\ j \in 0..k
    OBVIOUS
<1>3. f[j] = UlebOf(j, f[j \div 128])
    BY <1>2 DEF Ulebs
<1>4. g[j] = UlebOf(j, g[j \div 128])
    BY <1>2 DEF Ulebs
<1>5. j >= 128 => j \div 128 \in 0..k /\ j \div 128 < j
    BY <1>2
<1>6. j >= 128 => f[j \div 128] = g[j \div 128]
    <2>1. j >= 128 => j \div 128 \notin T
        <3>1. j >= 128 => ~(j <= j \div 128)
            BY <1>2, <1>5
        <3> HIDE DEF T
        <3>2. QED  BY <1>1, <3>1
    <2>2. QED  BY <2>1, <1>5
<1>7. CASE j < 128
    <2>1. f[j] = UlebOf(j, <<>>) /\ g[j] = UlebOf(j, <<>>)
        BY <1>3, <1>4, <1>7, UlebOfShort
    <2>2. QED  BY <2>1, <1>2
<1>8. CASE ~(j < 128)
    BY <1>2, <1>3, <1>4, <1>6, <1>8
<1>9. QED  BY <1>7, <1>8

\* What write_uleb128 is, of every length.
LEMMA UlebIs ==
    ASSUME NEW n \in Nat
    PROVE  write_uleb128(n) = UlebOf(n, write_uleb128(n \div 128))
<1> DEFINE F(j) == CHOOSE f : Ulebs(f, j)
<1>1. \A j \in Nat : Ulebs(F(j), j)
    BY UlebsExists
<1>2. \A j \in Nat : write_uleb128(j) = F(j)[j]
    BY Zenon DEF write_uleb128, Ulebs, UlebOf
<1> HIDE DEF F
<1>3. n >= 128 => n \div 128 \in Nat /\ n \div 128 <= n
    OBVIOUS
<1>4. n >= 128 => F(n)[n \div 128] = F(n \div 128)[n \div 128]
    BY <1>1, <1>3, UlebsAgree
<1>5. F(n)[n] = UlebOf(n, F(n)[n \div 128])
    <2>1. Ulebs(F(n), n)
        BY <1>1
    <2>2. QED  BY <2>1 DEF Ulebs
<1>6. CASE n < 128
    <2>1. UlebOf(n, F(n)[n \div 128]) = UlebOf(n, <<>>)
        BY <1>6, UlebOfShort
    <2>2. UlebOf(n, write_uleb128(n \div 128)) = UlebOf(n, <<>>)
        BY <1>6, UlebOfShort
    <2>3. QED  BY <1>2, <1>5, <2>1, <2>2
<1>7. CASE n >= 128
    BY <1>2, <1>3, <1>4, <1>5, <1>7
<1>8. QED  BY <1>6, <1>7

\* What is written of n: only the last byte has no high bit, and the lower seven
\* bits of them all are the digits of n.
IsUleb(u, n) ==
    /\ u \in Seq(Byte) /\ Len(u) \in Nat \ {0}
    /\ \A k \in 1..Len(u) : u[k] < 128 <=> k = Len(u)
    /\ \E left \in [1..Len(u) + 1 -> Int] :
          /\ left[Len(u) + 1] = 0 /\ left[1] = n
          /\ \A k \in 1..Len(u) : left[k] = (u[k] % 128) + 128 * left[k + 1]

\* By the least length that has no such bytes.
LEMMA UlebWrites == ASSUME NEW num \in Nat PROVE IsUleb(write_uleb128(num), num)
<1> DEFINE T == {k \in Nat : ~IsUleb(write_uleb128(k), k)}
<1> SUFFICES ASSUME T # {}  PROVE FALSE
    OBVIOUS
<1>1. PICK n \in T : \A j \in T : n <= j
    <2>1. T \in SUBSET Nat
        OBVIOUS
    <2> HIDE DEF T
    <2>2. QED  BY <2>1, LeastNat
<1> DEFINE u == write_uleb128(n)
           v == write_uleb128(n \div 128)
<1>2. CASE n < 128
    <2>1. u = <<n>>
        BY <1>2, UlebIs DEF UlebOf
    <2> HIDE DEF u
    <2>2. u \in Seq(Byte) /\ Len(u) = 1 /\ u[1] = n
        BY <1>2, <2>1 DEF Byte
    <2> DEFINE left == [k \in 1..2 |-> IF k = 1 THEN n ELSE 0]
    <2>3. left \in [1..Len(u) + 1 -> Int] /\ left[Len(u) + 1] = 0 /\ left[1] = n
        BY <2>2
    <2>4. \A k \in 1..Len(u) : left[k] = (u[k] % 128) + 128 * left[k + 1]
        BY <1>2, <2>2
    <2> HIDE DEF left
    <2>5. IsUleb(u, n)
        <3>1. \E l \in [1..Len(u) + 1 -> Int] : /\ l[Len(u) + 1] = 0 /\ l[1] = n
                                                /\ \A k \in 1..Len(u) : l[k] = (u[k] % 128) + 128 * l[k + 1]
            BY <2>3, <2>4, Zenon
        <3>2. Len(u) \in Nat \ {0} /\ \A k \in 1..Len(u) : u[k] < 128 <=> k = Len(u)
            BY <1>2, <2>2
        <3>3. QED  BY <2>2, <3>1, <3>2, Zenon DEF IsUleb
    <2>6. QED  BY <2>5 DEF u
<1>3. CASE n >= 128
    <2>1. n \div 128 \in Nat /\ n \div 128 < n
        BY <1>3
    <2>2. IsUleb(v, n \div 128)
        <3>1. n \div 128 \notin T
            <4> DEFINE m == n \div 128
            <4>1. m \in Nat /\ n \in Nat /\ ~(n <= m)
                BY <2>1
            <4> HIDE DEF T, m
            <4>2. m \notin T
                BY <1>1, <4>1
            <4>3. QED  BY <4>2 DEF m
        <3>2. QED  BY <2>1, <3>1
    <2>3. u = <<(n % 128) + 128>> \o v
        <3>1. n \in Nat /\ ~(n < 128)
            BY <1>3
        <3>2. u = UlebOf(n, v)
            BY <3>1, UlebIs
        <3> HIDE DEF u, v
        <3>3. QED  BY <3>1, <3>2 DEF UlebOf
    <2> HIDE DEF u, v
    <2>4. (n % 128) + 128 \in 128..255 /\ (n % 128) + 128 \in Byte /\ ((n % 128) + 128) % 128 = n % 128
        BY DEF Byte
    <2>5. v \in Seq(Byte) /\ Len(v) \in Nat \ {0} /\ \A k \in 1..Len(v) : v[k] < 128 <=> k = Len(v)
        BY <2>2 DEF IsUleb
    <2>6. /\ u \in Seq(Byte) /\ Len(u) = Len(v) + 1 /\ u[1] = (n % 128) + 128
          /\ \A k \in 2..Len(u) : u[k] = v[k - 1]
        BY <2>3, <2>4, <2>5
    <2>7. PICK l \in [1..Len(v) + 1 -> Int] :
             /\ l[Len(v) + 1] = 0 /\ l[1] = n \div 128
             /\ \A k \in 1..Len(v) : l[k] = (v[k] % 128) + 128 * l[k + 1]
        BY <2>2 DEF IsUleb
    <2> DEFINE left == [k \in 1..Len(u) + 1 |-> IF k = 1 THEN n ELSE l[k - 1]]
    <2>8. left \in [1..Len(u) + 1 -> Int] /\ left[Len(u) + 1] = 0 /\ left[1] = n
        BY <2>5, <2>6, <2>7
    <2>9. \A k \in 1..Len(u) : left[k] = (u[k] % 128) + 128 * left[k + 1]
        <3> SUFFICES ASSUME NEW k \in 1..Len(u)  PROVE left[k] = (u[k] % 128) + 128 * left[k + 1]
            OBVIOUS
        <3>1. CASE k = 1
            <4>1. left[1] = n /\ left[2] = n \div 128
                BY <2>5, <2>6, <2>7
            <4> HIDE DEF left
            <4>2. n = (n % 128) + 128 * (n \div 128)
                OBVIOUS
            <4>3. u[1] % 128 = n % 128
                BY <2>4, <2>6
            <4>4. QED  BY <3>1, <4>1, <4>2, <4>3
        <3>2. CASE k # 1
            <4>1. left[k] = l[k - 1] /\ left[k + 1] = l[k] /\ u[k] = v[k - 1] /\ k - 1 \in 1..Len(v)
                BY <2>5, <2>6, <3>2
            <4> HIDE DEF left
            <4>2. l[k - 1] = (v[k - 1] % 128) + 128 * l[k]
                BY <2>7, <4>1, SMTT(30)
            <4>3. QED  BY <4>1, <4>2, Zenon
        <3>3. QED  BY <3>1, <3>2
    <2> HIDE DEF left
    <2>10. \A k \in 1..Len(u) : u[k] < 128 <=> k = Len(u)
        BY <2>4, <2>5, <2>6
    <2>11. IsUleb(u, n)
        <3>1. \E j \in [1..Len(u) + 1 -> Int] : /\ j[Len(u) + 1] = 0 /\ j[1] = n
                                                /\ \A k \in 1..Len(u) : j[k] = (u[k] % 128) + 128 * j[k + 1]
            BY <2>8, <2>9, Zenon
        <3>2. Len(u) \in Nat \ {0}
            BY <2>5, <2>6
        <3>3. QED  BY <2>6, <2>10, <3>1, <3>2, Zenon DEF IsUleb
    <2>12. QED  BY <2>11 DEF u
<1>4. QED  BY <1>2, <1>3

\* Its length and value, whatever comes after it.
LEMMA UlebIsRead ==
    ASSUME NEW u, NEW n, IsUleb(u, n), NEW tail \in Seq(Byte)
    PROVE  UlebLength(u \o tail) = Len(u) /\ UlebValue(u) = n
<1>1. u \in Seq(Byte) /\ Len(u) \in Nat \ {0} /\ Len(tail) \in Nat /\ \A k \in 1..Len(u) : u[k] < 128 <=> k = Len(u)
    BY DEF IsUleb
<1>2. UlebLength(u \o tail) = Len(u)
    <2> DEFINE M == {k \in DOMAIN (u \o tail) : (u \o tail)[k] < 128}
    <2>1. DOMAIN (u \o tail) = 1..Len(u) + Len(tail) /\ \A k \in 1..Len(u) : (u \o tail)[k] = u[k]
        BY <1>1
    <2>2. Len(u) \in M /\ \A k \in M : k >= Len(u) /\ k \in Nat
        BY <1>1, <2>1
    <2> HIDE DEF M
    <2>3. \A k \in M : (\A j \in M : k <= j) => k = Len(u)
        BY <1>1, <2>2
    <2>4. Min(M) = Len(u)
        BY <2>2, <2>3 DEF Min
    <2>5. QED  BY <2>4 DEF UlebLength, M
<1>3. UlebValue(u) = n
    <2>1. PICK left \in [1..Len(u) + 1 -> Int] :
             /\ left[Len(u) + 1] = 0 /\ left[1] = n
             /\ \A k \in 1..Len(u) : left[k] = (u[k] % 128) + 128 * left[k + 1]
        BY DEF IsUleb
    <2> DEFINE d == [k \in DOMAIN u |-> u[k] % 128]
    <2>2. Len(d) = Len(u) /\ DOMAIN u = 1..Len(u) /\ \A k \in 1..Len(u) : d[k] = u[k] % 128
        BY <1>1
    <2> HIDE DEF d
    <2>3. Number(d, 128) = left[1]
        BY <1>1, <2>1, <2>2, NumberIs
    <2>4. QED  BY <2>1, <2>3 DEF UlebValue, d
<1>4. QED  BY <1>2, <1>3

-----------------------------------------------------------------------------
(* Strings and fields.                                                      *)

\* What is between, and what is left after it.
LEMMA Middle ==
    ASSUME NEW S, NEW r \in Seq(S), NEW s \in Seq(S), NEW t \in Seq(S)
    PROVE  /\ SubSeq(r \o (s \o t), Len(r) + 1, Len(r) + Len(s)) = s
           /\ Drop(r \o (s \o t), Len(r) + Len(s)) = t
<1>1. s \o t \in Seq(S) /\ Len(r) \in Nat /\ Len(s) \in Nat /\ Len(t) \in Nat
    BY ConcatProperties, LenProperties
<1>2. SubSeq(r \o (s \o t), Len(r) + 1, Len(r) + Len(s)) = s
    <2> DEFINE u == SubSeq(r \o (s \o t), Len(r) + 1, Len(r) + Len(s))
    <2>1. \A i \in 1..Len(s) : (r \o (s \o t))[Len(r) + i] = s[i]
        BY <1>1
    <2>2. \A i \in Len(r) + 1 .. Len(r) + Len(s) : (r \o (s \o t))[i] \in S
        BY <1>1, <2>1, ElementOfSeq
    <2>3. /\ u \in Seq(S)
          /\ Len(u) = IF Len(r) + 1 <= Len(r) + Len(s) THEN Len(r) + Len(s) - (Len(r) + 1) + 1 ELSE 0
          /\ \A i \in 1 .. Len(r) + Len(s) - (Len(r) + 1) + 1 : u[i] = (r \o (s \o t))[Len(r) + 1 + i - 1]
        BY <1>1, <2>2, SubSeqProperties
    <2>4. Len(u) = Len(s)
        BY <1>1, <2>3
    <2>5. \A i \in 1..Len(u) : u[i] = s[i]
        BY <1>1, <2>1, <2>3
    <2> HIDE DEF u
    <2>6. u = s
        BY <2>3, <2>4, <2>5, SeqEqual
    <2>7. QED  BY <2>6 DEF u
<1>3. r \o (s \o t) = (r \o s) \o t /\ r \o s \in Seq(S) /\ Len(r \o s) = Len(r) + Len(s)
    BY ConcatProperties, ConcatAssociative, SMTT(30)
<1>4. QED  BY <1>2, <1>3, TakeDrop

LEMMA TailIsDrop == ASSUME NEW S, NEW s \in Seq(S), s # <<>>  PROVE Tail(s) = Drop(s, 1)
<1>1. Drop(s, 1) = SubSeq(s, 2, Len(s))
    BY DEF Drop
<1>2. QED  BY <1>1, TailIsSubSeq

\* A string is read as it was written, an empty one that exists, too.
LEMMA StringIsRead ==
    ASSUME NEW s \in Seq(Byte), NEW tail \in Seq(Byte)
    PROVE  read_string(((<<11>> \o write_uleb128(Len(s))) \o s) \o tail) = Reading(s, tail)
<1> DEFINE u == write_uleb128(Len(s))
           b == ((<<11>> \o u) \o s) \o tail
<1>1. IsUleb(u, Len(s)) /\ Len(s) \in Nat
    BY UlebWrites, LenProperties
<1> HIDE DEF u
<1>2. u \in Seq(Byte) /\ s \o tail \in Seq(Byte) /\ <<11>> \in Seq(Byte) /\ Len(<<11>>) = 1
    BY <1>1, ConcatProperties DEF IsUleb, Byte
<1>3. <<11>> \o u \in Seq(Byte) /\ Len(<<11>> \o u) = 1 + Len(u) /\ u \o (s \o tail) \in Seq(Byte) /\ Len(u) \in Nat
    BY <1>2, ConcatProperties, LenProperties
<1>4. b = (<<11>> \o u) \o (s \o tail)
    BY <1>3, ConcatAssociative, SMTT(30)
<1>5. b = <<11>> \o (u \o (s \o tail))
    BY <1>2, <1>4, ConcatAssociative, SMTT(30)
<1> HIDE DEF b
<1>6. b[1] = 11 /\ Tail(b) = u \o (s \o tail)
    <2>1. b \in Seq(Byte) /\ b[1] = 11 /\ Len(b) = 1 + Len(u \o (s \o tail)) /\ b # <<>>
        BY <1>2, <1>3, <1>5, ConcatProperties, LenProperties
    <2>2. Tail(b) = Drop(b, 1)
        BY <2>1, TailIsDrop
    <2>3. Drop(<<11>> \o (u \o (s \o tail)), Len(<<11>>)) = u \o (s \o tail)
        BY <1>2, <1>3, TakeDrop
    <2>4. Len(<<11>>) = 1
        BY <1>2
    <2>5. QED  BY <1>5, <2>1, <2>2, <2>3, <2>4
<1>7. UlebLength(Tail(b)) = Len(u) /\ UlebValue(u) = Len(s)
    BY <1>1, <1>2, <1>6, UlebIsRead
<1>8. SubSeq(b, 2, Len(u) + 1) = u
    <2>1. SubSeq(<<11>> \o (u \o (s \o tail)), 1 + 1, 1 + Len(u)) = u
        BY <1>2, Middle
    <2>2. QED  BY <1>3, <1>5, <2>1
<1>9. SubSeq(b, Len(u) + 2, Len(u) + 1 + Len(s)) = s /\ Drop(b, Len(u) + 1 + Len(s)) = tail
    <2>1. /\ SubSeq((<<11>> \o u) \o (s \o tail), Len(<<11>> \o u) + 1, Len(<<11>> \o u) + Len(s)) = s
          /\ Drop((<<11>> \o u) \o (s \o tail), Len(<<11>> \o u) + Len(s)) = tail
        <3> DEFINE r == <<11>> \o u
        <3>1. r \in Seq(Byte)
            BY <1>3
        <3> HIDE DEF r
        <3>2. /\ SubSeq(r \o (s \o tail), Len(r) + 1, Len(r) + Len(s)) = s
              /\ Drop(r \o (s \o tail), Len(r) + Len(s)) = tail
            BY <3>1, Middle
        <3>3. QED  BY <3>2 DEF r
    <2>2. Len(<<11>> \o u) + 1 = Len(u) + 2 /\ Len(<<11>> \o u) + Len(s) = Len(u) + 1 + Len(s)
        BY <1>1, <1>3
    <2>3. QED  BY <1>4, <2>1, <2>2
<1>10. read_string(b) = Reading(SubSeq(b, Len(u) + 2, Len(u) + 1 + Len(s)), Drop(b, Len(u) + 1 + Len(s)))
    BY <1>6, <1>7, <1>8, Zenon DEF read_string
<1>11. QED  BY <1>9, <1>10 DEF b, u

-----------------------------------------------------------------------------

\* The types of fields, and what they may hold.
Types == DOMAIN Width \cup {"string"}
Value == Int \cup Seq(Byte)

LEMMA Widths ==
    /\ \A type \in DOMAIN Width : Width[type] \in {1, 2, 4, 8}
    /\ \A type \in Types : type \notin {"string", "f32", "f64"} => type \in DOMAIN Width
    /\ {"f32", "f64"} \subseteq DOMAIN Width /\ DOMAIN Width \subseteq Types
    /\ {"i8", "u8", "i16", "u16", "i32", "u32", "i64", "f32", "f64", "string"} = Types
BY DEF Width, Types

\* An integer's field is read as it was written.
LEMMA IntWritten ==
    ASSUME NEW n \in Int, NEW type \in Types, type \notin {"string", "f32", "f64"}, Fits(n, type), NEW tail \in Seq(Byte)
    PROVE  WriteInt(n, Width[type]) \in Seq(Byte) /\ read_int(WriteInt(n, Width[type]) \o tail, type) = Reading(n, tail)
<1>1. Width[type] \in Nat \ {0} /\ (type \in SignedTypes) \in BOOLEAN
    BY Widths
<1>2. WriteInt(n, Width[type]) \in Seq(Byte) /\ Len(WriteInt(n, Width[type])) = Width[type]
    BY <1>1, WriteIntSeq
<1>3. Shifted(n, Width[type] - 1) \in (IF type \in SignedTypes THEN -128..127 ELSE Byte)
    BY DEF Fits
<1>4. ReadInt(WriteInt(n, Width[type]), type \in SignedTypes) = n
    BY <1>1, <1>3, IntIsRead
<1>5. /\ SubSeq(WriteInt(n, Width[type]) \o tail, 1, Width[type]) = WriteInt(n, Width[type])
      /\ Drop(WriteInt(n, Width[type]) \o tail, Width[type]) = tail
    BY <1>2, TakeDrop
<1>6. QED  BY <1>2, <1>4, <1>5 DEF read_int

\* A field is read as it was written.
LEMMA FieldIsRead ==
    ASSUME NEW type \in Types, NEW val, Fits(val, type)
    PROVE  /\ write_field(val, type) \in Seq(Byte) /\ val \in Value
           /\ \A tail \in Seq(Byte) : read_field(write_field(val, type) \o tail, type) = Reading(val, tail)
<1>1. CASE type = "string"
    <2>1. val \in Seq(Byte)
        BY <1>1 DEF Fits
    <2>2. write_field(val, type) = write_string(val)
        BY <1>1 DEF write_field
    <2>3. \A tail \in Seq(Byte) : read_field(write_field(val, type) \o tail, type) = read_string(write_string(val) \o tail)
        BY <1>1, <2>2 DEF read_field
    <2>4. CASE val = <<>>
        <3>1. write_string(val) = <<0>> /\ <<0>> \in Seq(Byte) /\ Len(<<0>>) = 1 /\ <<0>> # <<>>
            BY <2>4 DEF write_string, Byte
        <3>2. ASSUME NEW tail \in Seq(Byte)  PROVE read_string(<<0>> \o tail) = Reading(<<>>, tail)
            <4>1. <<0>> \o tail \in Seq(Byte) /\ (<<0>> \o tail)[1] = 0 /\ <<0>> \o tail # <<>> /\ Len(<<0>>) = 1
                BY <3>1
            <4>2. Drop(<<0>> \o tail, 1) = tail
                BY <3>1, TakeDrop
            <4>3. Tail(<<0>> \o tail) = tail
                BY <4>1, <4>2, TailIsDrop
            <4>4. (<<0>> \o tail)[1] # 11
                BY <4>1
            <4>5. QED  BY <4>3, <4>4, Zenon DEF read_string
        <3>3. QED  BY <2>1, <2>2, <2>3, <2>4, <3>1, <3>2 DEF Value
    <2>5. CASE val # <<>>
        <3>1. write_string(val) = (<<11>> \o write_uleb128(Len(val))) \o val
            BY <2>5 DEF write_string
        <3>2. IsUleb(write_uleb128(Len(val)), Len(val))
            BY <2>1, LenProperties, UlebWrites
        <3>3. write_uleb128(Len(val)) \in Seq(Byte) /\ <<11>> \in Seq(Byte)
            BY <3>2 DEF IsUleb, Byte
        <3>4. write_string(val) \in Seq(Byte)
            BY <2>1, <3>1, <3>3, ConcatProperties
        <3>5. \A tail \in Seq(Byte) : read_string(write_string(val) \o tail) = Reading(val, tail)
            BY <2>1, <3>1, StringIsRead
        <3>6. QED  BY <2>1, <2>2, <2>3, <3>4, <3>5 DEF Value
    <2>6. QED  BY <2>4, <2>5
<1>2. CASE type \in {"f32", "f64"}
    <2>1. type \in DOMAIN Width
        BY <1>2, Widths
    <2>7. type # "string"
        BY <1>2
    <2>2. val \in [1..Width[type] -> Byte] /\ Width[type] \in Nat
        BY <1>2, <2>1, <2>7, Widths DEF Fits
    <2>3. val \in Seq(Byte) /\ Len(val) = Width[type]
        BY <2>2, SeqDef
    <2>4. write_field(val, type) = val
        BY <1>2, <2>7 DEF write_field
    <2>5. ASSUME NEW tail \in Seq(Byte)  PROVE read_field(val \o tail, type) = Reading(val, tail)
        <3>1. read_field(val \o tail, type) = Reading(SubSeq(val \o tail, 1, Width[type]), Drop(val \o tail, Width[type]))
            BY <1>2, <2>7 DEF read_field
        <3>2. QED  BY <2>3, <3>1, TakeDrop
    <2>6. QED  BY <2>3, <2>4, <2>5 DEF Value
<1>3. CASE type \notin {"string", "f32", "f64"}
    <2>1. val \in Int
        BY <1>3 DEF Fits
    <2>2. write_field(val, type) = WriteInt(val, Width[type])
        BY <1>3 DEF write_field
    <2>3. \A tail \in Seq(Byte) : read_field(WriteInt(val, Width[type]) \o tail, type) = read_int(WriteInt(val, Width[type]) \o tail, type)
        BY <1>3 DEF read_field
    <2>4. <<>> \in Seq(Byte)
        OBVIOUS
    <2>5. QED  BY <1>3, <2>1, <2>2, <2>3, <2>4, IntWritten DEF Value
<1>4. QED  BY <1>1, <1>2, <1>3

-----------------------------------------------------------------------------
(* Sequences of fields.                                                     *)

\* FlattenSeq joins its parts from the first on.
Joined(i, before, part) == IF i = 1 THEN part ELSE before \o part
Flats(f, s, n) == f = [i \in 1..n |-> Joined(i, f[i - 1], s[i])]

LEMMA FlatsStep ==
    ASSUME NEW f, NEW s, NEW n, Flats(f, s, n), NEW i \in 1..n
    PROVE  f[i] = Joined(i, f[i - 1], s[i])
BY DEF Flats

LEMMA JoinedFirst == ASSUME NEW i, i = 1, NEW before, NEW part  PROVE Joined(i, before, part) = part
BY DEF Joined

LEMMA FlatsExists == ASSUME NEW s, NEW m \in Nat PROVE \E f : Flats(f, s, m)
<1> DEFINE T == {k \in Nat : ~\E f : Flats(f, s, k)}
<1> SUFFICES ASSUME T # {}  PROVE FALSE
    OBVIOUS
<1>1. PICK k \in T : \A j \in T : k <= j
    BY LeastNat
<1>2. CASE k = 0
    <2>1. Flats([j \in 1..0 |-> s[j]], s, 0)
        BY DEF Flats
    <2>2. QED  BY <1>2, <2>1
<1>3. CASE k # 0
    <2>1. k - 1 \in Nat /\ k - 1 \notin T
        BY <1>1, <1>3
    <2>2. PICK g : Flats(g, s, k - 1)
        BY <2>1
    <2> DEFINE f == [j \in 1..k |-> IF j = k THEN Joined(k, g[k - 1], s[k]) ELSE g[j]]
    <2>3. \A j \in 1..k : f[j] = Joined(j, f[j - 1], s[j])
        <3> SUFFICES ASSUME NEW j \in 1..k  PROVE f[j] = Joined(j, f[j - 1], s[j])
            OBVIOUS
        <3>1. CASE j = 1
            <4>1. f[j] = Joined(j, g[j - 1], s[j])
                BY <2>2, <3>1 DEF Flats
            <4>2. QED  BY <3>1, <4>1, JoinedFirst
        <3>2. CASE j # 1
            <4>1. f[j - 1] = g[j - 1]
                BY <3>2
            <4>2. f[j] = Joined(j, g[j - 1], s[j])
                BY <2>2, <3>2 DEF Flats
            <4>3. QED  BY <4>1, <4>2
        <3>3. QED  BY <3>1, <3>2
    <2>5. f = [j \in 1..k |-> f[j]]
        OBVIOUS
    <2> HIDE DEF f
    <2>6. f = [j \in 1..k |-> Joined(j, f[j - 1], s[j])]
        BY <2>3, <2>5
    <2>7. QED  BY <2>6 DEF Flats
<1>4. QED  BY <1>2, <1>3

LEMMA FlatsAgree ==
    ASSUME NEW s, NEW t, NEW l \in Nat, NEW m \in Nat, NEW f, Flats(f, s, l), NEW g, Flats(g, t, m),
           NEW k \in Nat, k <= l, k <= m, \A i \in 1..k : s[i] = t[i]
    PROVE  \A i \in 1..k : f[i] = g[i]
<1> DEFINE T == {j \in 1..k : f[j] # g[j]}
<1> SUFFICES ASSUME T # {}  PROVE FALSE
    OBVIOUS
<1>1. PICK j \in T : \A i \in T : j <= i
    <2>1. T \in SUBSET Nat
        OBVIOUS
    <2> HIDE DEF T
    <2>2. QED  BY <2>1, LeastNat
<1>2. f[j] # g[j] /\ j \in 1..k
    OBVIOUS
<1>6. j \in 1..l /\ j \in 1..m
    BY <1>2
<1> HIDE DEF T
<1>8. f[j] = Joined(j, f[j - 1], s[j])
    BY <1>6, FlatsStep
<1>9. g[j] = Joined(j, g[j - 1], t[j])
    BY <1>6, FlatsStep
<1>3. j # 1
    BY <1>2, <1>8, <1>9, JoinedFirst
<1>4. f[j - 1] = g[j - 1]
    BY <1>1, <1>2, <1>3 DEF T
<1>5. QED  BY <1>2, <1>4, <1>8, <1>9

\* What FlattenSeq is, for any number of parts.
LEMMA FlattenIs ==
    ASSUME NEW s, Len(s) \in Nat
    PROVE  IF Len(s) = 0 THEN FlattenSeq(s) = s ELSE \E f : Flats(f, s, Len(s)) /\ FlattenSeq(s) = f[Len(s)]
<1> DEFINE F == CHOOSE f : Flats(f, s, Len(s))
<1>1. Flats(F, s, Len(s))
    BY FlatsExists
<1>2. FlattenSeq(s) = IF Len(s) = 0 THEN s ELSE F[Len(s)]
    BY Zenon DEF FlattenSeq, Flats, Joined
<1> HIDE DEF F
<1>3. QED  BY <1>1, <1>2

LEMMA FlattenEmpty == FlattenSeq(<<>>) = <<>>
BY FlattenIs

\* One more part.
LEMMA FlattenAppend ==
    ASSUME NEW S, NEW s \in Seq(Seq(S)), NEW x \in Seq(S)
    PROVE  FlattenSeq(Append(s, x)) = FlattenSeq(s) \o x
<1> DEFINE t == Append(s, x)
<1>1. /\ t \in Seq(Seq(S)) /\ Len(s) \in Nat /\ Len(t) = Len(s) + 1
      /\ t[Len(s) + 1] = x /\ \A i \in 1..Len(s) : t[i] = s[i]
    BY AppendProperties, LenProperties
<1> HIDE DEF t
<1>2. PICK f : Flats(f, t, Len(t)) /\ FlattenSeq(t) = f[Len(t)]
    BY <1>1, FlattenIs
<1>3. CASE Len(s) = 0
    <2>1. s = <<>>
        BY <1>3
    <2>2. f[1] = t[1]
        <3>1. f[1] = Joined(1, f[1 - 1], t[1])
            BY <1>1, <1>2, <1>3 DEF Flats
        <3>2. QED  BY <3>1, JoinedFirst
    <2>3. <<>> \o x = x
        BY ConcatEmptySeq
    <2>4. QED  BY <1>1, <1>2, <1>3, <2>1, <2>2, <2>3, FlattenEmpty DEF t
<1>4. CASE Len(s) # 0
    <2>1. PICK g : Flats(g, s, Len(s)) /\ FlattenSeq(s) = g[Len(s)]
        BY <1>1, <1>4, FlattenIs
    <2>2. \A i \in 1..Len(s) : f[i] = g[i]
        <3>1. Len(t) \in Nat /\ Len(s) <= Len(s) /\ Len(s) <= Len(t) /\ \A i \in 1..Len(s) : t[i] = s[i]
            BY <1>1
        <3>2. Flats(f, t, Len(t)) /\ Flats(g, s, Len(s)) /\ Len(s) \in Nat
            BY <1>1, <1>2, <2>1
        <3> DEFINE k == Len(s)
                   l == Len(t)
        <3>3. /\ k \in Nat /\ l \in Nat /\ k <= l /\ k <= k /\ Flats(f, t, l) /\ Flats(g, s, k)
              /\ \A i \in 1..k : t[i] = s[i]
            BY <3>1, <3>2
        <3> HIDE DEF k, l
        <3>4. \A i \in 1..k : f[i] = g[i]
            BY <3>3, FlatsAgree
        <3>5. QED  BY <3>4 DEF k
    <2>3. f[Len(t)] = f[Len(t) - 1] \o t[Len(t)]
        <3>1. f[Len(t)] = Joined(Len(t), f[Len(t) - 1], t[Len(t)])
            BY <1>1, <1>2, <1>4 DEF Flats
        <3>2. Len(t) # 1
            BY <1>1, <1>4
        <3>3. QED  BY <3>1, <3>2 DEF Joined
    <2>4. f[Len(s)] = g[Len(s)] /\ Len(t) - 1 = Len(s)
        BY <1>1, <1>4, <2>2
    <2>5. QED  BY <1>1, <1>2, <2>1, <2>3, <2>4 DEF t
<1>5. QED  BY <1>3, <1>4

LEMMA FlattenSeqs == ASSUME NEW S, NEW s \in Seq(Seq(S))  PROVE FlattenSeq(s) \in Seq(S)
<1> DEFINE T == {n \in Nat : \E r \in Seq(Seq(S)) : Len(r) = n /\ FlattenSeq(r) \notin Seq(S)}
<1> SUFFICES ASSUME T # {}  PROVE FALSE
    BY LenProperties
<1>1. PICK n \in T : \A j \in T : n <= j
    BY LeastNat
<1>2. PICK r \in Seq(Seq(S)) : Len(r) = n /\ FlattenSeq(r) \notin Seq(S)
    OBVIOUS
<1>3. r # <<>>
    BY <1>2, FlattenEmpty
<1>4. PICK q \in Seq(Seq(S)), x \in Seq(S) : r = Append(q, x)
    BY <1>3, SequenceEmptyOrAppend
<1>5. Len(q) \in Nat /\ Len(q) < n
    BY <1>2, <1>4, AppendProperties, LenProperties
<1>6. FlattenSeq(q) \in Seq(S)
    BY <1>1, <1>5
<1>7. QED  BY <1>2, <1>4, <1>6, FlattenAppend, ConcatProperties

LEMMA FlattenOne == ASSUME NEW S, NEW x \in Seq(S)  PROVE FlattenSeq(<<x>>) = x
<1>1. <<>> \in Seq(Seq(S)) /\ Append(<<>>, x) = <<x>> /\ <<>> \o x = x
    BY ConcatEmptySeq
<1>2. QED  BY <1>1, FlattenAppend, FlattenEmpty

LEMMA CatAppend ==
    ASSUME NEW S, NEW s \in Seq(S), NEW t \in Seq(S), NEW x \in S
    PROVE  s \o Append(t, x) = Append(s \o t, x) /\ s \o t \in Seq(S)
<1>1. Append(t, x) = t \o <<x>> /\ <<x>> \in Seq(S) /\ s \o t \in Seq(S)
    BY AppendIsConcat, ConcatProperties
<1>2. Append(s \o t, x) = (s \o t) \o <<x>>
    BY <1>1, AppendIsConcat
<1>3. QED  BY <1>1, <1>2, ConcatAssociative

LEMMA CatCat == \A S : \A s, t, u \in Seq(S) : (s \o t) \o u = s \o (t \o u)
BY ConcatAssociative

\* Some parts, and then others.
LEMMA FlattenCat ==
    ASSUME NEW S, NEW s \in Seq(Seq(S)), NEW t \in Seq(Seq(S))
    PROVE  FlattenSeq(s \o t) = FlattenSeq(s) \o FlattenSeq(t)
<1> DEFINE T == {n \in Nat : \E r \in Seq(Seq(S)) : Len(r) = n /\ FlattenSeq(s \o r) # FlattenSeq(s) \o FlattenSeq(r)}
<1> SUFFICES ASSUME T # {}  PROVE FALSE
    BY LenProperties
<1>1. PICK n \in T : \A j \in T : n <= j
    BY LeastNat
<1>2. PICK r \in Seq(Seq(S)) : Len(r) = n /\ FlattenSeq(s \o r) # FlattenSeq(s) \o FlattenSeq(r)
    OBVIOUS
<1>12. \A q \in Seq(Seq(S)) : Len(q) \in Nat /\ Len(q) < n => FlattenSeq(s \o q) = FlattenSeq(s) \o FlattenSeq(q)
    BY <1>1, SMTT(30)
<1> HIDE DEF T
<1>0. FlattenSeq(s) \in Seq(S)
    BY FlattenSeqs
<1>3. r # <<>>
    <2>1. s \o <<>> = s /\ FlattenSeq(s) \o <<>> = FlattenSeq(s)
        BY <1>0, ConcatEmptySeq
    <2>2. QED  BY <1>2, <2>1, FlattenEmpty
<1>4. PICK q \in Seq(Seq(S)), x \in Seq(S) : r = Append(q, x)
    BY <1>3, SequenceEmptyOrAppend
<1>5. Len(q) \in Nat /\ Len(q) < n
    BY <1>2, <1>4, AppendProperties, LenProperties
<1>6. FlattenSeq(s \o q) = FlattenSeq(s) \o FlattenSeq(q)
    BY <1>5, <1>12
<1>7. s \o r = Append(s \o q, x) /\ s \o q \in Seq(Seq(S))
    BY <1>4, CatAppend, SMTT(30)
<1>8. FlattenSeq(q) \in Seq(S)
    BY FlattenSeqs
<1>9. FlattenSeq(s \o r) = (FlattenSeq(s) \o FlattenSeq(q)) \o x
    BY <1>6, <1>7, FlattenAppend
<1>10. FlattenSeq(r) = FlattenSeq(q) \o x
    BY <1>4, FlattenAppend
<1>13. (FlattenSeq(s) \o FlattenSeq(q)) \o x = FlattenSeq(s) \o (FlattenSeq(q) \o x)
     
    <2> DEFINE a == FlattenSeq(s)
               b == FlattenSeq(q)
    <2>1. a \in Seq(S) /\ b \in Seq(S)
        BY <1>0, <1>8
    <2> HIDE DEF a, b
    <2>2. (a \o b) \o x = a \o (b \o x)
        BY <2>1, ConcatAssociative, SMTT(30)
    <2>3. QED  BY <2>2 DEF a, b
<1>11. QED  BY <1>2, <1>9, <1>10, <1>13

-----------------------------------------------------------------------------

\* ReadOn: a reading for each of the types.
Readers(f, r, types, n) == f = [k \in 0..n |-> IF k = 0 THEN r ELSE OneMore(f[k - 1], types[k])]

LEMMA ReadersExists == ASSUME NEW r, NEW types, NEW m \in Nat PROVE \E f : Readers(f, r, types, m)
<1> DEFINE T == {k \in Nat : ~\E f : Readers(f, r, types, k)}
<1> SUFFICES ASSUME T # {}  PROVE FALSE
    OBVIOUS
<1>1. PICK k \in T : \A j \in T : k <= j
    BY LeastNat
<1>2. CASE k = 0
    <2>1. Readers([j \in 0..0 |-> r], r, types, 0)
        BY DEF Readers
    <2>2. QED  BY <1>2, <2>1
<1>3. CASE k # 0
    <2>1. k - 1 \in Nat /\ k - 1 \notin T
        BY <1>1, <1>3
    <2>2. PICK g : Readers(g, r, types, k - 1)
        BY <2>1
    <2> DEFINE f == [j \in 0..k |-> IF j = k THEN OneMore(g[k - 1], types[k]) ELSE g[j]]
    <2>3. f = [j \in 0..k |-> IF j = 0 THEN r ELSE OneMore(f[j - 1], types[j])]
        BY <2>2, <1>3 DEF Readers
    <2>4. QED  BY <2>3 DEF Readers
<1>4. QED  BY <1>2, <1>3

LEMMA ReadersAgree ==
    ASSUME NEW r, NEW s, NEW t, NEW l \in Nat, NEW m \in Nat, NEW f, Readers(f, r, s, l), NEW g, Readers(g, r, t, m),
           NEW k \in Nat, k <= l, k <= m, \A i \in 1..k : s[i] = t[i]
    PROVE  f[k] = g[k]
<1> DEFINE T == {j \in 0..k : f[j] # g[j]}
<1> SUFFICES ASSUME T # {}  PROVE FALSE
    OBVIOUS
<1>1. PICK j \in T : \A i \in T : j <= i
    <2>1. T \in SUBSET Nat
        OBVIOUS
    <2> HIDE DEF T
    <2>2. QED  BY <2>1, LeastNat
<1>2. f[j] # g[j] /\ j \in 0..k
    OBVIOUS
<1>3. j # 0
    BY <1>2 DEF Readers
<1>4. f[j - 1] = g[j - 1]
    BY <1>1, <1>2, <1>3
<1>5. f[j] = OneMore(f[j - 1], s[j])
    BY <1>2, <1>3 DEF Readers
<1>6. g[j] = OneMore(g[j - 1], t[j])
    BY <1>2, <1>3 DEF Readers
<1>7. QED  BY <1>2, <1>3, <1>4, <1>5, <1>6

\* What ReadOn is, for any number of types.
LEMMA ReadOnIs ==
    ASSUME NEW r, NEW types, Len(types) \in Nat
    PROVE  \E f : Readers(f, r, types, Len(types)) /\ ReadOn(r, types) = f[Len(types)]
<1> DEFINE F == CHOOSE f : Readers(f, r, types, Len(types))
<1>1. Readers(F, r, types, Len(types))
    BY ReadersExists
<1>2. ReadOn(r, types) = F[Len(types)]
    BY DEF ReadOn, Readers
<1> HIDE DEF F
<1>3. QED  BY <1>1, <1>2

LEMMA ReadOnEmpty == ASSUME NEW r  PROVE ReadOn(r, <<>>) = r
BY ReadOnIs DEF Readers

LEMMA ReadOnAppend ==
    ASSUME NEW r, NEW S, NEW types \in Seq(S), NEW type \in S
    PROVE  ReadOn(r, Append(types, type)) = OneMore(ReadOn(r, types), type)
<1> DEFINE t == Append(types, type)
<1>1. /\ t \in Seq(S) /\ Len(types) \in Nat /\ Len(t) = Len(types) + 1
      /\ t[Len(types) + 1] = type /\ \A i \in 1..Len(types) : t[i] = types[i]
    BY AppendProperties, LenProperties
<1> HIDE DEF t
<1>2. PICK f : Readers(f, r, t, Len(t)) /\ ReadOn(r, t) = f[Len(t)]
    BY <1>1, ReadOnIs
<1>3. PICK g : Readers(g, r, types, Len(types)) /\ ReadOn(r, types) = g[Len(types)]
    BY <1>1, ReadOnIs
<1>4. f[Len(types)] = g[Len(types)]
    <2>1. Len(t) \in Nat /\ Len(types) <= Len(types) /\ Len(types) <= Len(t) /\ \A i \in 1..Len(types) : t[i] = types[i]
        BY <1>1
    <2>2. QED  BY <1>1, <1>2, <1>3, <2>1, ReadersAgree
<1>5. f[Len(t)] = OneMore(f[Len(t) - 1], t[Len(t)])
    BY <1>1, <1>2 DEF Readers
<1>6. Len(t) - 1 = Len(types)
    BY <1>1
<1>7. QED  BY <1>1, <1>2, <1>3, <1>4, <1>5, <1>6 DEF t

\* Fields of some types, and then of others.
LEMMA ReadOnCat ==
    ASSUME NEW r, NEW S, NEW s \in Seq(S), NEW t \in Seq(S)
    PROVE  ReadOn(r, s \o t) = ReadOn(ReadOn(r, s), t)
<1> DEFINE T == {n \in Nat : \E u \in Seq(S) : Len(u) = n /\ ReadOn(r, s \o u) # ReadOn(ReadOn(r, s), u)}
<1> SUFFICES ASSUME T # {}  PROVE FALSE
    BY LenProperties
<1>1. PICK n \in T : \A j \in T : n <= j
    BY LeastNat
<1>2. PICK u \in Seq(S) : Len(u) = n /\ ReadOn(r, s \o u) # ReadOn(ReadOn(r, s), u)
    OBVIOUS
<1>11. \A q \in Seq(S) : Len(q) \in Nat /\ Len(q) < n => ReadOn(r, s \o q) = ReadOn(ReadOn(r, s), q)
    BY <1>1
<1> HIDE DEF T
<1>3. u # <<>>
    BY <1>2, ReadOnEmpty, ConcatEmptySeq
<1>4. PICK q \in Seq(S), x \in S : u = Append(q, x)
    BY <1>3, SequenceEmptyOrAppend
<1>5. Len(q) \in Nat /\ Len(q) < n
    BY <1>2, <1>4, AppendProperties, LenProperties
<1>6. ReadOn(r, s \o q) = ReadOn(ReadOn(r, s), q)
    BY <1>5, <1>11
<1>7. s \o u = Append(s \o q, x) /\ s \o q \in Seq(S)
    BY <1>4, CatAppend
<1>8. ReadOn(r, s \o u) = OneMore(ReadOn(r, s \o q), x)
    <2> DEFINE sq == s \o q
    <2>1. sq \in Seq(S) /\ s \o u = Append(sq, x)
        BY <1>7
    <2> HIDE DEF sq
    <2>2. ReadOn(r, Append(sq, x)) = OneMore(ReadOn(r, sq), x)
        BY <2>1, ReadOnAppend
    <2>3. QED  BY <2>1, <2>2 DEF sq
<1>9. ReadOn(ReadOn(r, s), u) = OneMore(ReadOn(ReadOn(r, s), q), x)
    BY <1>4, ReadOnAppend
<1>10. QED  BY <1>2, <1>6, <1>8, <1>9

-----------------------------------------------------------------------------
(* What reads as what it was written from.                                  *)

\* These bytes are read as these values, whatever was read before and whatever
\* comes after them.
Reads(b, types, vals) ==
    /\ b \in Seq(Byte) /\ types \in Seq(Types) /\ vals \in Seq(Value)
    /\ \A v \in Seq(Value), tail \in Seq(Byte) : ReadOn(Reading(v, b \o tail), types) = Reading(v \o vals, tail)

LEMMA ReadsNothing == Reads(<<>>, <<>>, <<>>)
BY ReadOnEmpty, ConcatEmptySeq DEF Reads

\* Reads, of a field, ...
LEMMA ReadsBytes ==
    ASSUME NEW type \in Types, NEW val \in Value, NEW b \in Seq(Byte),
           \A tail \in Seq(Byte) : read_field(b \o tail, type) = Reading(val, tail)
    PROVE  Reads(b, <<type>>, <<val>>)
<1>2. ASSUME NEW v \in Seq(Value), NEW tail \in Seq(Byte)
      PROVE  ReadOn(Reading(v, b \o tail), <<type>>) = Reading(v \o <<val>>, tail)
    <2> DEFINE r == Reading(v, b \o tail)
    <2>1. r.val = v /\ r.rest = b \o tail
        BY DEF Reading
    <2> HIDE DEF r
    <2>2. Append(<<>>, type) = <<type>> /\ <<>> \in Seq(Types)
        OBVIOUS
    <2>3. ReadOn(r, Append(<<>>, type)) = OneMore(ReadOn(r, <<>>), type)
        <3> DEFINE none == <<>>
        <3>1. none \in Seq(Types)
            OBVIOUS
        <3> HIDE DEF none
        <3>2. ReadOn(r, Append(none, type)) = OneMore(ReadOn(r, none), type)
            BY <3>1, ReadOnAppend
        <3>3. QED  BY <3>2 DEF none
    <2>4. ReadOn(r, <<type>>) = OneMore(r, type)
        BY <2>2, <2>3, ReadOnEmpty
    <2>5. OneMore(r, type) = Reading(Append(v, val), tail)
        <3>1. read_field(r.rest, type).val = val /\ read_field(r.rest, type).rest = tail
            BY <2>1 DEF Reading
        <3>2. QED  BY <2>1, <3>1 DEF OneMore
    <2>6. Append(v, val) = v \o <<val>>
        BY AppendIsConcat
    <2>7. QED  BY <2>4, <2>5, <2>6 DEF r
<1>3. <<type>> \in Seq(Types) /\ <<val>> \in Seq(Value)
    OBVIOUS
<1>4. QED  BY <1>2, <1>3 DEF Reads

LEMMA ReadsField ==
    ASSUME NEW type \in Types, NEW val, Fits(val, type)
    PROVE  Reads(write_field(val, type), <<type>>, <<val>>)
BY FieldIsRead, ReadsBytes

\* ... and of fields after others.
LEMMA ReadsMore ==
    ASSUME NEW b1, NEW t1, NEW v1, Reads(b1, t1, v1), NEW b2, NEW t2, NEW v2, Reads(b2, t2, v2)
    PROVE  Reads(b1 \o b2, t1 \o t2, v1 \o v2)
<1>1. /\ b1 \in Seq(Byte) /\ t1 \in Seq(Types) /\ v1 \in Seq(Value)
      /\ b2 \in Seq(Byte) /\ t2 \in Seq(Types) /\ v2 \in Seq(Value)
    BY DEF Reads
<1>2. b1 \o b2 \in Seq(Byte) /\ t1 \o t2 \in Seq(Types) /\ v1 \o v2 \in Seq(Value)
    BY <1>1, ConcatProperties
<1>3. ASSUME NEW v \in Seq(Value), NEW tail \in Seq(Byte)
      PROVE  ReadOn(Reading(v, (b1 \o b2) \o tail), t1 \o t2) = Reading(v \o (v1 \o v2), tail)
    <2>1. (b1 \o b2) \o tail = b1 \o (b2 \o tail) /\ b2 \o tail \in Seq(Byte)
        BY <1>1, ConcatProperties, ConcatAssociative, SMTT(30)
    <2>2. v \o (v1 \o v2) = (v \o v1) \o v2 /\ v \o v1 \in Seq(Value)
        <3>1. (v \o v1) \o v2 = v \o (v1 \o v2)
            <4>1. v1 \in Seq(Value) /\ v2 \in Seq(Value)
                BY <1>1
            <4>2. QED  BY <4>1, ConcatAssociative, SMTT(30)
        <3>2. QED  BY <1>1, <3>1, ConcatProperties
    <2>3. ReadOn(Reading(v, b1 \o (b2 \o tail)), t1) = Reading(v \o v1, b2 \o tail)
        BY <2>1 DEF Reads
    <2>4. ReadOn(Reading(v \o v1, b2 \o tail), t2) = Reading((v \o v1) \o v2, tail)
        BY <2>2 DEF Reads
    <2> DEFINE r == Reading(v, (b1 \o b2) \o tail)
    <2>5. ReadOn(r, t1 \o t2) = ReadOn(ReadOn(r, t1), t2)
        BY <1>1, ReadOnCat
    <2>6. QED  BY <2>1, <2>2, <2>3, <2>4, <2>5
<1>4. QED  BY <1>2, <1>3 DEF Reads

-----------------------------------------------------------------------------

\* The first n.
First(f, n) == [k \in 1..n |-> f[k]]

LEMMA FirstMore ==
    ASSUME NEW S, NEW f, NEW n \in Nat \ {0}, \A k \in 1..n : f[k] \in S
    PROVE  /\ First(f, n) = Append(First(f, n - 1), f[n])
           /\ First(f, n) \in Seq(S) /\ First(f, n - 1) \in Seq(S)
<1>1. First(f, n) \in Seq(S) /\ Len(First(f, n)) = n /\ \A k \in 1..n : First(f, n)[k] = f[k]
    <2>1. First(f, n) \in [1..n -> S]
        BY DEF First
    <2>2. QED  BY <2>1, SeqDef DEF First
<1>2. First(f, n - 1) \in Seq(S) /\ Len(First(f, n - 1)) = n - 1 /\ \A k \in 1..n - 1 : First(f, n - 1)[k] = f[k]
    <2>1. First(f, n - 1) \in [1..n - 1 -> S] /\ n - 1 \in Nat
        BY DEF First
    <2>2. QED  BY <2>1, SeqDef DEF First
<1> DEFINE g == Append(First(f, n - 1), f[n])
<1>3. g \in Seq(S) /\ Len(g) = n /\ \A k \in 1..n - 1 : g[k] = f[k]
    BY <1>2, AppendProperties
<1>4. g[n] = f[n]
    <2>1. g[Len(First(f, n - 1)) + 1] = f[n]
        BY <1>2, AppendProperties
    <2>2. QED  BY <1>2, <2>1
<1> HIDE DEF g
<1>5. \A k \in 1..n : g[k] = First(f, n)[k]
    BY <1>1, <1>3, <1>4
<1>6. g = First(f, n)
    BY <1>1, <1>3, <1>5, SeqEqual
<1>7. QED  BY <1>1, <1>2, <1>6 DEF g

LEMMA FirstAll == ASSUME NEW S, NEW s \in Seq(S)  PROVE First(s, Len(s)) = s
BY LenProperties DEF First

LEMMA FirstNone == ASSUME NEW f  PROVE First(f, 0) = <<>>
BY DEF First

\* One after the other, and each is read.
LEMMA ReadsFlatten ==
    ASSUME NEW n \in Nat, NEW b, NEW t, NEW v, \A k \in 1..n : Reads(b[k], t[k], v[k])
    PROVE  Reads(FlattenSeq(First(b, n)), FlattenSeq(First(t, n)), FlattenSeq(First(v, n)))
<1> DEFINE Q(m) == Reads(FlattenSeq(First(b, m)), FlattenSeq(First(t, m)), FlattenSeq(First(v, m)))
           T == {m \in 0..n : ~Q(m)}
<1>1. \A k \in 1..n : b[k] \in Seq(Byte) /\ t[k] \in Seq(Types) /\ v[k] \in Seq(Value)
    BY DEF Reads
<1>2. T = {}
    <2> SUFFICES ASSUME T # {}  PROVE FALSE
        OBVIOUS
    <2>1. PICK m \in T : \A j \in T : m <= j
        <3>1. T \in SUBSET Nat
            OBVIOUS
        <3> HIDE DEF T
        <3>2. QED  BY <3>1, LeastNat
    <2>2. m \in 0..n /\ ~Q(m) /\ \A j \in 0..n : j < m => Q(j)
        BY <2>1
    <2> HIDE DEF T
    <2>3. m # 0
        <3>1. Q(0)
            BY FirstNone, FlattenEmpty, ReadsNothing
        <3>2. QED  BY <2>2, <3>1
    <2>4. Q(m - 1) /\ m \in 1..n /\ m \in Nat \ {0}
        BY <2>2, <2>3
    <2>5. /\ First(b, m) = Append(First(b, m - 1), b[m]) /\ First(b, m - 1) \in Seq(Seq(Byte))
          /\ First(t, m) = Append(First(t, m - 1), t[m]) /\ First(t, m - 1) \in Seq(Seq(Types))
          /\ First(v, m) = Append(First(v, m - 1), v[m]) /\ First(v, m - 1) \in Seq(Seq(Value))
        <3>1. \A k \in 1..m : b[k] \in Seq(Byte) /\ t[k] \in Seq(Types) /\ v[k] \in Seq(Value)
            BY <1>1, <2>4
        <3>2. QED  BY <2>4, <3>1, FirstMore, ZenonT(30)
    <2>6. /\ FlattenSeq(First(b, m)) = FlattenSeq(First(b, m - 1)) \o b[m]
          /\ FlattenSeq(First(t, m)) = FlattenSeq(First(t, m - 1)) \o t[m]
          /\ FlattenSeq(First(v, m)) = FlattenSeq(First(v, m - 1)) \o v[m]
        BY <1>1, <2>4, <2>5, FlattenAppend
    <2>7. Q(m)
        BY <2>4, <2>6, ReadsMore
    <2>8. QED  BY <2>2, <2>7
<1>3. Q(n)
    BY <1>2
<1>4. QED  BY <1>3

\* Parts of one thing each.
LEMMA FlattenSingles ==
    ASSUME NEW S, NEW s \in Seq(S)
    PROVE  FlattenSeq([k \in 1..Len(s) |-> <<s[k]>>]) = s
<1> DEFINE f == [k \in 1..Len(s) |-> <<s[k]>>]
           T == {m \in 0..Len(s) : FlattenSeq(First(f, m)) # First(s, m)}
<1>1. Len(s) \in Nat /\ \A k \in 1..Len(s) : s[k] \in S /\ f[k] = <<s[k]>> /\ f[k] \in Seq(S)
    BY LenProperties, ElementOfSeq
<1>2. First(f, Len(s)) = f
    BY DEF First
<1> HIDE DEF f
<1>3. T = {}
    <2> SUFFICES ASSUME T # {}  PROVE FALSE
        OBVIOUS
    <2>1. PICK m \in T : \A j \in T : m <= j
        <3>1. T \in SUBSET Nat
            BY <1>1
        <3> HIDE DEF T
        <3>2. QED  BY <3>1, LeastNat
    <2>2. /\ m \in 0..Len(s) /\ FlattenSeq(First(f, m)) # First(s, m)
          /\ \A j \in 0..Len(s) : j < m => FlattenSeq(First(f, j)) = First(s, j)
        BY <1>1, <2>1
    <2> HIDE DEF T
    <2>3. m # 0
        BY <2>2, FirstNone, FlattenEmpty
    <2>4. FlattenSeq(First(f, m - 1)) = First(s, m - 1) /\ m \in 1..Len(s) /\ m \in Nat \ {0}
        BY <1>1, <2>2, <2>3
    <2>5. /\ First(f, m) = Append(First(f, m - 1), f[m]) /\ First(f, m - 1) \in Seq(Seq(S))
          /\ First(s, m) = Append(First(s, m - 1), s[m]) /\ First(s, m - 1) \in Seq(S)
        <3>1. \A k \in 1..m : f[k] \in Seq(S) /\ s[k] \in S
            BY <1>1, <2>4
        <3>2. QED  BY <2>4, <3>1, FirstMore, ZenonT(30)
    <2>6. FlattenSeq(First(f, m)) = First(s, m - 1) \o <<s[m]>>
        BY <1>1, <2>4, <2>5, FlattenAppend
    <2>7. First(s, m - 1) \o <<s[m]>> = Append(First(s, m - 1), s[m])
        BY <1>1, <2>4, <2>5, AppendIsConcat
    <2>8. QED  BY <2>2, <2>5, <2>6, <2>7
<1>4. FlattenSeq(First(f, Len(s))) = First(s, Len(s))
    BY <1>1, <1>3
<1>5. QED  BY <1>2, <1>4, FirstAll DEF f

\* What is written of fields that fit is read.
LEMMA ReadsFields ==
    ASSUME NEW types \in Seq(Types), NEW vals, AllFit(vals, types)
    PROVE  Reads(Write(types, vals), types, vals)
<1> DEFINE n == Len(types)
           b == [k \in 1..n |-> write_field(vals[k], types[k])]
           t == [k \in 1..n |-> <<types[k]>>]
           v == [k \in 1..n |-> <<vals[k]>>]
<1>1. n \in Nat /\ DOMAIN types = 1..n /\ \A k \in 1..n : types[k] \in Types
    BY LenProperties, ElementOfSeq
<1>2. vals = [k \in 1..n |-> vals[k]] /\ \A k \in 1..n : Fits(vals[k], types[k])
    BY <1>1 DEF AllFit
<1>3. \A k \in 1..n : vals[k] \in Value
    BY <1>1, <1>2, FieldIsRead
<1>4. vals \in Seq(Value) /\ Len(vals) = n
    <2>1. vals \in [1..n -> Value]
        BY <1>2, <1>3
    <2>2. QED  BY <1>1, <2>1, SeqDef
<1>5. Write(types, vals) = FlattenSeq(b)
    BY <1>1 DEF Write
<1>6. \A k \in 1..n : Reads(b[k], t[k], v[k])
    BY <1>1, <1>2, ReadsField
<1>7. First(b, n) = b /\ First(t, n) = t /\ First(v, n) = v
    BY DEF First
<1>8. FlattenSeq(t) = types
    BY FlattenSingles
<1>9. FlattenSeq(v) = vals
    <2>1. v = [k \in 1..Len(vals) |-> <<vals[k]>>]
        BY <1>4
    <2> HIDE DEF v
    <2>2. QED  BY <1>4, <2>1, FlattenSingles
<1> HIDE DEF b, t, v, n
<1>10. Reads(FlattenSeq(First(b, n)), FlattenSeq(First(t, n)), FlattenSeq(First(v, n)))
    BY <1>1, <1>6, ReadsFlatten
<1>11. QED  BY <1>5, <1>7, <1>8, <1>9, <1>10

\* Whether an integer's field is signed does not matter when it is written.
LEMMA WriteAlike ==
    ASSUME NEW s \in Seq(Types), NEW t \in Seq(Types), Len(s) = Len(t), NEW vals,
           \A k \in 1..Len(t) : write_field(vals[k], s[k]) = write_field(vals[k], t[k])
    PROVE  Write(s, vals) = Write(t, vals)
<1>1. DOMAIN s = 1..Len(t) /\ DOMAIN t = 1..Len(t)
    BY LenProperties
<1>2. [k \in DOMAIN s |-> write_field(vals[k], s[k])] = [k \in DOMAIN t |-> write_field(vals[k], t[k])]
    BY <1>1
<1>3. QED  BY <1>2 DEF Write

-----------------------------------------------------------------------------
(* Matches.                                                                 *)

\* What is where when one sequence follows another.
LEMMA CatAt ==
    ASSUME NEW S, NEW s \in Seq(S), NEW t \in Seq(S)
    PROVE  /\ s \o t \in Seq(S) /\ Len(s \o t) = Len(s) + Len(t)
           /\ \A k \in 1..Len(s) : (s \o t)[k] = s[k]
           /\ \A k \in 1..Len(t) : (s \o t)[Len(s) + k] = t[k]
BY ConcatProperties, LenProperties

\* The types and values of a match, put together from parts.
LEMMA HeadParts ==
    ASSUME NEW a, NEW b, NEW c, NEW d, NEW e, NEW f, NEW g, NEW h, NEW i
    PROVE  (<<a, b, c, d, e>> \o <<f>>) \o <<g, h, i>> = <<a, b, c, d, e, f, g, h, i>>
<1> DEFINE S == {a, b, c, d, e, f, g, h, i}
           s == <<a, b, c, d, e>> \o <<f>>
           t == s \o <<g, h, i>>
           u == <<a, b, c, d, e, f, g, h, i>>
<1>1. <<a, b, c, d, e>> \in Seq(S) /\ <<f>> \in Seq(S) /\ <<g, h, i>> \in Seq(S) /\ u \in Seq(S) /\ Len(u) = 9
    OBVIOUS
<1> HIDE DEF S
<1>2. s \in Seq(S) /\ Len(s) = 6 /\ s[1] = a /\ s[2] = b /\ s[3] = c /\ s[4] = d /\ s[5] = e /\ s[6] = f
    BY <1>1, ConcatProperties
<1> HIDE DEF s
<1>3. t \in Seq(S) /\ Len(t) = 9 /\ (\A k \in 1..6 : t[k] = s[k]) /\ t[7] = g /\ t[8] = h /\ t[9] = i
    <2> DEFINE q == <<g, h, i>>
    <2>1. q \in Seq(S) /\ Len(q) = 3 /\ q[1] = g /\ q[2] = h /\ q[3] = i
        BY <1>1
    <2> HIDE DEF q
    <2>2. /\ s \o q \in Seq(S) /\ Len(s \o q) = Len(s) + Len(q)
          /\ \A k \in 1..Len(s) : (s \o q)[k] = s[k]
          /\ \A k \in 1..Len(q) : (s \o q)[Len(s) + k] = q[k]
        <3>1. s \in Seq(S) /\ q \in Seq(S)
            BY <1>2, <2>1
        <3> HIDE DEF t, u
        <3>2. QED  BY <3>1, CatAt
    <2> DEFINE r == s \o q
    <2>3. r[6 + 1] = g /\ r[6 + 2] = h /\ r[6 + 3] = i
        BY <1>2, <2>1, <2>2
    <2>4. r \in Seq(S) /\ Len(r) = 9 /\ (\A k \in 1..6 : r[k] = s[k])
        BY <1>2, <2>1, <2>2
    <2> HIDE DEF r
    <2>5. r \in Seq(S) /\ Len(r) = 9 /\ (\A k \in 1..6 : r[k] = s[k]) /\ r[7] = g /\ r[8] = h /\ r[9] = i
        BY <2>3, <2>4
    <2>6. QED  BY <2>5 DEF r, q
<1>4. \A k \in 1..9 : t[k] = u[k]
    BY <1>2, <1>3
<1> HIDE DEF t, u
<1>5. t = u
    BY <1>1, <1>3, <1>4, SeqEqual
<1>6. QED  BY <1>5 DEF s, t, u

LEMMA MiddleParts == <<"i32">> \o Times(4, "i8") = <<"i32", "i8", "i8", "i8", "i8">>
<1> DEFINE s == <<"i32">> \o Times(4, "i8")
           t == <<"i32", "i8", "i8", "i8", "i8">>
<1>1. Times(4, "i8") \in [1..4 -> Types]
    BY Widths DEF Times
<1>2. Times(4, "i8") \in Seq(Types) /\ Len(Times(4, "i8")) = 4 /\ \A k \in 1..4 : Times(4, "i8")[k] = "i8"
    BY <1>1, SeqDef DEF Times
<1>3. <<"i32">> \in Seq(Types) /\ t \in Seq(Types) /\ Len(t) = 5
    BY Widths
<1>4. s \in Seq(Types) /\ Len(s) = 5 /\ s[1] = "i32" /\ s[2] = "i8" /\ s[3] = "i8" /\ s[4] = "i8" /\ s[5] = "i8"
    <2> DEFINE q == Times(4, "i8")
               p == <<"i32">>
    <2>1. q \in Seq(Types) /\ Len(q) = 4 /\ (\A k \in 1..4 : q[k] = "i8") /\ p \in Seq(Types) /\ Len(p) = 1 /\ p[1] = "i32"
        BY <1>2, <1>3
    <2> HIDE DEF p, q
    <2>2. /\ p \o q \in Seq(Types) /\ Len(p \o q) = Len(p) + Len(q)
          /\ \A k \in 1..Len(p) : (p \o q)[k] = p[k]
          /\ \A k \in 1..Len(q) : (p \o q)[Len(p) + k] = q[k]
        <3>1. p \in Seq(Types) /\ q \in Seq(Types)
            BY <2>1
        <3> HIDE DEF s, t
        <3>2. QED  BY <3>1, CatAt
    <2> DEFINE r == p \o q
    <2>3. r[1] = "i32" /\ r[1 + 1] = "i8" /\ r[1 + 2] = "i8" /\ r[1 + 3] = "i8" /\ r[1 + 4] = "i8"
        BY <2>1, <2>2
    <2>4. r \in Seq(Types) /\ Len(r) = 5
        BY <2>1, <2>2
    <2> HIDE DEF r
    <2>5. r \in Seq(Types) /\ Len(r) = 5 /\ r[1] = "i32" /\ r[2] = "i8" /\ r[3] = "i8" /\ r[4] = "i8" /\ r[5] = "i8"
        BY <2>3, <2>4
    <2>6. QED  BY <2>5 DEF p, q, r
<1>5. \A k \in 1..5 : s[k] = t[k]
    BY <1>4
<1> HIDE DEF s, t
<1>6. s = t
    BY <1>3, <1>4, <1>5, SeqEqual
<1>7. QED  BY <1>6 DEF s, t

\* The same type for every slot.
LEMMA TimesSeq ==
    ASSUME NEW n \in Nat, NEW type \in Types
    PROVE  Times(n, type) \in Seq(Types) /\ Len(Times(n, type)) = n /\ \A k \in 1..n : Times(n, type)[k] = type
<1>1. Times(n, type) \in [1..n -> Types]
    BY DEF Times
<1>2. QED  BY <1>1, SeqDef DEF Times

\* Fields of one width are written alike, signed or not.
LEMMA SameWidth ==
    ASSUME NEW val
    PROVE  /\ write_field(val, "u16") = write_field(val, "i16") /\ write_field(val, "u32") = write_field(val, "i32")
           /\ write_field(val, "u8") = write_field(val, "i8")
           /\ WriteInt(val, 4) = write_field(val, "i32") /\ WriteInt(val, 2) = write_field(val, "u16")
           /\ write_string(val) = write_field(val, "string")
BY DEF write_field, Width

\* A column of a match's slots.
LEMMA ReadsColumn ==
    ASSUME NEW n \in Nat, NEW s \in Types, NEW t \in Types, \A val : write_field(val, s) = write_field(val, t),
           NEW f, f = [k \in 1..n |-> f[k]], \A k \in 1..n : Fits(f[k], t)
    PROVE  Reads(Write(Times(n, s), f), Times(n, t), f)
<1>1. AllFit(f, Times(n, t))
    BY TimesSeq DEF AllFit, Times
<1>2. Reads(Write(Times(n, t), f), Times(n, t), f)
    BY <1>1, TimesSeq, ReadsFields
<1>3. Write(Times(n, s), f) = Write(Times(n, t), f)
    BY TimesSeq, WriteAlike
<1>4. QED  BY <1>2, <1>3

\* The password of a match as it is written: as it is, or as an empty string
\* that exists.
Secret(m, send_pw) == IF m.passwd # <<>> /\ ~send_pw THEN <<11, 0>> ELSE write_string(m.passwd)

\* A string of no bytes that exists is read as empty.
LEMMA EmptyIsRead == ASSUME NEW tail \in Seq(Byte)  PROVE read_string(<<11, 0>> \o tail) = Reading(<<>>, tail)
<1> DEFINE e == <<>>
           u == write_uleb128(Len(e))
<1>1. e \in Seq(Byte) /\ Len(e) = 0
    OBVIOUS
<1>2. u = <<0>>
    <2>1. 0 \in Nat /\ 0 < 128
        OBVIOUS
    <2>2. write_uleb128(0) = UlebOf(0, write_uleb128(0 \div 128))
        BY <2>1, UlebIs
    <2>3. UlebOf(0, write_uleb128(0 \div 128)) = <<0>>
        BY <2>1 DEF UlebOf
    <2>4. QED  BY <1>1, <2>2, <2>3
<1> HIDE DEF e
<1>3. read_string(((<<11>> \o u) \o e) \o tail) = Reading(e, tail)
    BY <1>1, StringIsRead
<1> HIDE DEF u
<1>4. <<11>> \o u = <<11, 0>>
    <2>1. <<11>> \in Seq(Byte) /\ <<0>> \in Seq(Byte) /\ <<11, 0>> \in Seq(Byte)
        BY DEF Byte
    <2>2. <<11>> \o <<0>> \in Seq(Byte) /\ Len(<<11>> \o <<0>>) = 2
        BY <2>1
    <2>3. (<<11>> \o <<0>>)[1] = 11 /\ (<<11>> \o <<0>>)[2] = 0
        OBVIOUS
    <2>4. \A k \in 1..2 : (<<11>> \o <<0>>)[k] = <<11, 0>>[k]
        BY <2>3
    <2>5. <<11>> \o <<0>> = <<11, 0>>
        BY <2>1, <2>2, <2>4, SeqEqual
    <2>6. QED  BY <1>2, <2>5
<1>5. <<11, 0>> \in Seq(Byte)
    BY DEF Byte
<1>6. <<11, 0>> \o e = <<11, 0>>
    BY <1>5, ConcatEmptySeq DEF e
<1>7. QED  BY <1>3, <1>4, <1>6 DEF e

\* A password that is not shown is read as empty.
LEMMA ReadsSecret ==
    ASSUME NEW m, Fits(m.passwd, "string"), NEW send_pw \in BOOLEAN
    PROVE  Reads(Secret(m, send_pw), <<"string">>, <<IF send_pw THEN m.passwd ELSE <<>>>>)
<1>1. CASE m.passwd # <<>> /\ ~send_pw
    <2>1. Secret(m, send_pw) = <<11, 0>> /\ <<11, 0>> \in Seq(Byte) /\ <<>> \in Value /\ "string" \in Types
        BY <1>1, Widths DEF Secret, Byte, Value
    <2>2. ASSUME NEW tail \in Seq(Byte)  PROVE read_field(<<11, 0>> \o tail, "string") = Reading(<<>>, tail)
        <3>1. read_string(<<11, 0>> \o tail) = Reading(<<>>, tail)
            BY EmptyIsRead
        <3>2. QED  BY <3>1 DEF read_field
    <2>3. Reads(<<11, 0>>, <<"string">>, <<<<>>>>)
        BY <2>1, <2>2, ReadsBytes
    <2>4. QED  BY <1>1, <2>1, <2>3
<1>2. CASE ~(m.passwd # <<>> /\ ~send_pw)
    <2>1. Secret(m, send_pw) = write_field(m.passwd, "string") /\ (IF send_pw THEN m.passwd ELSE <<>>) = m.passwd
        BY <1>2, SameWidth DEF Secret
    <2>2. "string" \in Types
        BY Widths
    <2>3. QED  BY <2>1, <2>2, ReadsField
<1>3. QED  BY <1>1, <1>2

\* What a match begins with.
MatchTypes == <<"i16", "i8", "i8", "i32", "string", "string", "string", "i32", "string">>
MatchVals(m, send_pw) == <<m.id, m.in_progress, 0, m.mods, m.name, IF send_pw THEN m.passwd ELSE <<>>, m.map_name, m.map_id, m.map_md5>>
Part1(m) == Write(<<"u16", "i8", "i8", "u32", "string">>, <<m.id, m.in_progress, 0, m.mods, m.name>>)
Part2(m) == Write(<<"string", "i32", "string">>, <<m.map_name, m.map_id, m.map_md5>>)
Part3(m) == Write(<<"u32", "u8", "u8", "u8", "u8">>, <<m.host, m.mode, m.win_condition, m.team_type, m.freemods>>)

LEMMA ZeroFits == Fits(0, "i8")
<1>1. Shifted(0, 1 - 1) = 0
    BY ShiftedIs
<1>2. QED  BY <1>1 DEF Fits, SignedTypes, Width

\* The fields before the slots are read.
LEMMA ReadsStart ==
    ASSUME NEW m, MatchFits(m), NEW send_pw \in BOOLEAN
    PROVE  Reads((Part1(m) \o Secret(m, send_pw)) \o Part2(m), MatchTypes, MatchVals(m, send_pw))
<1>1. /\ Fits(m.id, "i16") /\ Fits(m.in_progress, "i8") /\ Fits(m.mods, "i32") /\ Fits(m.name, "string") /\ Fits(m.passwd, "string")
      /\ Fits(m.map_name, "string") /\ Fits(m.map_id, "i32") /\ Fits(m.map_md5, "string")
    BY DEF MatchFits, AllFit
<1>2. Reads(Part1(m), <<"i16", "i8", "i8", "i32", "string">>, <<m.id, m.in_progress, 0, m.mods, m.name>>)
    <2> DEFINE vals == <<m.id, m.in_progress, 0, m.mods, m.name>>
               s == <<"u16", "i8", "i8", "u32", "string">>
               t == <<"i16", "i8", "i8", "i32", "string">>
    <2>1. s \in Seq(Types) /\ t \in Seq(Types) /\ Len(s) = Len(t) /\ Len(t) = 5
        BY Widths
    <2>2. \A k \in 1..5 : write_field(vals[k], s[k]) = write_field(vals[k], t[k])
        BY SameWidth
    <2>3. AllFit(vals, t)
        BY <1>1, ZeroFits DEF AllFit
    <2>4. Part1(m) = Write(s, vals)
        BY DEF Part1
    <2> HIDE DEF vals, s, t
    <2>5. Write(s, vals) = Write(t, vals)
        BY <2>1, <2>2, WriteAlike
    <2>6. Reads(Part1(m), t, vals)
        BY <2>1, <2>3, <2>4, <2>5, ReadsFields
    <2>7. QED  BY <2>6 DEF t, vals
<1>3. Reads(Part2(m), <<"string", "i32", "string">>, <<m.map_name, m.map_id, m.map_md5>>)
    <2>1. AllFit(<<m.map_name, m.map_id, m.map_md5>>, <<"string", "i32", "string">>)
        BY <1>1 DEF AllFit
    <2>2. <<"string", "i32", "string">> \in Seq(Types)
        BY Widths
    <2>3. QED  BY <2>1, <2>2, ReadsFields DEF Part2
<1>4. Reads(Secret(m, send_pw), <<"string">>, <<IF send_pw THEN m.passwd ELSE <<>>>>)
    BY <1>1, ReadsSecret
<1> DEFINE t == (<<"i16", "i8", "i8", "i32", "string">> \o <<"string">>) \o <<"string", "i32", "string">>
           v == (<<m.id, m.in_progress, 0, m.mods, m.name>> \o <<IF send_pw THEN m.passwd ELSE <<>>>>)
                \o <<m.map_name, m.map_id, m.map_md5>>
<1>5. Reads((Part1(m) \o Secret(m, send_pw)) \o Part2(m), t, v)
    BY <1>2, <1>3, <1>4, ReadsMore
<1>6. t = MatchTypes
    BY HeadParts DEF MatchTypes
<1>7. v = MatchVals(m, send_pw)
    BY HeadParts DEF MatchVals
<1>8. QED  BY <1>5, <1>6, <1>7

\* The parts that write_match and read_match go by: up to the slots' teams, the
\* ids, from the host to freemods, and the slots' mods.
HeadBytes(m, send_pw) ==
    (((Part1(m) \o Secret(m, send_pw)) \o Part2(m)) \o Write(Times(Slots, "u8"), Statuses(m))) \o Write(Times(Slots, "u8"), Teams(m))
HeadTypes == (MatchTypes \o Times(Slots, "i8")) \o Times(Slots, "i8")
HeadVals(m, send_pw) == (MatchVals(m, send_pw) \o Statuses(m)) \o Teams(m)
IdBytes(m) == OfPlayers(m, [k \in 1..Slots |-> WriteInt(m.slots[k].player, 4)])
IdVals(m) == OfPlayers(m, [k \in 1..Slots |-> <<m.slots[k].player>>])
MiddleVals(m) == <<m.host, m.mode, m.win_condition, m.team_type, m.freemods>>
ModBytes(m) == IF m.freemods = 1 THEN Write(Times(Slots, "u32"), SlotMods(m)) ELSE <<>>
ModTypes(m) == IF m.freemods = 1 THEN Times(Slots, "i32") ELSE <<>>
ModVals(m) == IF m.freemods = 1 THEN SlotMods(m) ELSE <<>>

\* A slot's values have room.
LEMMA SlotFits ==
    ASSUME NEW m, MatchFits(m), NEW k \in 1..Slots
    PROVE  /\ Fits(m.slots[k].status, "i8") /\ Fits(m.slots[k].team, "i8")
           /\ Fits(m.slots[k].player, "i32") /\ Fits(m.slots[k].mods, "i32")
<1>1. AllFit(<<m.slots[k].status, m.slots[k].team, m.slots[k].player, m.slots[k].mods>>, <<"i8", "i8", "i32", "i32">>)
    BY DEF MatchFits
<1>2. QED  BY <1>1 DEF AllFit

\* The fields up to the slots' teams are read.
LEMMA ReadsHead ==
    ASSUME NEW m, MatchFits(m), NEW send_pw \in BOOLEAN, Slots \in Nat
    PROVE  Reads(HeadBytes(m, send_pw), HeadTypes, HeadVals(m, send_pw))
<1>1. "u8" \in Types /\ "i8" \in Types /\ \A val : write_field(val, "u8") = write_field(val, "i8")
    BY Widths, SameWidth
<1>2. Reads(Write(Times(Slots, "u8"), Statuses(m)), Times(Slots, "i8"), Statuses(m))
    <2> DEFINE f == Statuses(m)
    <2>1. f = [k \in 1..Slots |-> f[k]] /\ \A k \in 1..Slots : f[k] = m.slots[k].status
        BY DEF Statuses
    <2> HIDE DEF f
    <2>2. \A k \in 1..Slots : Fits(f[k], "i8")
        BY <2>1, SlotFits
    <2>3. Reads(Write(Times(Slots, "u8"), f), Times(Slots, "i8"), f)
        BY <1>1, <2>1, <2>2, ReadsColumn
    <2>4. QED  BY <2>3 DEF f
<1>3. Reads(Write(Times(Slots, "u8"), Teams(m)), Times(Slots, "i8"), Teams(m))
    <2> DEFINE f == Teams(m)
    <2>1. f = [k \in 1..Slots |-> f[k]] /\ \A k \in 1..Slots : f[k] = m.slots[k].team
        BY DEF Teams
    <2> HIDE DEF f
    <2>2. \A k \in 1..Slots : Fits(f[k], "i8")
        BY <2>1, SlotFits
    <2>3. Reads(Write(Times(Slots, "u8"), f), Times(Slots, "i8"), f)
        BY <1>1, <2>1, <2>2, ReadsColumn
    <2>4. QED  BY <2>3 DEF f
<1>4. QED  BY <1>2, <1>3, ReadsStart, ReadsMore DEF HeadBytes, HeadTypes, HeadVals

\* What is read as a slot's status is its status, ...
LEMMA StatusesRead ==
    ASSUME NEW m, MatchFits(m), NEW send_pw \in BOOLEAN, Slots \in Nat, NEW k \in 1..Slots
    PROVE  HeadVals(m, send_pw)[9 + k] = m.slots[k].status
<1> DEFINE a == MatchVals(m, send_pw)
           b == Statuses(m)
           c == Teams(m)
<1>0. ASSUME NEW x  PROVE Len(<<x, x, x, x, x, x, x, x, x>>) = 9
    OBVIOUS
<1>1. a \in Seq(Value) /\ Len(a) = 9
    <2>1. Reads((Part1(m) \o Secret(m, send_pw)) \o Part2(m), MatchTypes, a)
        BY ReadsStart
    <2>2. a \in Seq(Value)
        BY <2>1 DEF Reads
    <2>3. Len(a) = 9
        BY DEF MatchVals
    <2>4. QED  BY <2>2, <2>3
<1>2. b \in Seq(Value) /\ c \in Seq(Value) /\ Len(b) = Slots /\ b[k] = m.slots[k].status
    <2>1. "i8" \in Types
        BY Widths
    <2>2. \A j \in 1..Slots : m.slots[j].status \in Value /\ m.slots[j].team \in Value
        BY <2>1, SlotFits, FieldIsRead
    <2>3. b \in [1..Slots -> Value] /\ c \in [1..Slots -> Value] /\ b[k] = m.slots[k].status
        BY <2>2 DEF Statuses, Teams
    <2>4. QED  BY <2>3, SeqDef
<1> HIDE DEF a, b, c
<1>3. a \o b \in Seq(Value) /\ Len(a \o b) = 9 + Slots /\ (a \o b)[9 + k] = b[k]
    <2>1. a \in Seq(Value) /\ b \in Seq(Value)
        BY <1>1, <1>2
    <2>2. /\ a \o b \in Seq(Value) /\ Len(a \o b) = Len(a) + Len(b)
          /\ \A j \in 1..Len(b) : (a \o b)[Len(a) + j] = b[j]
        BY <2>1, CatAt
    <2>3. QED  BY <1>1, <1>2, <2>2
<1> DEFINE d == a \o b
<1>4. d \in Seq(Value) /\ c \in Seq(Value) /\ Len(d) = 9 + Slots /\ 9 + k \in 1..9 + Slots
    BY <1>2, <1>3
<1> HIDE DEF d
<1>5. \A j \in 1..Len(d) : (d \o c)[j] = d[j]
    <2>1. d \in Seq(Value) /\ c \in Seq(Value)
        BY <1>4
    <2>2. QED  BY <2>1, CatAt
<1>6. (d \o c)[9 + k] = d[9 + k]
    BY <1>4, <1>5
<1>7. (d \o c)[9 + k] = m.slots[k].status
    BY <1>2, <1>3, <1>6 DEF d
<1>8. QED  BY <1>7 DEF HeadVals, a, b, c, d

\* ... so as many ids are read as have been written.
LEMMA ReadsIds ==
    ASSUME NEW m, MatchFits(m), NEW send_pw \in BOOLEAN, Slots \in Nat
    PROVE  Reads(IdBytes(m), SlotIds(HeadVals(m, send_pw)), IdVals(m))
<1> DEFINE has(k) == HasPlayer(m.slots[k].status)
           b == [k \in 1..Slots |-> IF has(k) THEN WriteInt(m.slots[k].player, 4) ELSE <<>>]
           t == [k \in 1..Slots |-> IF has(k) THEN <<"i32">> ELSE <<>>]
           v == [k \in 1..Slots |-> IF has(k) THEN <<m.slots[k].player>> ELSE <<>>]
<1>1. \A k \in 1..Slots : Reads(b[k], t[k], v[k])
    <2> SUFFICES ASSUME NEW k \in 1..Slots  PROVE Reads(b[k], t[k], v[k])
        OBVIOUS
    <2>1. Reads(WriteInt(m.slots[k].player, 4), <<"i32">>, <<m.slots[k].player>>)
        <3>1. Fits(m.slots[k].player, "i32") /\ "i32" \in Types
            BY SlotFits, Widths
        <3>2. Reads(write_field(m.slots[k].player, "i32"), <<"i32">>, <<m.slots[k].player>>)
            BY <3>1, ReadsField
        <3>3. QED  BY <3>2, SameWidth
    <2>2. CASE has(k)
        <3>1. b[k] = WriteInt(m.slots[k].player, 4) /\ t[k] = <<"i32">> /\ v[k] = <<m.slots[k].player>>
            BY <2>2
        <3> HIDE DEF b, t, v, has
        <3>2. QED  BY <2>1, <3>1
    <2>3. CASE ~has(k)
        <3>1. b[k] = <<>> /\ t[k] = <<>> /\ v[k] = <<>>
            BY <2>3
        <3> HIDE DEF b, t, v, has
        <3>2. QED  BY <3>1, ReadsNothing
    <2>4. QED  BY <2>2, <2>3
<1>2. First(b, Slots) = b /\ First(t, Slots) = t /\ First(v, Slots) = v
    BY DEF First
<1>3. IdBytes(m) = FlattenSeq(b)
    <2>1. b = [k \in 1..Slots |-> IF HasPlayer(m.slots[k].status) THEN [j \in 1..Slots |-> WriteInt(m.slots[j].player, 4)][k] ELSE <<>>]
        OBVIOUS
    <2> HIDE DEF b
    <2>2. QED  BY <2>1, Zenon DEF IdBytes, OfPlayers
<1>4. IdVals(m) = FlattenSeq(v)
    <2>1. v = [k \in 1..Slots |-> IF HasPlayer(m.slots[k].status) THEN [j \in 1..Slots |-> <<m.slots[j].player>>][k] ELSE <<>>]
        OBVIOUS
    <2> HIDE DEF v
    <2>2. QED  BY <2>1, Zenon DEF IdVals, OfPlayers
<1>5. SlotIds(HeadVals(m, send_pw)) = FlattenSeq(t)
    <2> DEFINE vals == HeadVals(m, send_pw)
    <2>1. \A k \in 1..Slots : vals[9 + k] = m.slots[k].status
        BY StatusesRead
    <2> HIDE DEF vals
    <2>2. t = [k \in 1..Slots |-> IF ReadsId(vals[9 + k]) THEN <<"i32">> ELSE <<>>]
        BY <2>1 DEF ReadsId, HasPlayer
    <2> HIDE DEF t
    <2>3. SlotIds(vals) = FlattenSeq(t)
        BY <2>2 DEF SlotIds
    <2>4. QED  BY <2>3 DEF vals
<1> HIDE DEF b, t, v
<1>6. Reads(FlattenSeq(First(b, Slots)), FlattenSeq(First(t, Slots)), FlattenSeq(First(v, Slots)))
    BY <1>1, ReadsFlatten
<1>7. QED  BY <1>2, <1>3, <1>4, <1>5, <1>6

\* From the ids to freemods.
LEMMA ReadsMiddle ==
    ASSUME NEW m, MatchFits(m), NEW send_pw \in BOOLEAN, Slots \in Nat
    PROVE  Reads(IdBytes(m) \o Part3(m), SlotIds(HeadVals(m, send_pw)) \o <<"i32">> \o Times(4, "i8"), IdVals(m) \o MiddleVals(m))
<1>1. Fits(m.host, "i32") /\ Fits(m.mode, "i8") /\ Fits(m.win_condition, "i8") /\ Fits(m.team_type, "i8") /\ Fits(m.freemods, "i8")
    BY DEF MatchFits, AllFit
<1>2. Reads(Part3(m), <<"i32", "i8", "i8", "i8", "i8">>, MiddleVals(m))
    <2> DEFINE vals == MiddleVals(m)
               s == <<"u32", "u8", "u8", "u8", "u8">>
               t == <<"i32", "i8", "i8", "i8", "i8">>
    <2>1. s \in Seq(Types) /\ t \in Seq(Types) /\ Len(s) = Len(t) /\ Len(t) = 5
        BY Widths
    <2>2. \A k \in 1..5 : write_field(vals[k], s[k]) = write_field(vals[k], t[k])
        BY SameWidth
    <2>3. AllFit(vals, t)
        BY <1>1 DEF AllFit, MiddleVals
    <2>4. Part3(m) = Write(s, vals)
        BY DEF Part3, MiddleVals
    <2> HIDE DEF vals, s, t
    <2>5. Write(s, vals) = Write(t, vals)
        BY <2>1, <2>2, WriteAlike
    <2>6. Reads(Part3(m), t, vals)
        BY <2>1, <2>3, <2>4, <2>5, ReadsFields
    <2>7. QED  BY <2>6 DEF t, vals
<1> DEFINE ids == SlotIds(HeadVals(m, send_pw))
<1>3. Reads(IdBytes(m), ids, IdVals(m))
    BY ReadsIds
<1>4. Reads(IdBytes(m) \o Part3(m), ids \o (<<"i32">> \o Times(4, "i8")), IdVals(m) \o MiddleVals(m))
    BY <1>2, <1>3, ReadsMore, MiddleParts
<1>5. ids \in Seq(Types)
    BY <1>3 DEF Reads
<1>6. <<"i32">> \in Seq(Types) /\ Times(4, "i8") \in Seq(Types)
    <2>1. "i32" \in Types /\ "i8" \in Types
        BY Widths
    <2>2. QED  BY <2>1, TimesSeq
<1> HIDE DEF ids
<1>7. ids \o (<<"i32">> \o Times(4, "i8")) = (ids \o <<"i32">>) \o Times(4, "i8")
    <2> DEFINE p == <<"i32">>
               q == Times(4, "i8")
    <2>1. p \in Seq(Types) /\ q \in Seq(Types)
        BY <1>6
    <2> HIDE DEF p, q
    <2>2. ids \o (p \o q) = (ids \o p) \o q
        BY <1>5, <2>1, ConcatAssociative, SMTT(30)
    <2>3. QED  BY <2>2 DEF p, q
<1>8. QED  BY <1>4, <1>7 DEF ids

\* The slots' mods are read if they have been written.
LEMMA ReadsMods ==
    ASSUME NEW m, MatchFits(m), Slots \in Nat
    PROVE  Reads(ModBytes(m), ModTypes(m), ModVals(m))
<1>1. CASE m.freemods = 1
    <2> DEFINE f == SlotMods(m)
    <2>1. f = [k \in 1..Slots |-> f[k]] /\ \A k \in 1..Slots : f[k] = m.slots[k].mods
        BY DEF SlotMods
    <2> HIDE DEF f
    <2>2. \A k \in 1..Slots : Fits(f[k], "i32")
        BY <2>1, SlotFits
    <2>3. "u32" \in Types /\ "i32" \in Types /\ \A val : write_field(val, "u32") = write_field(val, "i32")
        BY Widths, SameWidth
    <2>4. Reads(Write(Times(Slots, "u32"), f), Times(Slots, "i32"), f)
        BY <2>1, <2>2, <2>3, ReadsColumn
    <2>5. QED  BY <1>1, <2>4 DEF f, ModBytes, ModTypes, ModVals
<1>2. CASE m.freemods # 1
    BY <1>2, ReadsNothing DEF ModBytes, ModTypes, ModVals
<1>3. QED  BY <1>1, <1>2

\* The seed is read.
LEMMA ReadsSeed ==
    ASSUME NEW m, MatchFits(m)
    PROVE  Reads(WriteInt(m.seed, 4), <<"i32">>, <<m.seed>>)
<1>1. Fits(m.seed, "i32") /\ "i32" \in Types
    BY Widths DEF MatchFits, AllFit
<1>2. Reads(write_field(m.seed, "i32"), <<"i32">>, <<m.seed>>)
    BY <1>1, ReadsField
<1>3. QED  BY <1>2, SameWidth

\* Read and ReadOn, of bytes that read as something.
LEMMA ReadsFirst ==
    ASSUME NEW b, NEW t, NEW v, Reads(b, t, v), NEW tail \in Seq(Byte)
    PROVE  Read(t, b \o tail) = Reading(v, tail)
<1>1. v \in Seq(Value) /\ <<>> \in Seq(Value)
    BY DEF Reads
<1>2. ReadOn(Reading(<<>>, b \o tail), t) = Reading(<<>> \o v, tail)
    BY <1>1 DEF Reads
<1>3. <<>> \o v = v
    BY <1>1, ConcatEmptySeq
<1>4. QED  BY <1>2, <1>3 DEF Read

LEMMA ReadsNext ==
    ASSUME NEW b, NEW t, NEW v, Reads(b, t, v), NEW w \in Seq(Value), NEW tail \in Seq(Byte)
    PROVE  ReadOn(Reading(w, b \o tail), t) = Reading(w \o v, tail) /\ w \o v \in Seq(Value)
<1>1. v \in Seq(Value)
    BY DEF Reads
<1>2. w \o v \in Seq(Value)
    BY <1>1, ConcatProperties
<1>3. QED  BY <1>2 DEF Reads

\* A match as its parts.
MatchBytes(m, send_pw) ==
    (((HeadBytes(m, send_pw) \o IdBytes(m)) \o Part3(m)) \o ModBytes(m)) \o WriteInt(m.seed, 4)

LEMMA MatchIs == ASSUME NEW m, NEW send_pw  PROVE write_match(m, send_pw) = MatchBytes(m, send_pw)
BY DEF write_match, MatchBytes, HeadBytes, Part1, Secret, Part2, IdBytes, Part3, ModBytes

LEMMA ShownIs ==
    ASSUME NEW m, NEW send_pw
    PROVE  Shown(m, send_pw) = (((HeadVals(m, send_pw) \o IdVals(m)) \o MiddleVals(m)) \o ModVals(m)) \o <<m.seed>>
BY DEF Shown, HeadVals, MatchVals, IdVals, MiddleVals, ModVals

\* The parts are bytes and values.
LEMMA MatchFacts ==
    ASSUME NEW m, MatchFits(m), NEW send_pw \in BOOLEAN, Slots \in Nat
    PROVE  /\ HeadBytes(m, send_pw) \in Seq(Byte) /\ IdBytes(m) \in Seq(Byte) /\ Part3(m) \in Seq(Byte)
           /\ ModBytes(m) \in Seq(Byte) /\ WriteInt(m.seed, 4) \in Seq(Byte)
           /\ HeadVals(m, send_pw) \in Seq(Value) /\ IdVals(m) \in Seq(Value) /\ MiddleVals(m) \in Seq(Value)
           /\ ModVals(m) \in Seq(Value)
<1>1. /\ HeadBytes(m, send_pw) \in Seq(Byte) /\ HeadVals(m, send_pw) \in Seq(Value)
      /\ IdBytes(m) \in Seq(Byte) /\ IdVals(m) \in Seq(Value)
      /\ ModBytes(m) \in Seq(Byte) /\ ModVals(m) \in Seq(Value) /\ WriteInt(m.seed, 4) \in Seq(Byte)
    BY ReadsHead, ReadsIds, ReadsMods, ReadsSeed DEF Reads
<1>2. Part3(m) \in Seq(Byte) /\ MiddleVals(m) \in Seq(Value)
    <2> DEFINE vals == MiddleVals(m)
               s == <<"u32", "u8", "u8", "u8", "u8">>
               t == <<"i32", "i8", "i8", "i8", "i8">>
    <2>1. s \in Seq(Types) /\ t \in Seq(Types) /\ Len(s) = Len(t) /\ Len(t) = 5
        BY Widths
    <2>2. \A k \in 1..5 : write_field(vals[k], s[k]) = write_field(vals[k], t[k])
        BY SameWidth
    <2>3. AllFit(vals, t)
        BY DEF AllFit, MatchFits, MiddleVals
    <2>4. Part3(m) = Write(s, vals)
        BY DEF Part3, MiddleVals
    <2> HIDE DEF vals, s, t
    <2>5. Write(s, vals) = Write(t, vals)
        BY <2>1, <2>2, WriteAlike
    <2>6. Reads(Part3(m), t, vals)
        BY <2>1, <2>3, <2>4, <2>5, ReadsFields
    <2>7. QED  BY <2>6 DEF Reads, vals
<1>3. QED  BY <1>1, <1>2

\* \o under a name of its own, so that its laws are used where they are cited
\* and nowhere else.
Cat(s, t) == s \o t

LEMMA CatIsSeq == ASSUME NEW S, NEW a \in Seq(S), NEW b \in Seq(S)  PROVE Cat(a, b) \in Seq(S)
BY ConcatProperties DEF Cat

LEMMA CatMoves ==
    ASSUME NEW S, NEW a \in Seq(S), NEW b \in Seq(S), NEW c \in Seq(S)
    PROVE  Cat(Cat(a, b), c) = Cat(a, Cat(b, c))
BY ConcatAssociative DEF Cat

LEMMA CatFive ==
    ASSUME NEW S, NEW a \in Seq(S), NEW b \in Seq(S), NEW c \in Seq(S), NEW d \in Seq(S), NEW e \in Seq(S), NEW tail \in Seq(S)
    PROVE  /\ Cat(Cat(Cat(Cat(Cat(a, b), c), d), e), tail) = Cat(a, Cat(Cat(b, c), Cat(d, Cat(e, tail))))
           /\ Cat(Cat(Cat(Cat(a, b), c), d), e) \in Seq(S)
           /\ Cat(Cat(b, c), Cat(d, Cat(e, tail))) \in Seq(S) /\ Cat(d, Cat(e, tail)) \in Seq(S) /\ Cat(e, tail) \in Seq(S)
<1>1. /\ Cat(a, b) \in Seq(S) /\ Cat(b, c) \in Seq(S) /\ Cat(e, tail) \in Seq(S)
      /\ Cat(Cat(a, b), c) \in Seq(S) /\ Cat(d, Cat(e, tail)) \in Seq(S)
      /\ Cat(Cat(Cat(a, b), c), d) \in Seq(S) /\ Cat(Cat(Cat(Cat(a, b), c), d), e) \in Seq(S)
      /\ Cat(Cat(b, c), Cat(d, Cat(e, tail))) \in Seq(S)
    BY CatIsSeq
<1>2. Cat(Cat(Cat(Cat(Cat(a, b), c), d), e), tail) = Cat(Cat(Cat(Cat(a, b), c), d), Cat(e, tail))
    BY <1>1, CatMoves
<1>3. Cat(Cat(Cat(Cat(a, b), c), d), Cat(e, tail)) = Cat(Cat(Cat(a, b), c), Cat(d, Cat(e, tail)))
    BY <1>1, CatMoves
<1>4. Cat(Cat(Cat(a, b), c), Cat(d, Cat(e, tail))) = Cat(Cat(a, Cat(b, c)), Cat(d, Cat(e, tail)))
    BY CatMoves
<1>5. Cat(Cat(a, Cat(b, c)), Cat(d, Cat(e, tail))) = Cat(a, Cat(Cat(b, c), Cat(d, Cat(e, tail))))
    BY <1>1, CatMoves
<1>6. Cat(Cat(Cat(Cat(Cat(a, b), c), d), e), tail) = Cat(a, Cat(Cat(b, c), Cat(d, Cat(e, tail))))
    BY <1>2, <1>3, <1>4, <1>5
<1>7. QED  BY <1>1, <1>6

LEMMA LastOfCat ==
    ASSUME NEW S, NEW s \in Seq(S), NEW t \in Seq(S), Len(t) > 0
    PROVE  Last(s \o t) = t[Len(t)] /\ s \o t \in Seq(S)
<1>1. /\ s \o t \in Seq(S) /\ Len(s \o t) = Len(s) + Len(t)
      /\ \A k \in 1..Len(t) : (s \o t)[Len(s) + k] = t[k]
    BY CatAt
<1>2. Len(t) \in 1..Len(t)
    BY LenProperties
<1>3. (s \o t)[Len(s) + Len(t)] = t[Len(t)]
    BY <1>1, <1>2
<1>4. QED  BY <1>1, <1>3 DEF Last

\* Every match is read as it was written, with or without its password, whatever
\* comes after it.
LEMMA MatchIsRead ==
    ASSUME NEW m, MatchFits(m), NEW send_pw \in BOOLEAN, Slots \in Nat
    PROVE  /\ write_match(m, send_pw) \in Seq(Byte)
           /\ \A tail \in Seq(Byte) : read_match(write_match(m, send_pw) \o tail) = Reading(Shown(m, send_pw), tail)
<1> DEFINE H == HeadBytes(m, send_pw)
           I == IdBytes(m)
           P == Part3(m)
           M == ModBytes(m)
           Sd == WriteInt(m.seed, 4)
           HV == HeadVals(m, send_pw)
           IV == IdVals(m)
           PV == MiddleVals(m)
           MV == ModVals(m)
           IT == SlotIds(HV) \o <<"i32">> \o Times(4, "i8")
<1>1. /\ H \in Seq(Byte) /\ I \in Seq(Byte) /\ P \in Seq(Byte) /\ M \in Seq(Byte) /\ Sd \in Seq(Byte)
      /\ HV \in Seq(Value) /\ IV \in Seq(Value) /\ PV \in Seq(Value) /\ MV \in Seq(Value)
    BY MatchFacts
<1>2. /\ Reads(H, HeadTypes, HV) /\ Reads(I \o P, IT, IV \o PV) /\ Reads(M, ModTypes(m), MV) /\ Reads(Sd, <<"i32">>, <<m.seed>>)
    BY ReadsHead, ReadsMiddle, ReadsMods, ReadsSeed
<1>3. PV = <<m.host, m.mode, m.win_condition, m.team_type, m.freemods>> /\ Len(PV) = 5 /\ PV[5] = m.freemods
    BY DEF MiddleVals
<1>4. write_match(m, send_pw) = (((H \o I) \o P) \o M) \o Sd
    BY MatchIs DEF MatchBytes
<1>5. Shown(m, send_pw) = (((HV \o IV) \o PV) \o MV) \o <<m.seed>>
    BY ShownIs
<1> DEFINE IPV == IV \o PV
           MT == ModTypes(m)
<1>6. MT = IF m.freemods = 1 THEN Times(Slots, "i32") ELSE <<>>
    BY DEF ModTypes
<1> HIDE DEF H, I, P, M, Sd, HV, IV, PV, MV, MT
<1>7. write_match(m, send_pw) \in Seq(Byte)
    <2>1. H \in Seq(Byte) /\ I \in Seq(Byte) /\ P \in Seq(Byte) /\ M \in Seq(Byte) /\ Sd \in Seq(Byte) /\ <<>> \in Seq(Byte)
        BY <1>1
    <2>2. Cat(Cat(Cat(Cat(H, I), P), M), Sd) \in Seq(Byte)
        BY <2>1, CatFive
    <2>3. QED  BY <1>4, <2>2, Zenon DEF Cat
<1>8. IPV \in Seq(Value) /\ HV \o IPV \in Seq(Value) /\ Last(HV \o IPV) = m.freemods
    <2>1. IPV \in Seq(Value) /\ Len(IPV) = Len(IV) + 5 /\ IPV[Len(IV) + 5] = m.freemods
        <3>1. /\ IV \o PV \in Seq(Value) /\ Len(IV \o PV) = Len(IV) + Len(PV)
              /\ \A k \in 1..Len(PV) : (IV \o PV)[Len(IV) + k] = PV[k]
            <4>1. IV \in Seq(Value) /\ PV \in Seq(Value)
                BY <1>1
            <4>2. QED  BY <4>1, CatAt
        <3>2. QED  BY <1>3, <3>1
    <2> HIDE DEF IPV
    <2>2. Len(IV) \in Nat
        BY <1>1, LenProperties
    <2>3. HV \in Seq(Value) /\ IPV \in Seq(Value) /\ Len(IPV) > 0
        BY <1>1, <2>1, <2>2
    <2>4. Last(HV \o IPV) = IPV[Len(IPV)] /\ HV \o IPV \in Seq(Value)
        BY <2>3, LastOfCat
    <2>5. QED  BY <2>1, <2>4
<1>9. ((HV \o IV) \o PV) = HV \o IPV
    <2>1. HV \in Seq(Value) /\ IV \in Seq(Value) /\ PV \in Seq(Value)
        BY <1>1
    <2>2. QED  BY <2>1, ConcatAssociative
<1>10. ASSUME NEW tail \in Seq(Byte)
       PROVE  read_match(write_match(m, send_pw) \o tail) = Reading(Shown(m, send_pw), tail)
    <2> DEFINE st == Sd \o tail
               mst == M \o st
               imst == (I \o P) \o mst
               bytes == write_match(m, send_pw) \o tail
               hipv == HV \o IPV
               all == hipv \o MV
    <2>1. bytes = H \o imst /\ st \in Seq(Byte) /\ mst \in Seq(Byte) /\ imst \in Seq(Byte)
        <3>1. H \in Seq(Byte) /\ I \in Seq(Byte) /\ P \in Seq(Byte) /\ M \in Seq(Byte) /\ Sd \in Seq(Byte)
            BY <1>1
        <3>2. /\ Cat(Cat(Cat(Cat(Cat(H, I), P), M), Sd), tail) = Cat(H, Cat(Cat(I, P), Cat(M, Cat(Sd, tail))))
              /\ Cat(Cat(I, P), Cat(M, Cat(Sd, tail))) \in Seq(Byte) /\ Cat(M, Cat(Sd, tail)) \in Seq(Byte) /\ Cat(Sd, tail) \in Seq(Byte)
            <4> HIDE DEF st, mst, imst, bytes, hipv, all, IT
            <4>1. Cat(Cat(Cat(Cat(Cat(H, I), P), M), Sd), tail) = Cat(H, Cat(Cat(I, P), Cat(M, Cat(Sd, tail))))
                BY <3>1, CatFive
            <4>2. Cat(I, P) \in Seq(Byte) /\ Cat(Sd, tail) \in Seq(Byte)
                BY <3>1, CatIsSeq
            <4>3. Cat(M, Cat(Sd, tail)) \in Seq(Byte)
                BY <3>1, <4>2, CatIsSeq
            <4>4. Cat(Cat(I, P), Cat(M, Cat(Sd, tail))) \in Seq(Byte)
                BY <4>2, <4>3, CatIsSeq
            <4>5. QED  BY <4>1, <4>2, <4>3, <4>4
        <3>3. QED  BY <1>4, <3>2, Zenon DEF Cat
    <2>2. Read(HeadTypes, bytes) = Reading(HV, imst)
        <3>1. Reads(H, HeadTypes, HV) /\ bytes = H \o imst /\ imst \in Seq(Byte)
            BY <1>2, <2>1
        <3> HIDE DEF imst, bytes
        <3>2. Read(HeadTypes, H \o imst) = Reading(HV, imst)
            BY <3>1, ReadsFirst
        <3>3. QED  BY <3>1, <3>2
    <2>3. ReadOn(Reading(HV, imst), IT) = Reading(hipv, mst)
        <3>1. HV \in Seq(Value) /\ mst \in Seq(Byte)
            BY <1>1, <2>1
        <3> HIDE DEF mst, IT
        <3>2. QED  BY <1>2, <3>1, ReadsNext
    <2>4. ReadOn(Reading(hipv, mst), MT) = Reading(all, st) /\ all \in Seq(Value)
        <3>1. hipv \in Seq(Value) /\ st \in Seq(Byte) /\ Reads(M, MT, MV)
            BY <1>2, <1>8, <2>1 DEF MT
        <3> HIDE DEF hipv, st
        <3>2. QED  BY <3>1, ReadsNext
    <2>5. ReadOn(Reading(all, st), <<"i32">>) = Reading(all \o <<m.seed>>, tail)
        <3>1. all \in Seq(Value)
            BY <2>4
        <3> HIDE DEF all
        <3>2. QED  BY <1>2, <3>1, ReadsNext
    <2>6. all \o <<m.seed>> = Shown(m, send_pw)
        BY <1>5, <1>9
    <2>7. read_match(bytes) = ReadOn(Reading(all, st), <<"i32">>)
        <3> DEFINE head == Read(HeadTypes, bytes)
                   middle == ReadOn(head, SlotIds(head.val) \o <<"i32">> \o Times(4, "i8"))
                   mods == ReadOn(middle, IF Last(middle.val) = 1 THEN Times(Slots, "i32") ELSE <<>>)
        <3>1. read_match(bytes) = ReadOn(mods, <<"i32">>)
            <4> HIDE DEF bytes
            <4>2. QED  BY Zenon DEF read_match, HeadTypes, MatchTypes
        <3> HIDE DEF bytes, imst, mst, st, hipv, all
        <3>2. head = Reading(HV, imst) /\ head.val = HV
            BY <2>2 DEF Reading
        <3> HIDE DEF head
        <3>3. middle = Reading(hipv, mst)
            BY <2>3, <3>2
        <3>4. middle.val = hipv
            BY <3>3 DEF Reading
        <3>5. mods = ReadOn(middle, MT)
            BY <1>6, <1>8, <3>4 DEF hipv
        <3> HIDE DEF middle, mods
        <3>6. QED  BY <3>1, <3>3, <3>5, <2>4
    <2>8. QED  BY <2>5, <2>6, <2>7
<1>11. QED  BY <1>7, <1>10

-----------------------------------------------------------------------------
(* Score frames.                                                            *)

\* The n after the first m.
After(f, m, n) == [k \in 1..n |-> f[m + k]]

\* A sequence is its first part and the rest.
LEMMA Parts ==
    ASSUME NEW S, NEW u \in Seq(S), NEW m \in Nat, NEW n \in Nat, Len(u) = m + n
    PROVE  /\ First(u, m) \in Seq(S) /\ Len(First(u, m)) = m
           /\ After(u, m, n) \in Seq(S) /\ Len(After(u, m, n)) = n
           /\ u = Cat(First(u, m), After(u, m, n))
<1> DEFINE s == First(u, m)
           t == After(u, m, n)
<1>1. \A k \in 1..m + n : u[k] \in S
    BY ElementOfSeq
<1>2. s \in [1..m -> S] /\ \A k \in 1..m : s[k] = u[k]
    BY <1>1 DEF First
<1>3. t \in [1..n -> S] /\ \A k \in 1..n : t[k] = u[m + k]
    BY <1>1 DEF After
<1>4. s \in Seq(S) /\ Len(s) = m /\ t \in Seq(S) /\ Len(t) = n
    BY <1>2, <1>3, SeqDef
<1> HIDE DEF s, t
<1>5. /\ s \o t \in Seq(S) /\ Len(s \o t) = m + n
      /\ \A k \in 1..m : (s \o t)[k] = s[k]
      /\ \A k \in 1..n : (s \o t)[m + k] = t[k]
    <2>1. s \in Seq(S) /\ t \in Seq(S)
        BY <1>4
    <2>2. s \o t \in Seq(S) /\ Len(s \o t) = Len(s) + Len(t)
        BY <2>1, ConcatProperties
    <2>3. \A k \in 1..Len(s) : (s \o t)[k] = s[k]
        BY <2>1, CatAt
    <2>4. \A k \in 1..Len(t) : (s \o t)[Len(s) + k] = t[k]
        BY <2>1, CatAt
    <2>5. QED  BY <1>4, <2>2, <2>3, <2>4
<1> DEFINE w == s \o t
<1>6. w \in Seq(S) /\ Len(w) = m + n /\ (\A k \in 1..m : w[k] = u[k]) /\ (\A k \in 1..n : w[m + k] = u[m + k])
    BY <1>2, <1>3, <1>5
<1> HIDE DEF w
<1>7. \A k \in 1..m + n : w[k] = u[k]
    <2> SUFFICES ASSUME NEW k \in 1..m + n  PROVE w[k] = u[k]
        OBVIOUS
    <2>1. CASE k <= m
        BY <1>6, <2>1
    <2>2. CASE ~(k <= m)
        <3>1. k - m \in 1..n /\ m + (k - m) = k
            BY <2>2
        <3>2. w[m + (k - m)] = u[m + (k - m)]
            BY <1>6, <3>1
        <3>3. QED  BY <3>1, <3>2
    <2>3. QED  BY <2>1, <2>2
<1>8. w = u
    BY <1>6, <1>7, SeqEqual
<1>9. QED  BY <1>4, <1>8 DEF w, s, t, Cat

\* What is written of some fields and then others.
LEMMA WriteSplit ==
    ASSUME NEW t1 \in Seq(Types), NEW t2 \in Seq(Types), NEW vals, AllFit(vals, Cat(t1, t2))
    PROVE  /\ vals = Cat(First(vals, Len(t1)), After(vals, Len(t1), Len(t2)))
           /\ AllFit(First(vals, Len(t1)), t1) /\ AllFit(After(vals, Len(t1), Len(t2)), t2)
           /\ Len(First(vals, Len(t1))) = Len(t1)
           /\ Write(Cat(t1, t2), vals) = Cat(Write(t1, First(vals, Len(t1))), Write(t2, After(vals, Len(t1), Len(t2))))
<1> DEFINE t == t1 \o t2
           m == Len(t1)
           n == Len(t2)
           v1 == First(vals, m)
           v2 == After(vals, m, n)
<1>1. m \in Nat /\ n \in Nat /\ DOMAIN t1 = 1..m /\ DOMAIN t2 = 1..n
    BY LenProperties
<1>2. /\ t \in Seq(Types) /\ Len(t) = m + n
      /\ \A k \in 1..m : t[k] = t1[k]
      /\ \A k \in 1..n : t[m + k] = t2[k]
    BY CatAt
<1>3. Cat(t1, t2) = t
    BY DEF Cat
<1> HIDE DEF t, m, n
<1>4. DOMAIN t = 1..m + n /\ \A k \in 1..m + n : t[k] \in Types
    BY <1>1, <1>2, LenProperties, ElementOfSeq
<1>5. vals = [k \in 1..m + n |-> vals[k]] /\ \A k \in 1..m + n : Fits(vals[k], t[k])
    BY <1>3, <1>4 DEF AllFit
<1> DEFINE b == [k \in 1..m + n |-> write_field(vals[k], t[k])]
           b1 == [k \in 1..m |-> write_field(v1[k], t1[k])]
           b2 == [k \in 1..n |-> write_field(v2[k], t2[k])]
<1>6. \A k \in 1..m + n : vals[k] \in Value /\ write_field(vals[k], t[k]) \in Seq(Byte)
    BY <1>4, <1>5, FieldIsRead
<1>7. vals \in Seq(Value) /\ Len(vals) = m + n
    <2>1. vals \in [1..m + n -> Value] /\ m + n \in Nat
        BY <1>1, <1>5, <1>6
    <2>2. QED  BY <2>1, SeqDef
<1>8. b \in Seq(Seq(Byte)) /\ Len(b) = m + n
    <2>1. b \in [1..m + n -> Seq(Byte)] /\ m + n \in Nat
        BY <1>1, <1>6
    <2> HIDE DEF b
    <2>2. QED  BY <2>1, SeqDef, SMTT(30)
<1>9. vals = Cat(v1, v2) /\ Len(v1) = m
    BY <1>1, <1>7, Parts
<1>10. (\A k \in 1..m : v1[k] = vals[k]) /\ (\A k \in 1..n : v2[k] = vals[m + k]) /\ v1 = [k \in 1..m |-> v1[k]] /\ v2 = [k \in 1..n |-> v2[k]]
    BY DEF First, After
<1> HIDE DEF v1, v2
<1>11. AllFit(v1, t1)
    <2>1. \A k \in 1..m : k \in 1..m + n
        BY <1>1
    <2>2. \A k \in 1..m : Fits(v1[k], t1[k])
        BY <1>2, <1>5, <1>10, <2>1
    <2>3. QED  BY <1>1, <1>10, <2>2 DEF AllFit
<1>12. AllFit(v2, t2)
    <2>1. \A k \in 1..n : m + k \in 1..m + n
        BY <1>1
    <2>2. \A k \in 1..n : Fits(v2[k], t2[k])
        BY <1>2, <1>5, <1>10, <2>1
    <2>3. QED  BY <1>1, <1>10, <2>2 DEF AllFit
<1>13. b1 = First(b, m) /\ b2 = After(b, m, n)
    <2>1. \A k \in 1..m : k \in 1..m + n /\ b[k] = write_field(v1[k], t1[k])
        BY <1>1, <1>2, <1>10
    <2>2. \A k \in 1..n : m + k \in 1..m + n /\ b[m + k] = write_field(v2[k], t2[k])
        BY <1>1, <1>2, <1>10
    <2> HIDE DEF b
    <2>3. QED  BY <2>1, <2>2 DEF First, After
<1>14. b = Cat(b1, b2) /\ b1 \in Seq(Seq(Byte)) /\ b2 \in Seq(Seq(Byte))
    <2> HIDE DEF b, b1, b2
    <2>1. QED  BY <1>1, <1>8, <1>13, Parts
<1>15. Write(t, vals) = FlattenSeq(b) /\ Write(t1, v1) = FlattenSeq(b1) /\ Write(t2, v2) = FlattenSeq(b2)
    BY <1>1, <1>4 DEF Write
<1> HIDE DEF b, b1, b2
<1>16. FlattenSeq(Cat(b1, b2)) = Cat(FlattenSeq(b1), FlattenSeq(b2))
    BY <1>14, FlattenCat DEF Cat
<1>17. QED  BY <1>3, <1>9, <1>11, <1>12, <1>14, <1>15, <1>16 DEF v1, v2, m, n

\* Cat's laws.
LEMMA CatThree ==
    ASSUME NEW S, NEW a \in Seq(S), NEW b \in Seq(S), NEW tail \in Seq(S)
    PROVE  Cat(a, b) \in Seq(S) /\ Cat(b, tail) \in Seq(S) /\ Cat(a, Cat(b, tail)) \in Seq(S) /\ Cat(Cat(a, b), tail) = Cat(a, Cat(b, tail))
<1>1. Cat(a, b) \in Seq(S) /\ Cat(b, tail) \in Seq(S)
    BY CatIsSeq
<1>2. Cat(a, Cat(b, tail)) \in Seq(S)
    BY <1>1, CatIsSeq
<1>3. QED  BY <1>1, <1>2, CatMoves

LEMMA CatHas ==
    ASSUME NEW S, NEW s \in Seq(S), NEW t \in Seq(S)
    PROVE  /\ Cat(s, t) \in Seq(S) /\ Len(Cat(s, t)) = Len(s) + Len(t)
           /\ \A k \in 1..Len(s) : Cat(s, t)[k] = s[k]
           /\ \A k \in 1..Len(t) : Cat(s, t)[Len(s) + k] = t[k]
BY CatAt DEF Cat

LEMMA CatLength == ASSUME NEW S, NEW s \in Seq(S), NEW t \in Seq(S)  PROVE Len(Cat(s, t)) = Len(s) + Len(t)
BY CatHas

\* ReadsFirst and ReadsNext, of what is written of fields that fit.
LEMMA FieldsFirst ==
    ASSUME NEW types \in Seq(Types), NEW vals, AllFit(vals, types), NEW tail \in Seq(Byte)
    PROVE  /\ Read(types, Cat(Write(types, vals), tail)) = Reading(vals, tail)
           /\ Write(types, vals) \in Seq(Byte) /\ vals \in Seq(Value)
<1>1. Reads(Write(types, vals), types, vals)
    BY ReadsFields
<1> DEFINE w == Write(types, vals)
<1>2. Read(types, w \o tail) = Reading(vals, tail)
    BY <1>1, ReadsFirst
<1>3. w \in Seq(Byte) /\ vals \in Seq(Value)
    BY <1>1 DEF Reads
<1>4. QED  BY <1>2, <1>3 DEF Cat

LEMMA FieldsNext ==
    ASSUME NEW types \in Seq(Types), NEW vals, AllFit(vals, types), NEW v \in Seq(Value), NEW tail \in Seq(Byte)
    PROVE  /\ ReadOn(Reading(v, Cat(Write(types, vals), tail)), types) = Reading(Cat(v, vals), tail)
           /\ Cat(v, vals) \in Seq(Value)
<1>1. Reads(Write(types, vals), types, vals)
    BY ReadsFields
<1> DEFINE w == Write(types, vals)
<1>2. ReadOn(Reading(v, w \o tail), types) = Reading(v \o vals, tail) /\ v \o vals \in Seq(Value)
    BY <1>1, ReadsNext
<1>3. QED  BY <1>2 DEF Cat

\* A score frame has fifteen fields, of which the second is the id.
LEMMA FrameTypesSeq ==
    /\ FrameTypes \in Seq(Types) /\ Len(FrameTypes) = 15
    /\ FrameTypes[2] = "u8" /\ FrameTypes[1] = "i32" /\ FrameTypes[15] = "u8"
<1> DEFINE a == <<"i32", "u8">>
           b == Times(6, "u16")
           c == <<"i32", "u16", "u16", "u8", "u8", "u8", "u8">>
<1>1. a \in Seq(Types) /\ Len(a) = 2 /\ a[1] = "i32" /\ a[2] = "u8" /\ c \in Seq(Types) /\ Len(c) = 7 /\ c[7] = "u8"
    BY Widths
<1>2. b \in Seq(Types) /\ Len(b) = 6
    BY Widths, TimesSeq
<1>3. FrameTypes = Cat(Cat(a, b), c)
    BY DEF FrameTypes, Cat
<1> HIDE DEF a, b, c
<1> DEFINE d == Cat(a, b)
<1>4. d \in Seq(Types) /\ Len(d) = 8 /\ d[1] = "i32" /\ d[2] = "u8"
    <2>1. d \in Seq(Types) /\ Len(d) = Len(a) + Len(b) /\ \A k \in 1..Len(a) : d[k] = a[k]
        <3>1. a \in Seq(Types) /\ b \in Seq(Types)
            BY <1>1, <1>2
        <3>2. QED  BY <3>1, CatHas
    <2> HIDE DEF d
    <2>2. QED  BY <1>1, <1>2, <2>1
<1> HIDE DEF d
<1>5. /\ Cat(d, c) \in Seq(Types) /\ Len(Cat(d, c)) = 15 /\ Cat(d, c)[1] = "i32" /\ Cat(d, c)[2] = "u8"
      /\ Cat(d, c)[8 + 7] = "u8"
    <2> DEFINE e == Cat(d, c)
    <2>1. /\ e \in Seq(Types) /\ Len(e) = Len(d) + Len(c)
          /\ \A k \in 1..Len(d) : e[k] = d[k]
          /\ \A k \in 1..Len(c) : e[Len(d) + k] = c[k]
        <3>1. d \in Seq(Types) /\ c \in Seq(Types)
            BY <1>1, <1>4
        <3>2. e \in Seq(Types) /\ Len(e) = Len(d) + Len(c)
            BY <3>1, CatHas
        <3>3. \A k \in 1..Len(d) : e[k] = d[k]
            BY <3>1, CatHas
        <3>4. \A k \in 1..Len(c) : e[Len(d) + k] = c[k]
            BY <3>1, CatHas
        <3>5. QED  BY <3>2, <3>3, <3>4
    <2> HIDE DEF e
    <2>2. e[8 + 7] = c[7]
        BY <1>1, <1>4, <2>1
    <2>3. QED  BY <1>1, <1>4, <2>1, <2>2 DEF e
<1>6. FrameTypes = Cat(d, c)
    BY <1>3 DEF d
<1>7. QED  BY <1>5, <1>6

LEMMA PortionsSeq == ASSUME NEW x  PROVE Portions(x) \in Seq(Types)
<1>1. <<"f64", "f64">> \in Seq(Types)
    BY Widths
<1>2. QED  BY <1>1 DEF Portions

\* A score frame is read as it was written.
LEMMA FrameIsRead ==
    ASSUME NEW s, AllFit(s, WholeFrame(s))
    PROVE  /\ WriteFrame(s) \in Seq(Byte) /\ s \in Seq(Value)
           /\ \A tail \in Seq(Byte) : read_scoreframe(WriteFrame(s) \o tail) = Reading(s, tail)
<1> DEFINE F == FrameTypes
           x == s[Len(FrameTypes)]
           P == Portions(x)
           v1 == First(s, Len(F))
           v2 == After(s, Len(F), Len(P))
           b1 == Write(F, v1)
           b2 == Write(P, v2)
<1>1. WholeFrame(s) = Cat(F, P)
    BY DEF WholeFrame, Cat
<1>2. F \in Seq(Types) /\ P \in Seq(Types) /\ Len(F) = 15
    BY FrameTypesSeq, PortionsSeq
<1>3. v1[Len(F)] = x
    BY <1>2 DEF First
<1> HIDE DEF F, P, x
<1>4. /\ s = Cat(v1, v2) /\ AllFit(v1, F) /\ AllFit(v2, P) /\ Len(v1) = Len(F)
      /\ Write(Cat(F, P), s) = Cat(b1, b2)
    <2>1. AllFit(s, Cat(F, P))
        BY <1>1
    <2>2. QED  BY <1>2, <2>1, WriteSplit, ZenonT(30)
<1> HIDE DEF v1, v2
<1>5. Reads(b1, F, v1) /\ Reads(b2, P, v2)
    BY <1>2, <1>4, ReadsFields
<1>6. b1 \in Seq(Byte) /\ b2 \in Seq(Byte) /\ v1 \in Seq(Value) /\ v2 \in Seq(Value)
    BY <1>5 DEF Reads
<1>7. WriteFrame(s) = Cat(b1, b2) /\ WriteFrame(s) \in Seq(Byte) /\ s \in Seq(Value)
    BY <1>1, <1>4, <1>6, CatIsSeq DEF WriteFrame
<1>8. Last(v1) = x
    BY <1>3, <1>4 DEF Last
<1>9. ASSUME NEW tail \in Seq(Byte)  PROVE read_scoreframe(WriteFrame(s) \o tail) = Reading(s, tail)
    <2> DEFINE rest == Cat(b2, tail)
               bytes == WriteFrame(s) \o tail
               frame == Read(F, bytes)
    <2>1. bytes = Cat(b1, rest) /\ rest \in Seq(Byte)
        <3>1. bytes = Cat(Cat(b1, b2), tail)
            BY <1>7 DEF Cat
        <3> HIDE DEF bytes, b1, b2
        <3>2. QED  BY <1>6, <3>1, CatThree
    <2>2. read_scoreframe(bytes) = ReadOn(frame, Portions(Last(frame.val)))
        BY DEF read_scoreframe, F
    <2> HIDE DEF bytes, rest
    <2>3. frame = Reading(v1, rest)
        BY <1>2, <1>4, <2>1, FieldsFirst
    <2>4. frame.val = v1
        BY <2>3 DEF Reading
    <2> HIDE DEF frame
    <2>5. read_scoreframe(bytes) = ReadOn(Reading(v1, rest), P)
        BY <1>8, <2>2, <2>3, <2>4 DEF P
    <2>6. ReadOn(Reading(v1, rest), P) = Reading(Cat(v1, v2), tail)
        BY <1>2, <1>4, <1>6, FieldsNext DEF rest
    <2>7. QED  BY <1>4, <2>5, <2>6 DEF bytes
<1>10. QED  BY <1>7, <1>9

-----------------------------------------------------------------------------
(* Frames of a replay.                                                      *)

\* What SplitFields says of the two parts of what is written.
IsSplit(vals, t1, t2, v1, v2) ==
    /\ vals = Cat(v1, v2) /\ AllFit(v1, t1) /\ AllFit(v2, t2)
    /\ Write(Cat(t1, t2), vals) = Cat(Write(t1, v1), Write(t2, v2))
    /\ Len(v1) = Len(t1) /\ \A k \in 1..Len(t1) : v1[k] = vals[k]
    /\ Write(t1, v1) \in Seq(Byte) /\ Write(t2, v2) \in Seq(Byte) /\ v1 \in Seq(Value) /\ v2 \in Seq(Value)
    /\ Write(Cat(t1, t2), vals) \in Seq(Byte) /\ vals \in Seq(Value)

\* Values for some types and then others are of two parts.
LEMMA SplitFields ==
    ASSUME NEW t1 \in Seq(Types), NEW t2 \in Seq(Types), NEW vals, AllFit(vals, Cat(t1, t2))
    PROVE  \E v1, v2 : IsSplit(vals, t1, t2, v1, v2)
<1> DEFINE v1 == First(vals, Len(t1))
           v2 == After(vals, Len(t1), Len(t2))
<1>1. /\ vals = Cat(v1, v2) /\ AllFit(v1, t1) /\ AllFit(v2, t2) /\ Len(v1) = Len(t1)
      /\ Write(Cat(t1, t2), vals) = Cat(Write(t1, v1), Write(t2, v2))
    BY WriteSplit
<1>2. \A k \in 1..Len(t1) : v1[k] = vals[k]
    BY DEF First
<1> HIDE DEF v1, v2
<1>3. Reads(Write(t1, v1), t1, v1) /\ Reads(Write(t2, v2), t2, v2)
    BY <1>1, ReadsFields
<1>4. Write(t1, v1) \in Seq(Byte) /\ Write(t2, v2) \in Seq(Byte) /\ v1 \in Seq(Value) /\ v2 \in Seq(Value)
    BY <1>3 DEF Reads
<1>5. Cat(Write(t1, v1), Write(t2, v2)) \in Seq(Byte)
    BY <1>4, CatIsSeq
<1>6. Cat(v1, v2) \in Seq(Value)
    BY <1>4, CatIsSeq
<1>7. IsSplit(vals, t1, t2, v1, v2)
    BY <1>1, <1>2, <1>4, <1>5, <1>6 DEF IsSplit
<1>8. QED  BY <1>7

LEMMA ReplaySeq == ASSUME NEW n \in Nat  PROVE Replay(n) \in Seq(Types)
<1> DEFINE f == Times(n, <<"u8", "u8", "f32", "f32", "i32">>)
<1>1. <<"u8", "u8", "f32", "f32", "i32">> \in Seq(Types)
    BY Widths
<1>2. f \in [1..n -> Seq(Types)]
    BY <1>1 DEF Times
<1> HIDE DEF f
<1>3. f \in Seq(Seq(Types))
    BY <1>2, SeqDef
<1>4. FlattenSeq(f) \in Seq(Types)
    BY <1>3, FlattenSeqs
<1>5. QED  BY <1>4 DEF Replay, f

\* A bundle of frames is read as it was written.
LEMMA BundleIsRead ==
    ASSUME NEW b, b[2] \in Nat, AllFit(b, WholeBundle(b))
    PROVE  /\ WriteBundle(b) \in Seq(Byte)
           /\ \A tail \in Seq(Byte) : read_replayframe_bundle(WriteBundle(b) \o tail) = Reading(b, tail)
<1> DEFINE A == <<"i32", "u16">>
           R == Replay(b[2])
           U == <<"u8">>
           F == FrameTypes
           Z == <<"u16">>
           X == Cat(Cat(R, U), F)
           T == Cat(A, X)
           Q == Portions(b[Len(T)])
<1>1. A \in Seq(Types) /\ Len(A) = 2 /\ U \in Seq(Types) /\ Z \in Seq(Types) /\ R \in Seq(Types)
    <2>1. A \in Seq(Types) /\ Len(A) = 2 /\ U \in Seq(Types) /\ Z \in Seq(Types)
        BY Widths
    <2>2. QED  BY <2>1, ReplaySeq
<1>2. F \in Seq(Types) /\ Len(F) = 15
    BY FrameTypesSeq
<1>3. WholeBundle(b) = LET types == Cat(Cat(Cat(A, R), U), F) IN Cat(Cat(types, Portions(b[Len(types)])), Z)
    BY DEF WholeBundle, Cat
<1> HIDE DEF A, U, F, Z
<1>5. Cat(Cat(Cat(A, R), U), F) = T /\ T \in Seq(Types) /\ X \in Seq(Types) /\ Len(T) > 2 /\ Len(T) \in Nat
    <2> HIDE DEF R
    <2>1. Cat(A, R) \in Seq(Types) /\ Cat(R, U) \in Seq(Types)
        BY <1>1, CatIsSeq
    <2>2. Cat(Cat(A, R), U) = Cat(A, Cat(R, U))
        BY <1>1, CatMoves
    <2>3. Cat(Cat(A, Cat(R, U)), F) = Cat(A, Cat(Cat(R, U), F))
        BY <1>1, <1>2, <2>1, CatMoves
    <2>4. X \in Seq(Types)
        BY <1>2, <2>1, CatIsSeq
    <2>5. Len(X) = Len(Cat(R, U)) + Len(F)
        BY <1>2, <2>1, CatLength
    <2>6. T \in Seq(Types) /\ Len(T) = Len(A) + Len(X)
        <3> HIDE DEF X
        <3>1. A \in Seq(Types) /\ X \in Seq(Types)
            BY <1>1, <2>4
        <3>2. QED  BY <3>1, CatHas
    <2>7. Len(Cat(R, U)) \in Nat
        BY <2>1, LenProperties
    <2> HIDE DEF X, T
    <2>8. QED  BY <1>1, <1>2, <2>2, <2>3, <2>4, <2>5, <2>6, <2>7 DEF X, T
<1>6. Q \in Seq(Types)
    BY PortionsSeq
<1>7. WholeBundle(b) = Cat(Cat(T, Q), Z)
    BY <1>3, <1>5
<1>8. Q = Portions(b[Len(T)]) /\ T = Cat(A, X) /\ X = Cat(Cat(R, U), F) /\ R = Replay(b[2])
    OBVIOUS
<1> HIDE DEF R, X, T, Q
<1>9. Cat(T, Q) \in Seq(Types) /\ Len(Cat(T, Q)) = Len(T) + Len(Q) /\ Len(Q) \in Nat
    <2>1. T \in Seq(Types) /\ Q \in Seq(Types)
        BY <1>5, <1>6
    <2>2. Cat(T, Q) \in Seq(Types)
        BY <2>1, CatHas
    <2>3. Len(Cat(T, Q)) = Len(T) + Len(Q)
        BY <2>1, CatHas
    <2>4. QED  BY <2>1, <2>2, <2>3, LenProperties
<1>10. PICK v, z : IsSplit(b, Cat(T, Q), Z, v, z)
    <2>1. AllFit(b, Cat(Cat(T, Q), Z))
        BY <1>7
    <2>2. QED  BY <1>1, <1>9, <2>1, SplitFields
<1>11. PICK w, q : IsSplit(v, T, Q, w, q)
    <2>1. AllFit(v, Cat(T, Q))
        BY <1>10 DEF IsSplit
    <2>2. QED  BY <1>5, <1>6, <2>1, SplitFields
<1>12. PICK a, x : IsSplit(w, A, X, a, x)
    <2>1. AllFit(w, Cat(A, X))
        BY <1>8, <1>11 DEF IsSplit
    <2>2. QED  BY <1>1, <1>5, <2>1, SplitFields
<1>13. w[Len(T)] = b[Len(T)] /\ a[2] = b[2] /\ Len(w) = Len(T)
    <2>1. Len(T) \in 1..Len(T) /\ Len(T) \in 1..Len(Cat(T, Q)) /\ 2 \in 1..Len(T) /\ 2 \in 1..Len(Cat(T, Q)) /\ 2 \in 1..Len(A)
        BY <1>1, <1>5, <1>9
    <2>2. v[Len(T)] = b[Len(T)] /\ v[2] = b[2]
        BY <1>10, <2>1 DEF IsSplit
    <2>3. w[Len(T)] = v[Len(T)] /\ w[2] = v[2] /\ Len(w) = Len(T)
        BY <1>11, <2>1 DEF IsSplit
    <2>4. a[2] = w[2]
        BY <1>12, <2>1 DEF IsSplit
    <2>5. QED  BY <2>2, <2>3, <2>4
<1> DEFINE bz == Write(Z, z)
           bq == Write(Q, q)
           bx == Write(X, x)
           ba == Write(A, a)
<1>14. /\ b = Cat(Cat(Cat(a, x), q), z) /\ w = Cat(a, x) /\ v = Cat(Cat(a, x), q)
       /\ WriteBundle(b) = Cat(Cat(Cat(ba, bx), bq), bz) /\ WriteBundle(b) \in Seq(Byte)
       /\ ba \in Seq(Byte) /\ bx \in Seq(Byte) /\ bq \in Seq(Byte) /\ bz \in Seq(Byte)
       /\ a \in Seq(Value) /\ w \in Seq(Value) /\ v \in Seq(Value)
       /\ AllFit(a, A) /\ AllFit(x, X) /\ AllFit(q, Q) /\ AllFit(z, Z)
    BY <1>7, <1>8, <1>10, <1>11, <1>12 DEF IsSplit, WriteBundle
<1>15. ASSUME NEW tail \in Seq(Byte)
       PROVE  read_replayframe_bundle(WriteBundle(b) \o tail) = Reading(b, tail)
    <2> DEFINE rz == Cat(bz, tail)
               rq == Cat(bq, rz)
               rx == Cat(bx, rq)
               bytes == WriteBundle(b) \o tail
               count == Read(A, bytes)
               frames == ReadOn(count, Replay(count.val[2]) \o U \o F)
    <2>1. read_replayframe_bundle(bytes) = ReadOn(ReadOn(frames, Portions(Last(frames.val))), Z)
        BY DEF read_replayframe_bundle, A, U, F, Z
    <2>2. bytes = Cat(Cat(Cat(Cat(ba, bx), bq), bz), tail)
        BY <1>14 DEF Cat
    <2> HIDE DEF bytes, ba, bx, bq, bz
    <2>3. bytes = Cat(ba, rx) /\ rz \in Seq(Byte) /\ rq \in Seq(Byte) /\ rx \in Seq(Byte)
        <3>1. ba \in Seq(Byte) /\ bx \in Seq(Byte) /\ bq \in Seq(Byte) /\ bz \in Seq(Byte)
            BY <1>14
        <3>2. Cat(ba, bx) \in Seq(Byte) /\ rz \in Seq(Byte)
            BY <3>1, CatIsSeq
        <3> HIDE DEF rz
        <3>3. Cat(Cat(ba, bx), bq) \in Seq(Byte) /\ rq \in Seq(Byte)
            BY <3>1, <3>2, CatIsSeq
        <3> HIDE DEF rq
        <3>4. rx \in Seq(Byte)
            BY <3>1, <3>3, CatIsSeq
        <3>5. Cat(Cat(Cat(Cat(ba, bx), bq), bz), tail) = Cat(Cat(Cat(ba, bx), bq), rz)
            BY <3>1, <3>3, CatMoves DEF rz
        <3>6. Cat(Cat(Cat(ba, bx), bq), rz) = Cat(Cat(ba, bx), rq)
            BY <3>1, <3>2, CatMoves DEF rq
        <3>7. Cat(Cat(ba, bx), rq) = Cat(ba, rx)
            BY <3>1, <3>3, CatMoves
        <3>8. QED  BY <2>2, <3>2, <3>3, <3>4, <3>5, <3>6, <3>7
    <2> HIDE DEF rz, rq, rx
    <2>4. count = Reading(a, rx)
        BY <1>1, <1>14, <2>3, FieldsFirst DEF ba
    <2>5. Replay(count.val[2]) \o U \o F = X
        <3>1. count.val = a
            BY <2>4 DEF Reading
        <3> HIDE DEF count
        <3>2. Replay(count.val[2]) = R
            BY <1>8, <1>13, <3>1
        <3>3. X = (R \o U) \o F
            BY <1>8 DEF Cat
        <3>4. QED  BY <3>2, <3>3
    <2>6. frames = ReadOn(Reading(a, rx), X)
        BY <2>4, <2>5
    <2> HIDE DEF count, frames
    <2>7. ReadOn(Reading(a, rx), X) = Reading(Cat(a, x), rq)
        BY <1>5, <1>14, <2>3, FieldsNext DEF rx, bx
    <2>8. frames = Reading(w, rq) /\ Last(frames.val) = b[Len(T)]
        <3>1. frames = Reading(w, rq)
            BY <1>14, <2>6, <2>7
        <3>2. frames.val = w
            BY <3>1 DEF Reading
        <3>3. QED  BY <1>13, <3>1, <3>2 DEF Last
    <2>9. ReadOn(frames, Portions(Last(frames.val))) = ReadOn(Reading(w, rq), Q)
        BY <1>8, <2>8
    <2>10. ReadOn(Reading(w, rq), Q) = Reading(Cat(w, q), rz)
        BY <1>6, <1>14, <2>3, FieldsNext DEF rq, bq
    <2>11. Cat(w, q) = v
        BY <1>14
    <2>12. ReadOn(Reading(v, rz), Z) = Reading(Cat(v, z), tail)
        BY <1>1, <1>14, <2>3, FieldsNext DEF rz, bz
    <2>13. Cat(v, z) = b
        BY <1>14
    <2>14. QED  BY <2>1, <2>9, <2>10, <2>11, <2>12, <2>13 DEF bytes
<1>16. QED  BY <1>14, <1>15

-----------------------------------------------------------------------------
(* Packets.                                                                 *)

\* What fits an unsigned field is not negative.
LEMMA FitsNat ==
    ASSUME NEW n, Fits(n, "u16")
    PROVE  n \in Nat
<1>1. n \in Int /\ Shifted(n, 1) \in Byte
    BY DEF Fits, Width, SignedTypes
<1>2. Shifted(n, 0) = n /\ Shifted(n, 0 + 1) = Shifted(n, 0) \div 256
    BY ShiftedIs
<1>3. n \div 256 >= 0
    BY <1>1, <1>2 DEF Byte
<1>4. QED  BY <1>1, <1>3

\* A single field.
LEMMA OneFits ==
    ASSUME NEW type \in Types, NEW val, Fits(val, type)
    PROVE  AllFit(<<val>>, <<type>>) /\ <<type>> \in Seq(Types) /\ Write(<<type>>, <<val>>) = write_field(val, type)
<1>1. AllFit(<<val>>, <<type>>) /\ <<type>> \in Seq(Types)
    BY DEF AllFit
<1>2. write_field(val, type) \in Seq(Byte)
    BY FieldIsRead
<1>3. [k \in DOMAIN <<type>> |-> write_field(<<val>>[k], <<type>>[k])] = <<write_field(val, type)>>
    OBVIOUS
<1>4. FlattenSeq(<<write_field(val, type)>>) = write_field(val, type)
    BY <1>2, FlattenOne
<1>5. QED  BY <1>1, <1>3, <1>4 DEF Write

\* A list of ids is read as it was written.
LEMMA ListIsRead ==
    ASSUME NEW l, Fits(Len(l), "u16"), AllFit(l, Times(Len(l), "u32"))
    PROVE  /\ write_i32_list(l) \in Seq(Byte)
           /\ \A tail \in Seq(Byte) : read_i32_list_i16l(write_i32_list(l) \o tail) = Reading(<<Len(l)>> \o l, tail)
<1> DEFINE n == Len(l)
           T == Times(n, "u32")
           b == Write(T, l)
           c == WriteInt(n, 2)
<1>1. n \in Nat /\ "u16" \in Types /\ "u32" \in Types
    BY FitsNat, Widths
<1>2. T \in Seq(Types)
    BY <1>1, TimesSeq
<1>3. c = Write(<<"u16">>, <<n>>) /\ AllFit(<<n>>, <<"u16">>) /\ <<"u16">> \in Seq(Types)
    <2>1. c = write_field(n, "u16")
        BY SameWidth
    <2>2. QED  BY <1>1, <2>1, OneFits
<1>4. AllFit(l, T) /\ write_i32_list(l) = Cat(c, b) /\ Cat(<<n>>, l) = <<Len(l)>> \o l
    BY DEF write_i32_list, Cat
<1> HIDE DEF c, T
<1>5. b \in Seq(Byte) /\ c \in Seq(Byte) /\ <<n>> \in Seq(Value)
    <2>1. Reads(b, T, l) /\ Reads(c, <<"u16">>, <<n>>)
        BY <1>2, <1>3, <1>4, ReadsFields
    <2>2. QED  BY <2>1 DEF Reads
<1>6. ASSUME NEW tail \in Seq(Byte)
      PROVE  read_i32_list_i16l(write_i32_list(l) \o tail) = Reading(<<Len(l)>> \o l, tail)
    <2> DEFINE rest == Cat(b, tail)
               bytes == write_i32_list(l) \o tail
               length == Read(<<"u16">>, bytes)
    <2>1. bytes = Cat(Cat(c, b), tail)
        BY <1>4 DEF Cat
    <2>2. read_i32_list_i16l(bytes) = ReadOn(length, Times(length.val[1], "u32"))
        BY DEF read_i32_list_i16l
    <2> HIDE DEF bytes
    <2>3. bytes = Cat(c, rest) /\ rest \in Seq(Byte)
        <3> HIDE DEF b
        <3>1. QED  BY <1>5, <2>1, CatThree
    <2> HIDE DEF rest
    <2>4. length = Reading(<<n>>, rest)
        BY <1>3, <2>3, FieldsFirst
    <2>5. length.val[1] = n
        BY <2>4 DEF Reading
    <2> HIDE DEF length
    <2>6. read_i32_list_i16l(bytes) = ReadOn(Reading(<<n>>, rest), T)
        BY <2>2, <2>4, <2>5 DEF T
    <2>7. ReadOn(Reading(<<n>>, rest), T) = Reading(Cat(<<n>>, l), tail)
        BY <1>2, <1>4, <1>5, FieldsNext DEF rest
    <2>8. QED  BY <1>4, <2>6, <2>7 DEF bytes
<1>7. Cat(c, b) \in Seq(Byte)
    BY <1>5, CatIsSeq
<1>8. QED  BY <1>4, <1>6, <1>7

-----------------------------------------------------------------------------

\* A packet whose values have room in their fields.
Sound(p) == p = [kind |-> p.kind, args |-> p.args] /\ p.kind \in DOMAIN Id /\ ArgsFit(p)

LEMMA LayoutSeq == \A kind \in DOMAIN Layout : Layout[kind] \in Seq(Types)
<1>1. /\ <<"u8", "string", "string", "u32", "u8", "i32">> \in Seq(Types)
      /\ <<"string", "string", "string", "i32">> \in Seq(Types) /\ <<>> \in Seq(Types)
      /\ <<"string">> \in Seq(Types) /\ <<"i32", "string">> \in Seq(Types)
    BY Widths
<1>2. /\ Layout["CHANGE_ACTION"] \in Seq(Types) /\ Layout["SEND_PUBLIC_MESSAGE"] \in Seq(Types)
      /\ Layout["REQUEST_STATUS_UPDATE"] \in Seq(Types) /\ Layout["PING"] \in Seq(Types)
      /\ Layout["ERROR_REPORT"] \in Seq(Types) /\ Layout["JOIN_MATCH"] \in Seq(Types) /\ Layout["CHANNEL_JOIN"] \in Seq(Types)
    BY <1>1, Zenon DEF Layout, MessageTypes
<1>3. DOMAIN Layout = {"CHANGE_ACTION", "SEND_PUBLIC_MESSAGE", "REQUEST_STATUS_UPDATE", "PING", "ERROR_REPORT", "JOIN_MATCH", "CHANNEL_JOIN"}
    BY DEF Layout
<1>4. QED  BY <1>2, <1>3

\* Packets of a fixed layout, and the others.
Plain == {"CHANGE_ACTION", "SEND_PUBLIC_MESSAGE", "REQUEST_STATUS_UPDATE", "PING", "ERROR_REPORT", "JOIN_MATCH", "CHANNEL_JOIN"}
Special == {"MATCH_CHANGE_SETTINGS", "MATCH_SCORE_UPDATE", "SPECTATE_FRAMES", "USER_STATS_REQUEST"}

LEMMA Kinds == DOMAIN Id = Plain \cup Special /\ Plain = DOMAIN Layout
BY DEF Id, Plain, Special, Layout

\* The handler of a packet reads what its client meant, and all of the data.
LEMMA DataIsRead ==
    ASSUME NEW p, Sound(p), Slots \in Nat
    PROVE  /\ ClientData(p) \in Seq(Byte)
           /\ \A tail \in Seq(Byte) :
                 HandlerReads(p.kind, Len(ClientData(p)), ClientData(p) \o tail) = Reading(Meant(p), tail)
<1> DEFINE d == ClientData(p)
<1>1. CASE p.kind = "MATCH_CHANGE_SETTINGS"
    <2>1. d = write_match(p.args, TRUE) /\ Meant(p) = Shown(p.args, TRUE)
        BY <1>1 DEF ClientData, Meant
    <2>2. MatchFits(p.args)
        BY <1>1 DEF Sound, ArgsFit
    <2> HIDE DEF d
    <2>3. /\ d \in Seq(Byte)
          /\ \A tail \in Seq(Byte) : read_match(d \o tail) = Reading(Meant(p), tail)
        BY <2>1, <2>2, MatchIsRead
    <2>4. \A len, bytes : HandlerReads(p.kind, len, bytes) = read_match(bytes)
        BY <1>1 DEF HandlerReads
    <2>5. QED  BY <2>3, <2>4 DEF d
<1>2. CASE p.kind = "MATCH_SCORE_UPDATE"
    <2>1. d = WriteFrame(p.args) /\ Meant(p) = d
        BY <1>2 DEF ClientData, Meant
    <2>2. AllFit(p.args, WholeFrame(p.args))
        BY <1>2 DEF Sound, ArgsFit
    <2> HIDE DEF d
    <2>3. d \in Seq(Byte)
        BY <2>1, <2>2, FrameIsRead
    <2>4. \A len, bytes : HandlerReads(p.kind, len, bytes) = Reading(SubSeq(bytes, 1, len), Drop(bytes, len))
        BY <1>2 DEF HandlerReads
    <2>5. ASSUME NEW tail \in Seq(Byte)  PROVE SubSeq(d \o tail, 1, Len(d)) = d /\ Drop(d \o tail, Len(d)) = tail
        BY <2>3, TakeDrop
    <2>6. QED  BY <2>1, <2>3, <2>4, <2>5 DEF d
<1>3. CASE p.kind = "SPECTATE_FRAMES"
    <2>1. d = WriteBundle(p.args) /\ Meant(p) = p.args
        BY <1>3 DEF ClientData, Meant
    <2>2. p.args[2] \in Nat /\ AllFit(p.args, WholeBundle(p.args))
        BY <1>3 DEF Sound, ArgsFit
    <2> HIDE DEF d
    <2>3. /\ d \in Seq(Byte)
          /\ \A tail \in Seq(Byte) : read_replayframe_bundle(d \o tail) = Reading(Meant(p), tail)
        BY <2>1, <2>2, BundleIsRead
    <2>4. \A len, bytes : HandlerReads(p.kind, len, bytes) = read_replayframe_bundle(bytes)
        BY <1>3 DEF HandlerReads
    <2>5. QED  BY <2>3, <2>4 DEF d
<1>4. CASE p.kind = "USER_STATS_REQUEST"
    <2>1. d = write_i32_list(p.args) /\ Meant(p) = <<Len(p.args)>> \o p.args
        BY <1>4 DEF ClientData, Meant
    <2>2. Fits(Len(p.args), "u16") /\ AllFit(p.args, Times(Len(p.args), "u32"))
        BY <1>4 DEF Sound, ArgsFit
    <2> HIDE DEF d
    <2>3. /\ d \in Seq(Byte)
          /\ \A tail \in Seq(Byte) : read_i32_list_i16l(d \o tail) = Reading(Meant(p), tail)
        BY <2>1, <2>2, ListIsRead
    <2>4. \A len, bytes : HandlerReads(p.kind, len, bytes) = read_i32_list_i16l(bytes)
        BY <1>4 DEF HandlerReads
    <2>5. QED  BY <2>3, <2>4 DEF d
<1>5. CASE p.kind \in Plain
    <2> DEFINE T == Layout[p.kind]
    <2>1. d = Write(T, p.args) /\ Meant(p) = p.args
        BY <1>5 DEF ClientData, Meant, Plain
    <2>2. AllFit(p.args, T)
        BY <1>5 DEF Sound, ArgsFit, Plain
    <2>3. T \in Seq(Types)
        BY <1>5, Kinds, LayoutSeq
    <2>4. \A len, bytes : HandlerReads(p.kind, len, bytes) = Read(T, bytes)
        BY <1>5 DEF HandlerReads, Plain
    <2> HIDE DEF d, T
    <2>5. Reads(d, T, Meant(p))
        BY <2>1, <2>2, <2>3, ReadsFields
    <2>6. d \in Seq(Byte)
        BY <2>5 DEF Reads
    <2>7. ASSUME NEW tail \in Seq(Byte)  PROVE Read(T, d \o tail) = Reading(Meant(p), tail)
        BY <2>5, ReadsFirst
    <2>8. QED  BY <2>4, <2>6, <2>7 DEF d
<1>6. p.kind \in Plain \cup Special
    BY Kinds DEF Sound
<1>7. QED  BY <1>1, <1>2, <1>3, <1>4, <1>5, <1>6 DEF Special

\* No two kinds of packets have the same id.
LEMMA KindOfId == ASSUME NEW kind \in DOMAIN Id  PROVE Kind(Id[kind]) = kind /\ Id[kind] \in 0..127
<1>1. DOMAIN Id = {"CHANGE_ACTION", "SEND_PUBLIC_MESSAGE", "REQUEST_STATUS_UPDATE", "PING", "SPECTATE_FRAMES", "ERROR_REPORT",
                   "JOIN_MATCH", "MATCH_CHANGE_SETTINGS", "MATCH_SCORE_UPDATE", "CHANNEL_JOIN", "USER_STATS_REQUEST"}
    BY DEF Id
<1>2. \A k \in DOMAIN Id : Id[k] = Id[kind] => k = kind
    BY <1>1 DEF Id
<1>3. Id[kind] \in 0..127
    BY <1>1 DEF Id
<1> DEFINE K == CHOOSE k \in DOMAIN Id : Id[k] = Id[kind]
<1>4. K \in DOMAIN Id /\ Id[K] = Id[kind]
    OBVIOUS
<1>5. Kind(Id[kind]) = K
    BY DEF Kind
<1> HIDE DEF K
<1>6. QED  BY <1>2, <1>3, <1>4, <1>5

\* A small number fits every field.
LEMMA SmallShift ==
    ASSUME NEW n \in 0..127, NEW k \in Nat
    PROVE  Shifted(n, k) \in 0..127
<1> DEFINE T == {j \in Nat : Shifted(n, j) \notin 0..127}
<1> SUFFICES ASSUME T # {}  PROVE FALSE
    OBVIOUS
<1>1. PICK j \in T : \A i \in T : j <= i
    BY LeastNat
<1>2. j # 0
    BY ShiftedIs
<1>3. Shifted(n, j - 1) \in 0..127
    BY <1>1, <1>2
<1>4. Shifted(n, (j - 1) + 1) = Shifted(n, j - 1) \div 256
    BY <1>2, ShiftedIs
<1>5. QED  BY <1>2, <1>3, <1>4

LEMMA SmallFits ==
    ASSUME NEW n \in 0..127, NEW type \in DOMAIN Width \ {"f32", "f64"}
    PROVE  Fits(n, type)
<1>1. Width[type] - 1 \in Nat /\ type # "string" /\ n \in Int
    BY Widths DEF Width
<1>2. Shifted(n, Width[type] - 1) \in 0..127
    BY <1>1, SmallShift
<1>3. QED  BY <1>1, <1>2 DEF Fits, Byte

\* These bytes begin with a packet.
Begins(bytes, packid, data, tail) ==
    /\ write(packid, data) \in Seq(Byte) /\ bytes \in Seq(Byte) /\ bytes # <<>>
    /\ ReadInt(SubSeq(bytes, 1, 2), FALSE) = packid /\ ReadInt(SubSeq(bytes, 4, 7), FALSE) = Len(data)
    /\ Drop(bytes, 7) = Cat(data, tail)

\* A packet's header says which it is and where it ends.
LEMMA PacketIsRead ==
    ASSUME NEW packid \in 0..127, NEW data \in Seq(Byte), Fits(Len(data), "u32"), NEW tail \in Seq(Byte)
    PROVE  Begins(Cat(write(packid, data), tail), packid, data, tail)
<1> DEFINE bytes == Cat(write(packid, data), tail)
<1> DEFINE I == WriteInt(packid, 2)
           Z == <<0>>
           L == WriteInt(Len(data), 4)
           IZ == Cat(I, Z)
           dt == Cat(data, tail)
<1>1. Len(data) \in Int /\ Shifted(Len(data), 3) \in Byte
    BY DEF Fits, Width, SignedTypes
<1>2. Fits(packid, "u16")
    BY SmallFits DEF Width
<1>3. Shifted(packid, 1) \in Byte
    BY <1>2 DEF Fits, Width, SignedTypes
<1>4. ReadInt(I, FALSE) = packid /\ ReadInt(L, FALSE) = Len(data)
    <2>1. Shifted(packid, 2 - 1) \in (IF FALSE THEN -128..127 ELSE Byte)
        BY <1>3
    <2>2. Shifted(Len(data), 4 - 1) \in (IF FALSE THEN -128..127 ELSE Byte)
        BY <1>1
    <2> HIDE DEF Z, IZ, dt
    <2>3. ReadInt(I, FALSE) = packid
        <3>1. packid \in Int /\ 2 \in Nat \ {0} /\ FALSE \in BOOLEAN
            OBVIOUS
        <3>2. QED  BY <2>1, <3>1, IntIsRead
    <2>4. ReadInt(L, FALSE) = Len(data)
        <3>1. 4 \in Nat \ {0} /\ FALSE \in BOOLEAN
            OBVIOUS
        <3>2. QED  BY <1>1, <2>2, <3>1, IntIsRead
    <2>5. QED  BY <2>3, <2>4
<1>5. I \in Seq(Byte) /\ Len(I) = 2 /\ L \in Seq(Byte) /\ Len(L) = 4 /\ Z \in Seq(Byte) /\ Len(Z) = 1
    <2>1. Z \in Seq(Byte) /\ Len(Z) = 1
        BY DEF Byte
    <2>2. packid \in Int /\ 2 \in Nat /\ 4 \in Nat
        OBVIOUS
    <2>3. I \in Seq(Byte) /\ Len(I) = 2
        BY <2>2, WriteIntSeq
    <2>4. L \in Seq(Byte) /\ Len(L) = 4
        BY <1>1, <2>2, WriteIntSeq
    <2>5. QED  BY <2>1, <2>3, <2>4
<1>6. write(packid, data) = Cat(Cat(IZ, L), data) /\ bytes = Cat(write(packid, data), tail)
    BY DEF write, Cat
<1> HIDE DEF I, Z, L, bytes
<1>7. IZ \in Seq(Byte) /\ dt \in Seq(Byte)
    BY <1>5, CatIsSeq
<1>8. Len(IZ) = 3
    <2>1. I \in Seq(Byte) /\ Z \in Seq(Byte)
        BY <1>5
    <2>2. Len(Cat(I, Z)) = Len(I) + Len(Z)
        BY <2>1, CatLength
    <2>3. QED  BY <1>5, <2>2
<1> DEFINE ldt == Cat(L, dt)
           zldt == Cat(Z, ldt)
<1>9. IZ = Cat(I, Z) /\ dt = Cat(data, tail)
    OBVIOUS
<1> HIDE DEF IZ, dt
<1>10. Cat(IZ, L) \in Seq(Byte) /\ ldt \in Seq(Byte)
    BY <1>5, <1>7, CatIsSeq
<1>11. write(packid, data) \in Seq(Byte) /\ bytes = Cat(IZ, ldt)
    <2>1. Cat(Cat(IZ, L), data) \in Seq(Byte)
        BY <1>10, CatIsSeq
    <2>2. Cat(Cat(Cat(IZ, L), data), tail) = Cat(Cat(IZ, L), dt)
        BY <1>9, <1>10, CatMoves
    <2>3. Cat(Cat(IZ, L), dt) = Cat(IZ, ldt)
        BY <1>5, <1>7, CatMoves
    <2>4. QED  BY <1>6, <2>1, <2>2, <2>3
<1>12. bytes = Cat(I, zldt)
    <2> HIDE DEF ldt
    <2>1. Cat(Cat(I, Z), ldt) = Cat(I, Cat(Z, ldt))
        BY <1>5, <1>10, CatMoves
    <2>2. QED  BY <1>9, <1>11, <2>1
<1>13. zldt \in Seq(Byte)
    <2> HIDE DEF ldt
    <2>1. QED  BY <1>5, <1>10, CatIsSeq
<1>14. SubSeq(bytes, 1, 2) = I
    <2> HIDE DEF zldt
    <2>1. SubSeq(I \o zldt, 1, Len(I)) = I
        BY <1>5, <1>13, TakeDrop
    <2>2. QED  BY <1>5, <1>12, <2>1 DEF Cat
<1>15. SubSeq(bytes, 4, 7) = L /\ Drop(bytes, 7) = dt
    <2>1. IZ \in Seq(Byte) /\ L \in Seq(Byte) /\ dt \in Seq(Byte)
        BY <1>5, <1>7
    <2>2. SubSeq(IZ \o (L \o dt), Len(IZ) + 1, Len(IZ) + Len(L)) = L
        BY <2>1, Middle
    <2>3. Drop(IZ \o (L \o dt), Len(IZ) + Len(L)) = dt
        BY <2>1, Middle
    <2>4. bytes = IZ \o (L \o dt)
        BY <1>11 DEF Cat
    <2>5. Len(IZ) + 1 = 4 /\ Len(IZ) + Len(L) = 7
        BY <1>5, <1>8
    <2>6. QED  BY <2>2, <2>3, <2>4, <2>5
<1>16. bytes \in Seq(Byte) /\ bytes # <<>>
    <2> HIDE DEF zldt
    <2>1. bytes \in Seq(Byte)
        BY <1>5, <1>12, <1>13, CatIsSeq
    <2>2. Len(Cat(I, zldt)) = Len(I) + Len(zldt)
        BY <1>5, <1>13, CatLength
    <2>3. Len(zldt) \in Nat
        BY <1>13, LenProperties
    <2>4. QED  BY <1>5, <1>12, <2>1, <2>2, <2>3
<1>17. Begins(bytes, packid, data, tail)
    BY <1>4, <1>9, <1>11, <1>14, <1>15, <1>16 DEF Begins
<1>18. QED  BY <1>17 DEF bytes

-----------------------------------------------------------------------------
(* What is written back.                                                    *)

\* What is enqueued in this packet is what is written.
Holds(packet, data) == Data(packet) = data /\ ReadInt(SubSeq(packet, 4, 7), FALSE) = Len(Data(packet))

LEMMA WrittenIsRead ==
    ASSUME NEW packid \in 0..127, NEW data \in Seq(Byte), Fits(Len(data), "u32"), NEW packet, packet = write(packid, data)
    PROVE  Holds(packet, data)
<1>1. <<>> \in Seq(Byte)
    OBVIOUS
<1> DEFINE bytes == Cat(packet, <<>>)
<1>2. /\ write(packid, data) \in Seq(Byte)
      /\ ReadInt(SubSeq(bytes, 4, 7), FALSE) = Len(data)
      /\ Drop(bytes, 7) = Cat(data, <<>>)
    <2>1. Begins(Cat(write(packid, data), <<>>), packid, data, <<>>)
        BY <1>1, PacketIsRead
    <2>2. QED  BY <2>1 DEF Begins
<1>3. bytes = packet
    BY <1>2, ConcatEmptySeq DEF Cat
<1>4. Cat(data, <<>>) = data
    BY ConcatEmptySeq DEF Cat
<1> HIDE DEF bytes
<1>5. QED  BY <1>2, <1>3, <1>4 DEF Data, Holds

\* How long what is written of a few fields can be.
LEMMA FlattenLength ==
    ASSUME NEW n \in Nat, NEW b, \A k \in 1..n : b[k] \in Seq(Byte) /\ Len(b[k]) <= 8
    PROVE  FlattenSeq(First(b, n)) \in Seq(Byte) /\ Len(FlattenSeq(First(b, n))) <= 8 * n
<1> DEFINE Q(m) == FlattenSeq(First(b, m)) \in Seq(Byte) /\ Len(FlattenSeq(First(b, m))) <= 8 * m
           T == {m \in 0..n : ~Q(m)}
<1>1. T = {}
    <2> SUFFICES ASSUME T # {}  PROVE FALSE
        OBVIOUS
    <2>1. PICK m \in T : \A j \in T : m <= j
        <3>1. T \in SUBSET Nat
            OBVIOUS
        <3> HIDE DEF T
        <3>2. QED  BY <3>1, LeastNat
    <2>2. m \in 0..n /\ ~Q(m) /\ \A j \in 0..n : j < m => Q(j)
        BY <2>1
    <2> HIDE DEF T
    <2>3. m # 0
        <3>1. First(b, 0) = <<>> /\ Len(<<>>) = 0 /\ <<>> \in Seq(Byte)
            BY FirstNone
        <3>2. FlattenSeq(First(b, 0)) = <<>>
            BY <3>1, FlattenEmpty
        <3> DEFINE f == FlattenSeq(First(b, 0))
        <3>4. f \in Seq(Byte) /\ Len(f) = 0
            BY <3>1, <3>2
        <3> HIDE DEF f
        <3>5. f \in Seq(Byte) /\ Len(f) <= 8 * 0
            BY <3>4
        <3>6. Q(0)
            BY <3>5 DEF f
        <3>7. QED  BY <2>2, <3>6
    <2>4. Q(m - 1) /\ m \in 1..n /\ m \in Nat \ {0}
        BY <2>2, <2>3
    <2>5. First(b, m) = Append(First(b, m - 1), b[m]) /\ First(b, m - 1) \in Seq(Seq(Byte)) /\ b[m] \in Seq(Byte) /\ Len(b[m]) <= 8
        <3>1. \A k \in 1..m : b[k] \in Seq(Byte)
            BY <2>4
        <3>2. QED  BY <2>4, <3>1, FirstMore
    <2>6. FlattenSeq(First(b, m)) = Cat(FlattenSeq(First(b, m - 1)), b[m])
        BY <2>5, FlattenAppend DEF Cat
    <2> DEFINE f == FlattenSeq(First(b, m - 1))
    <2>7. f \in Seq(Byte) /\ Len(f) <= 8 * (m - 1) /\ Len(f) \in Nat /\ Len(b[m]) \in Nat
        BY <2>4, <2>5, LenProperties
    <2> HIDE DEF f
    <2>8. Cat(f, b[m]) \in Seq(Byte)
        BY <2>5, <2>7, CatIsSeq
    <2>9. Len(Cat(f, b[m])) = Len(f) + Len(b[m])
        <3> DEFINE g == b[m]
        <3>1. f \in Seq(Byte) /\ g \in Seq(Byte)
            BY <2>5, <2>7
        <3> HIDE DEF g
        <3>2. Len(Cat(f, g)) = Len(f) + Len(g)
            BY <3>1, CatHas
        <3>3. QED  BY <3>2 DEF g
    <2>10. Len(Cat(f, b[m])) <= 8 * m
        BY <2>4, <2>5, <2>7, <2>9
    <2>11. QED  BY <2>2, <2>6, <2>8, <2>10 DEF f
<1>2. Q(n)
    BY <1>1
<1>3. QED  BY <1>2

\* Fields of at most eight bytes.
Short(val, type) == type \in Types /\ Fits(val, type) /\ (type = "string" => val = <<>>)

\* What is written of them is short.
LEMMA ShortField == ASSUME NEW type, NEW val, Short(val, type)  PROVE write_field(val, type) \in Seq(Byte) /\ Len(write_field(val, type)) <= 8
<1>1. write_field(val, type) \in Seq(Byte)
    BY FieldIsRead DEF Short
<1>2. CASE type = "string"
    <2>1. write_field(val, type) = <<0>>
        BY <1>2 DEF Short, write_field, write_string
    <2>2. Len(<<0>>) = 1
        OBVIOUS
    <2>3. QED  BY <1>1, <2>1, <2>2
<1>3. CASE type \in {"f32", "f64"}
    <2>1. write_field(val, type) = val /\ val \in [1..Width[type] -> Byte]
        BY <1>3 DEF Short, write_field, Fits
    <2>2. Width[type] \in {1, 2, 4, 8}
        BY <1>3, Widths
    <2>3. Len(val) = Width[type]
        BY <2>1, <2>2, SeqDef
    <2>4. QED  BY <1>1, <2>1, <2>2, <2>3
<1>4. CASE type \notin {"string", "f32", "f64"}
    <2>1. write_field(val, type) = WriteInt(val, Width[type]) /\ val \in Int
        BY <1>4 DEF Short, write_field, Fits
    <2>2. Width[type] \in {1, 2, 4, 8}
        BY <1>4, Widths DEF Short
    <2>3. Len(WriteInt(val, Width[type])) = Width[type]
        BY <2>1, <2>2, WriteIntSeq
    <2>4. QED  BY <1>1, <2>1, <2>2, <2>3
<1>5. QED  BY <1>2, <1>3, <1>4

LEMMA ShortFields ==
    ASSUME NEW types \in Seq(Types), NEW vals, AllFit(vals, types), Len(types) <= 15,
           \A k \in 1..Len(types) : Short(vals[k], types[k])
    PROVE  Len(Write(types, vals)) \in 0..127
<1> DEFINE n == Len(types)
           b == [k \in 1..n |-> write_field(vals[k], types[k])]
<1>1. n \in Nat /\ DOMAIN types = 1..n /\ n <= 15
    BY LenProperties
<1>2. Write(types, vals) = FlattenSeq(b) /\ First(b, n) = b
    BY <1>1 DEF Write, First
<1>3. \A k \in 1..n : b[k] \in Seq(Byte) /\ Len(b[k]) <= 8
    BY ShortField
<1> HIDE DEF b, n
<1>4. FlattenSeq(First(b, n)) \in Seq(Byte) /\ Len(FlattenSeq(First(b, n))) <= 8 * n
    BY <1>1, <1>3, FlattenLength
<1>5. Len(FlattenSeq(First(b, n))) \in Nat
    BY <1>4, LenProperties
<1> DEFINE l == Len(FlattenSeq(First(b, n)))
<1>6. l \in Nat /\ l <= 8 * n /\ n \in Nat /\ n <= 15
    BY <1>1, <1>4, <1>5
<1>7. Len(Write(types, vals)) = l
    BY <1>2
<1> HIDE DEF l
<1>8. l \in 0..127
    BY <1>6
<1>9. QED  BY <1>7, <1>8

\* A number that is not cut off when it is shown as pp.
LEMMA PpFits == ASSUME NEW n \in Nat, n <= 32767  PROVE Fits(n, "i16")
<1>1. Shifted(n, 0) = n /\ Shifted(n, 0 + 1) = Shifted(n, 0) \div 256
    BY ShiftedIs
<1>2. Shifted(n, 1) = n \div 256
    BY <1>1
<1>3. n \div 256 \in Int /\ n \div 256 >= 0 /\ n \div 256 <= 127
    OBVIOUS
<1>4. Width["i16"] - 1 = 1 /\ "i16" \in SignedTypes /\ "i16" \notin {"string", "f32", "f64"}
    BY DEF Width, SignedTypes
<1>5. n \in Int /\ Shifted(n, Width["i16"] - 1) \in -128..127
    BY <1>2, <1>3, <1>4
<1>6. QED  BY <1>4, <1>5 DEF Fits

-----------------------------------------------------------------------------

\* pp that do not fit are shown as ranked score.
LEMMA StatsAreRead ==
    ASSUME NEW s, s.pp \in Nat, Fits(s.pp, "i64"), Fits(s.rscore, "i64")
    PROVE  /\ ReadInt(SubSeq(user_stats(s), 4, 7), FALSE) = Len(Data(user_stats(s)))
           /\ LET shown == Read(UserStatsTypes, Data(user_stats(s))).val
              IN  IF s.pp < 2^15 THEN shown[8] = s.rscore /\ shown[13] = s.pp ELSE shown[8] = s.pp /\ shown[13] = 0
<1> DEFINE T == UserStatsTypes
           pp == IF s.pp > 32767 THEN 0 ELSE s.pp
           rscore == IF s.pp > 32767 THEN s.pp ELSE s.rscore
           vals == <<1, 0, <<>>, <<>>, 0, 0, 0, rscore, <<0, 0, 0, 0>>, 0, 0, 0, pp>>
           data == Write(T, vals)
<1>1. user_stats(s) = write(11, data)
    BY DEF user_stats
<1>2. /\ T \in Seq(Types) /\ Len(T) = 13 /\ DOMAIN T = 1..13
      /\ T[1] = "i32" /\ T[2] = "u8" /\ T[3] = "string" /\ T[4] = "string" /\ T[5] = "i32" /\ T[6] = "u8" /\ T[7] = "i32"
      /\ T[8] = "i64" /\ T[9] = "f32" /\ T[10] = "i32" /\ T[11] = "i64" /\ T[12] = "i32" /\ T[13] = "i16"
    BY Widths DEF UserStatsTypes
<1>3. pp \in Nat /\ Fits(pp, "i16")
    <2>1. pp \in Nat /\ pp <= 32767
        OBVIOUS
    <2> HIDE DEF pp
    <2>2. QED  BY <2>1, PpFits
<1>4. Fits(rscore, "i64")
    OBVIOUS
<1>5. Fits(1, "i32") /\ Fits(0, "u8") /\ Fits(0, "i32") /\ Fits(0, "i64")
    BY SmallFits DEF Width
<1>6. Fits(<<>>, "string")
    BY DEF Fits
<1>7. Fits(<<0, 0, 0, 0>>, "f32")
    <2>1. Width["f32"] = 4
        BY DEF Width
    <2>2. <<0, 0, 0, 0>> \in [1..4 -> Byte]
        BY DEF Byte
    <2>3. QED  BY <2>1, <2>2 DEF Fits
<1> DEFINE x == <<0, 0, 0, 0>>
           e == <<>>
<1>8. /\ vals = [k \in 1..13 |-> vals[k]] /\ vals[8] = rscore /\ vals[13] = pp
      /\ vals[1] = 1 /\ vals[2] = 0 /\ vals[3] = e /\ vals[4] = e /\ vals[5] = 0 /\ vals[6] = 0 /\ vals[7] = 0
      /\ vals[9] = x /\ vals[10] = 0 /\ vals[11] = 0 /\ vals[12] = 0
    <2> HIDE DEF pp, rscore, x, e
    <2> DEFINE v == <<1, 0, e, e, 0, 0, 0, rscore, x, 0, 0, 0, pp>>
    <2>1. /\ v = [k \in 1..13 |-> v[k]] /\ v[8] = rscore /\ v[13] = pp
          /\ v[1] = 1 /\ v[2] = 0 /\ v[3] = e /\ v[4] = e /\ v[5] = 0 /\ v[6] = 0 /\ v[7] = 0
          /\ v[9] = x /\ v[10] = 0 /\ v[11] = 0 /\ v[12] = 0
        OBVIOUS
    <2>2. vals = v
        BY DEF x, e
    <2> HIDE DEF v, vals
    <2>3. QED  BY <2>1, <2>2
<1>9. s.pp < 2^15 <=> ~(s.pp > 32767)
    <2>1. 2^15 = 32768
        OBVIOUS
    <2>2. QED  BY <2>1
<1>10. /\ s.pp < 2^15 => rscore = s.rscore /\ pp = s.pp
       /\ ~(s.pp < 2^15) => rscore = s.pp /\ pp = 0
    BY <1>9
<1> HIDE DEF T, pp, rscore, vals
<1>11. \A k \in 1..13 : Fits(vals[k], T[k]) /\ Short(vals[k], T[k])
    <2>1. \A k \in 1..13 : k = 1 \/ k = 2 \/ k = 3 \/ k = 4 \/ k = 5 \/ k = 6 \/ k = 7 \/ k = 8 \/ k = 9 \/ k = 10 \/ k = 11 \/ k = 12 \/ k = 13
        OBVIOUS
    <2>2. \A k \in 1..13 : T[k] \in Types
        BY <1>2, ElementOfSeq
    <2>3. Fits(e, "string") /\ Fits(x, "f32")
        BY <1>6, <1>7
    <2> HIDE DEF e, x
    <2>4. \A k \in 1..13 : Fits(vals[k], T[k])
        <3>1. Fits(vals[1], T[1]) /\ Fits(vals[2], T[2]) /\ Fits(vals[3], T[3]) /\ Fits(vals[4], T[4])
            BY <1>2, <1>5, <1>8, <2>3
        <3>2. Fits(vals[5], T[5]) /\ Fits(vals[6], T[6]) /\ Fits(vals[7], T[7]) /\ Fits(vals[8], T[8]) /\ Fits(vals[9], T[9])
            BY <1>2, <1>4, <1>5, <1>8, <2>3
        <3>3. Fits(vals[10], T[10]) /\ Fits(vals[11], T[11]) /\ Fits(vals[12], T[12]) /\ Fits(vals[13], T[13])
            BY <1>2, <1>3, <1>5, <1>8, <2>3
        <3>4. QED  BY <2>1, <3>1, <3>2, <3>3
    <2>5. \A k \in 1..13 : T[k] = "string" => vals[k] = e
        BY <1>2, <1>8, <2>1
    <2>6. QED  BY <2>2, <2>4, <2>5 DEF Short, e
<1>12. AllFit(vals, T)
    BY <1>2, <1>8, <1>11 DEF AllFit
<1>13. Reads(data, T, vals)
    BY <1>2, <1>12, ReadsFields
<1>14. Len(data) \in 0..127
    <2>1. T \in Seq(Types) /\ Len(T) <= 15 /\ AllFit(vals, T) /\ \A k \in 1..Len(T) : Short(vals[k], T[k])
        BY <1>2, <1>11, <1>12
    <2>2. Len(Write(T, vals)) \in 0..127
        BY <2>1, ShortFields
    <2>3. QED  BY <2>2
<1>15. data \in Seq(Byte) /\ Fits(Len(data), "u32") /\ 11 \in 0..127
    <2>1. data \in Seq(Byte)
        BY <1>13 DEF Reads
    <2>2. Fits(Len(data), "u32")
        <3>1. "u32" \in DOMAIN Width \ {"f32", "f64"}
            BY DEF Width
        <3> HIDE DEF data
        <3>2. QED  BY <1>14, <3>1, SmallFits
    <2>3. QED  BY <2>1, <2>2
<1> HIDE DEF data
<1>16. Data(user_stats(s)) = data /\ ReadInt(SubSeq(user_stats(s), 4, 7), FALSE) = Len(Data(user_stats(s)))
    <2>1. Holds(user_stats(s), data)
        BY <1>1, <1>15, WrittenIsRead
    <2>2. QED  BY <2>1 DEF Holds
<1>17. Read(T, data).val = vals
    <2>1. <<>> \in Seq(Byte)
        OBVIOUS
    <2>2. Read(T, data \o <<>>) = Reading(vals, <<>>)
        BY <1>13, <2>1, ReadsFirst
    <2>3. data \o <<>> = data
        BY <1>15, ConcatEmptySeq
    <2>4. QED  BY <2>2, <2>3 DEF Reading
<1>18. QED  BY <1>8, <1>10, <1>16, <1>17 DEF T

\* A sequence that is one and then another, place by place.
Joins(u, s, t) ==
    /\ Len(u) = Len(s) + Len(t)
    /\ \A k \in 1..Len(s) : u[k] = s[k]
    /\ \A k \in 1..Len(t) : u[Len(s) + k] = t[k]

LEMMA CatJoins == ASSUME NEW S, NEW s \in Seq(S), NEW t \in Seq(S)  PROVE Joins(Cat(s, t), s, t)
<1>1. Len(Cat(s, t)) = Len(s) + Len(t)
    BY CatHas
<1>2. \A k \in 1..Len(s) : Cat(s, t)[k] = s[k]
    BY CatHas
<1>3. \A k \in 1..Len(t) : Cat(s, t)[Len(s) + k] = t[k]
    BY CatHas
<1>4. QED  BY <1>1, <1>2, <1>3 DEF Joins

\* One byte is replaced where a packet is changed.
Around(u, x, v, z) ==
    /\ u \in Seq(Byte) /\ Len(u) = Len(x) + 1 + Len(z) /\ u[Len(x) + 1] = v
    /\ \A k \in 1..Len(x) : u[k] = x[k]
    /\ \A k \in 1..Len(z) : u[Len(x) + 1 + k] = z[k]

LEMMA ByteReplaced ==
    ASSUME NEW x \in Seq(Byte), NEW z \in Seq(Byte), NEW y \in Byte, NEW w \in Byte, NEW n, n = Len(x) + 1
    PROVE  [Cat(x, Cat(<<y>>, z)) EXCEPT ![n] = w] = Cat(x, Cat(<<w>>, z))
<1>0. ASSUME NEW v \in Byte, NEW u, u = Cat(x, Cat(<<v>>, z))
      PROVE  Around(u, x, v, z)
    <2> DEFINE o == <<v>>
               oz == Cat(o, z)
    <2>1. o \in Seq(Byte) /\ Len(o) = 1 /\ o[1] = v
        BY <1>0
    <2> HIDE DEF o
    <2>2. oz \in Seq(Byte) /\ Joins(oz, o, z)
        BY <2>1, CatIsSeq, CatJoins
    <2>5. u = Cat(x, oz)
        BY <1>0 DEF o
    <2> HIDE DEF oz
    <2>3. Len(oz) = Len(o) + Len(z) /\ (\A k \in 1..Len(o) : oz[k] = o[k]) /\ \A k \in 1..Len(z) : oz[Len(o) + k] = z[k]
        BY <2>2 DEF Joins
    <2>4. u \in Seq(Byte) /\ Joins(u, x, oz)
        BY <2>2, <2>5, CatIsSeq, CatJoins
    <2>6. Len(u) = Len(x) + Len(oz)
        BY <2>4 DEF Joins
    <2>7. \A k \in 1..Len(x) : u[k] = x[k]
        BY <2>4 DEF Joins
    <2>8. \A k \in 1..Len(oz) : u[Len(x) + k] = oz[k]
        BY <2>4 DEF Joins
    <2>9. Len(x) \in Nat /\ Len(z) \in Nat
        BY LenProperties
    <2>10. u[Len(x) + 1] = v
        BY <2>1, <2>3, <2>8, <2>9
    <2>11. ASSUME NEW k \in 1..Len(z)  PROVE u[Len(x) + 1 + k] = z[k]
        <3>1. 1 + k \in 1..Len(oz) /\ Len(x) + (1 + k) = Len(x) + 1 + k /\ Len(o) + k = 1 + k
            BY <2>1, <2>3, <2>9
        <3>2. u[Len(x) + (1 + k)] = oz[1 + k] /\ oz[1 + k] = z[k]
            BY <2>3, <2>8, <3>1
        <3>3. QED  BY <3>1, <3>2
    <2>12. QED  BY <2>1, <2>3, <2>4, <2>6, <2>7, <2>9, <2>10, <2>11 DEF Around
<1> DEFINE a == Cat(x, Cat(<<y>>, z))
           b == Cat(x, Cat(<<w>>, z))
           c == [a EXCEPT ![n] = w]
<1>1. /\ a \in Seq(Byte) /\ Len(a) = Len(x) + 1 + Len(z) /\ \A k \in 1..Len(x) : a[k] = x[k]
      /\ \A k \in 1..Len(z) : a[Len(x) + 1 + k] = z[k]
    <2>1. Around(a, x, y, z)
        BY <1>0
    <2>2. QED  BY <2>1 DEF Around
<1>2. /\ b \in Seq(Byte) /\ Len(b) = Len(x) + 1 + Len(z) /\ b[Len(x) + 1] = w /\ \A k \in 1..Len(x) : b[k] = x[k]
      /\ \A k \in 1..Len(z) : b[Len(x) + 1 + k] = z[k]
    <2>1. Around(b, x, w, z)
        BY <1>0
    <2>2. QED  BY <2>1 DEF Around
<1> HIDE DEF a, b
<1>3. Len(x) \in Nat /\ Len(z) \in Nat
    BY LenProperties
<1>4. DOMAIN a = 1..Len(x) + 1 + Len(z) /\ a \in [1..Len(x) + 1 + Len(z) -> Byte]
    BY <1>1, LenProperties, <1>3
<1>5. c \in [1..Len(x) + 1 + Len(z) -> Byte] /\ c[n] = w /\ \A k \in 1..Len(x) + 1 + Len(z) : k # n => c[k] = a[k]
    BY <1>3, <1>4
<1> HIDE DEF c
<1>6. c \in Seq(Byte) /\ Len(c) = Len(x) + 1 + Len(z)
    BY <1>3, <1>5, SeqDef, SMTT(30)
<1>7. ASSUME NEW k \in 1..Len(b)  PROVE c[k] = b[k]
    <2>1. CASE k \in 1..Len(x)
        BY <1>1, <1>2, <1>3, <1>5, <2>1
    <2>2. CASE k = n
        BY <1>2, <1>5, <2>2
    <2>3. CASE k > n
        <3>1. k - n \in 1..Len(z) /\ Len(x) + 1 + (k - n) = k
            BY <1>2, <1>3, <2>3
        <3>2. a[k] = z[k - n] /\ b[k] = z[k - n]
            BY <1>1, <1>2, <3>1
        <3>3. QED  BY <1>2, <1>3, <1>5, <2>3, <3>2
    <2>4. QED  BY <1>2, <1>3, <2>1, <2>2, <2>3
<1>8. c = b
    BY <1>2, <1>6, <1>7, SeqEqual
<1>9. QED  BY <1>8 DEF a, b, c

\* A byte is written as it is.
LEMMA ByteWritten == ASSUME NEW i \in Byte  PROVE write_field(i, "u8") = <<i>> /\ Fits(i, "u8")
<1>1. Shifted(i, 0) = i
    BY ShiftedIs
<1>2. i % 256 = i /\ i \in Int
    BY DEF Byte
<1>3. Fits(i, "u8")
    BY <1>1, <1>2 DEF Fits, Width, SignedTypes
<1>4. write_field(i, "u8") = WriteInt(i, 1)
    BY DEF write_field, Width
<1>5. WriteInt(i, 1) = [k \in 1..1 |-> Shifted(i, k - 1) % 256]
    BY DEF WriteInt
<1>6. [k \in 1..1 |-> Shifted(i, k - 1) % 256] = [k \in 1..1 |-> i]
    BY <1>1, <1>2
<1>7. [k \in 1..1 |-> i] = <<i>>
    OBVIOUS
<1>8. QED  BY <1>3, <1>4, <1>5, <1>6, <1>7

LEMMA WriteTwo ==
    ASSUME NEW s \in Types, NEW t \in Types, NEW x, Fits(x, s), NEW y, Fits(y, t)
    PROVE  Write(<<s, t>>, <<x, y>>) = Cat(write_field(x, s), write_field(y, t))
<1> DEFINE a == write_field(x, s)
           b == write_field(y, t)
<1>1. a \in Seq(Byte) /\ b \in Seq(Byte)
    BY FieldIsRead
<1>2. Write(<<s, t>>, <<x, y>>) = FlattenSeq(<<a, b>>)
    <2>1. [k \in DOMAIN <<s, t>> |-> write_field(<<x, y>>[k], <<s, t>>[k])] = <<a, b>>
        OBVIOUS
    <2>2. QED  BY <2>1 DEF Write
<1> HIDE DEF a, b
<1>3. <<a, b>> = Append(<<a>>, b) /\ <<a>> \in Seq(Seq(Byte))
    BY <1>1
<1>4. FlattenSeq(Append(<<a>>, b)) = Cat(FlattenSeq(<<a>>), b)
    BY <1>1, <1>3, FlattenAppend DEF Cat
<1>5. FlattenSeq(<<a>>) = a
    BY <1>1, FlattenOne
<1>6. QED  BY <1>2, <1>3, <1>4, <1>5 DEF a, b

\* A frame under this id.
As(s, i) == [s EXCEPT ![2] = i]

\* A score frame is its time, the id and the rest, and only the id changes.
LEMMA FrameParts ==
    ASSUME NEW s, AllFit(s, WholeFrame(s))
    PROVE  /\ s[2] \in Byte
           /\ \A i \in Byte : AllFit(As(s, i), WholeFrame(As(s, i))) /\ As(s, i)[2] = i /\ As(As(s, i), s[2]) = s
           /\ As(s, s[2]) = s
           /\ \E time \in Seq(Byte), rest \in Seq(Byte) :
                 Len(time) = 4 /\ \A i \in Byte : WriteFrame(As(s, i)) = Cat(time, Cat(<<i>>, rest))
<1> DEFINE A == <<"i32", "u8">>
           B == Times(6, "u16")
           C == <<"i32", "u16", "u16", "u8", "u8", "u8", "u8">>
           P == Portions(s[15])
           R == Cat(Cat(B, C), P)
           W == WholeFrame(s)
           n == Len(W)
           m == Len(R)
<1>1. /\ A \in Seq(Types) /\ Len(A) = 2 /\ A[1] = "i32" /\ A[2] = "u8" /\ C \in Seq(Types) /\ Len(C) = 7
      /\ "i32" \in Types /\ "u8" \in Types
    BY Widths
<1>2. B \in Seq(Types) /\ Len(B) = 6
    BY Widths, TimesSeq
<1>3. P \in Seq(Types)
    BY PortionsSeq
<1>4. \A x : WholeFrame(x) = Cat(FrameTypes, Portions(x[15])) /\ FrameTypes = Cat(Cat(A, B), C)
    BY FrameTypesSeq DEF WholeFrame, FrameTypes, Cat
<1> HIDE DEF A, B, C, P
<1>5. Cat(B, C) \in Seq(Types) /\ Cat(A, B) \in Seq(Types)
    BY <1>1, <1>2, CatIsSeq
<1>6. R \in Seq(Types)
    BY <1>3, <1>5, CatIsSeq
<1>7. W = Cat(A, R)
    <2>1. W = Cat(Cat(Cat(A, B), C), P)
        BY <1>4 DEF P
    <2>2. Cat(Cat(A, B), C) = Cat(A, Cat(B, C))
        BY <1>1, <1>2, CatMoves
    <2>3. Cat(Cat(A, Cat(B, C)), P) = Cat(A, Cat(Cat(B, C), P))
        BY <1>1, <1>3, <1>5, CatMoves
    <2> HIDE DEF W
    <2>4. QED  BY <2>1, <2>2, <2>3
<1>8. R = Cat(Cat(B, C), P) /\ W = WholeFrame(s)
    OBVIOUS
<1> HIDE DEF R, W
<1>9. W \in Seq(Types) /\ n = Len(A) + m
    BY <1>1, <1>6, <1>7, CatHas
<1>10. \A k \in 1..Len(A) : W[k] = A[k]
    BY <1>1, <1>6, <1>7, CatHas, ZenonT(30)
<1>11. Len(R) >= 13 /\ Len(R) \in Nat
    <2>1. Len(Cat(B, C)) = Len(B) + Len(C)
        BY <1>1, <1>2, CatLength
    <2>2. Len(R) = Len(Cat(B, C)) + Len(P)
        BY <1>3, <1>5, <1>8, CatLength
    <2>3. Len(P) \in Nat
        BY <1>3, LenProperties
    <2>4. QED  BY <1>1, <1>2, <2>1, <2>2, <2>3
<1>12. m \in Nat /\ m >= 13 /\ n = 2 + m /\ W[1] = "i32" /\ W[2] = "u8" /\ DOMAIN W = 1..n
    BY <1>1, <1>9, <1>10, <1>11, LenProperties
<1> HIDE DEF n, m
<1>13. s = [k \in 1..n |-> s[k]] /\ \A k \in 1..n : Fits(s[k], W[k])
    BY <1>8, <1>12 DEF AllFit
<1>14. 1 \in 1..n /\ 2 \in 1..n /\ 15 \in 1..n /\ 15 # 2 /\ 1 # 2
    BY <1>12
<1>15. s[2] \in Byte
    <2>1. Fits(s[2], "u8")
        BY <1>12, <1>13, <1>14
    <2>2. Shifted(s[2], 0) = s[2] /\ Shifted(s[2], 0) \in Byte
        BY <2>1, ShiftedIs DEF Fits, Width, SignedTypes
    <2>3. QED  BY <2>2
<1>16. ASSUME NEW i \in Byte
       PROVE  /\ As(s, i) = [k \in 1..n |-> As(s, i)[k]] /\ As(s, i)[2] = i /\ \A k \in 1..n : k # 2 => As(s, i)[k] = s[k]
              /\ As(As(s, i), s[2]) = s
    <2>1. DOMAIN s = 1..n
        BY <1>13
    <2>2. QED  BY <1>13, <1>14, <2>1 DEF As
<1>17. As(s, s[2]) = s
    <2>1. DOMAIN s = 1..n
        BY <1>13
    <2>2. QED  BY <1>13, <1>14, <2>1 DEF As
<1>18. ASSUME NEW i \in Byte
       PROVE  WholeFrame(As(s, i)) = W /\ AllFit(As(s, i), W)
    <2> DEFINE t == As(s, i)
    <2>1. t = [k \in 1..n |-> t[k]] /\ t[2] = i /\ \A k \in 1..n : k # 2 => t[k] = s[k]
        BY <1>16
    <2> HIDE DEF t
    <2>2. t[15] = s[15]
        BY <1>14, <2>1
    <2>3. WholeFrame(t) = W
        BY <1>4, <1>8, <2>2
    <2>4. Fits(i, "u8")
        BY ByteWritten
    <2>5. \A k \in 1..n : Fits(t[k], W[k])
        BY <1>12, <1>13, <2>1, <2>4
    <2>6. AllFit(t, W)
        BY <1>12, <2>1, <2>5 DEF AllFit
    <2>7. QED  BY <2>3, <2>6 DEF t
<1> DEFINE time == write_field(s[1], "i32")
           rest == Write(R, After(s, 2, m))
<1>19. time \in Seq(Byte) /\ Len(time) = 4 /\ Fits(s[1], "i32")
    <2>1. Fits(s[1], "i32")
        BY <1>12, <1>13, <1>14
    <2>2. s[1] \in Int
        BY <2>1 DEF Fits
    <2>3. time = WriteInt(s[1], 4) /\ 4 \in Nat
        BY SameWidth
    <2>4. WriteInt(s[1], 4) \in Seq(Byte) /\ Len(WriteInt(s[1], 4)) = 4
        BY <2>2, WriteIntSeq
    <2>5. QED  BY <2>1, <2>3, <2>4
<1>20. ASSUME NEW i \in Byte  PROVE WriteFrame(As(s, i)) = Cat(time, Cat(<<i>>, rest)) /\ rest \in Seq(Byte)
    <2> DEFINE t == As(s, i)
    <2>1. AllFit(t, Cat(A, R)) /\ WriteFrame(t) = Write(Cat(A, R), t)
        BY <1>7, <1>18 DEF WriteFrame
    <2>2. Write(Cat(A, R), t) = Cat(Write(A, First(t, 2)), Write(R, After(t, 2, m)))
        <3>1. Len(A) = 2 /\ Len(R) = m
            BY <1>1 DEF m
        <3> HIDE DEF t
        <3>2. Write(Cat(A, R), t) = Cat(Write(A, First(t, Len(A))), Write(R, After(t, Len(A), Len(R))))
            BY <1>1, <1>6, <2>1, WriteSplit
        <3>3. QED  BY <3>1, <3>2
    <2>3. First(t, 2) = <<s[1], i>>
        <3>1. t[1] = s[1] /\ t[2] = i
            BY <1>14, <1>16
        <3> HIDE DEF t
        <3>2. First(t, 2) = <<t[1], t[2]>>
            BY DEF First
        <3>3. QED  BY <3>1, <3>2
    <2>4. After(t, 2, m) = After(s, 2, m)
        <3>1. \A k \in 1..m : t[2 + k] = s[2 + k]
            <4>1. \A k \in 1..m : 2 + k \in 1..n /\ 2 + k # 2
                BY <1>12
            <4>2. QED  BY <1>16, <4>1
        <3> HIDE DEF t
        <3>2. QED  BY <3>1 DEF After
    <2>5. AllFit(After(t, 2, m), R)
        <3>1. Len(A) = 2 /\ Len(R) = m
            BY <1>1 DEF m
        <3> HIDE DEF t
        <3>2. AllFit(After(t, Len(A), Len(R)), R)
            BY <1>1, <1>6, <2>1, WriteSplit
        <3>3. QED  BY <3>1, <3>2
    <2>6. rest \in Seq(Byte)
        <3>1. Reads(rest, R, After(s, 2, m))
            BY <1>6, <2>4, <2>5, ReadsFields
        <3>2. QED  BY <3>1 DEF Reads
    <2>7. Write(A, <<s[1], i>>) = Cat(time, <<i>>)
        <3>1. A = <<"i32", "u8">> /\ write_field(i, "u8") = <<i>> /\ Fits(i, "u8")
            BY ByteWritten DEF A
        <3>2. QED  BY <1>1, <1>19, <3>1, WriteTwo
    <2> HIDE DEF rest, time
    <2>8. <<i>> \in Seq(Byte)
        OBVIOUS
    <2>9. Cat(Cat(time, <<i>>), rest) = Cat(time, Cat(<<i>>, rest))
        <3> DEFINE o == <<i>>
        <3>1. o \in Seq(Byte)
            BY <2>8
        <3> HIDE DEF o
        <3>2. Cat(Cat(time, o), rest) = Cat(time, Cat(o, rest))
            BY <1>19, <2>6, <3>1, CatMoves
        <3>3. QED  BY <3>2 DEF o
    <2> HIDE DEF t
    <2>10. WriteFrame(t) = Cat(Cat(time, <<i>>), rest)
        BY <2>1, <2>2, <2>3, <2>4, <2>7 DEF rest
    <2>11. QED  BY <2>6, <2>9, <2>10 DEF t
<1>21. \E tm \in Seq(Byte), r \in Seq(Byte) : Len(tm) = 4 /\ \A i \in Byte : WriteFrame(As(s, i)) = Cat(tm, Cat(<<i>>, r))
    <2> HIDE DEF time, rest
    <2>1. rest \in Seq(Byte)
        BY <1>15, <1>20
    <2>2. QED  BY <1>19, <1>20, <2>1
<1>22. \A i \in Byte : AllFit(As(s, i), WholeFrame(As(s, i))) /\ As(s, i)[2] = i /\ As(As(s, i), s[2]) = s
    BY <1>16, <1>18
<1>23. QED  BY <1>15, <1>17, <1>21, <1>22

\* A score frame is passed on with the slot as its id, and is otherwise the same.
LEMMA ScoreTold ==
    ASSUME NEW s, AllFit(s, WholeFrame(s)), Fits(Len(WriteFrame(s)), "u32"), MySlot \in Byte,
           NEW packet, packet = score_update(WriteFrame(s))
    PROVE  /\ ReadInt(SubSeq(packet, 4, 7), FALSE) = Len(Data(packet))
           /\ read_scoreframe(Data(packet)).val = As(s, MySlot)
<1>1. /\ s[2] \in Byte /\ As(s, s[2]) = s
      /\ \A i \in Byte : AllFit(As(s, i), WholeFrame(As(s, i)))
    BY FrameParts
<1>2. PICK time \in Seq(Byte), rest \in Seq(Byte) :
          Len(time) = 4 /\ \A i \in Byte : WriteFrame(As(s, i)) = Cat(time, Cat(<<i>>, rest))
    BY FrameParts
<1> DEFINE t == As(s, MySlot)
           d == WriteFrame(s)
           e == WriteFrame(t)
           me == <<MySlot>>
           it == <<s[2]>>
<1>3. d = Cat(time, Cat(it, rest)) /\ e = Cat(time, Cat(me, rest))
    BY <1>1, <1>2
<1>4. AllFit(t, WholeFrame(t)) /\ d \in Seq(Byte) /\ e \in Seq(Byte)
    <2>1. AllFit(t, WholeFrame(t))
        BY <1>1
    <2> HIDE DEF t
    <2>2. QED  BY <2>1, FrameIsRead
<1>5. it \in Seq(Byte) /\ me \in Seq(Byte) /\ Len(it) = 1 /\ Len(me) = 1
    BY <1>1
<1>6. Len(e) = Len(d)
    <2> HIDE DEF it, me, d, e
    <2>1. Cat(it, rest) \in Seq(Byte) /\ Cat(me, rest) \in Seq(Byte) /\ Joins(Cat(it, rest), it, rest) /\ Joins(Cat(me, rest), me, rest)
        BY <1>5, CatIsSeq, CatJoins
    <2>2. Len(Cat(it, rest)) = Len(it) + Len(rest) /\ Len(Cat(me, rest)) = Len(me) + Len(rest)
        BY <2>1 DEF Joins
    <2>3. Joins(Cat(time, Cat(it, rest)), time, Cat(it, rest)) /\ Joins(Cat(time, Cat(me, rest)), time, Cat(me, rest))
        BY <2>1, CatJoins
    <2>4. Len(d) = Len(time) + Len(Cat(it, rest)) /\ Len(e) = Len(time) + Len(Cat(me, rest))
        BY <1>3, <2>3 DEF Joins
    <2>5. QED  BY <1>5, <2>2, <2>4
<1> DEFINE I == WriteInt(48, 2)
           Z == <<0>>
           L == WriteInt(Len(d), 4)
           h == Cat(Cat(I, Z), L)
           x == Cat(h, time)
<1>7. write(48, d) = Cat(h, d) /\ write(48, e) = Cat(h, e)
    BY <1>6 DEF write, Cat
<1>8. h \in Seq(Byte) /\ Len(h) = 7
    <2>1. Z \in Seq(Byte) /\ Len(Z) = 1
        BY DEF Byte
    <2>2. I \in Seq(Byte) /\ Len(I) = 2
        <3>1. 48 \in Int /\ 2 \in Nat
            OBVIOUS
        <3> HIDE DEF d, e, t
        <3>2. QED  BY <3>1, WriteIntSeq
    <2>3. L \in Seq(Byte) /\ Len(L) = 4
        <3> HIDE DEF d
        <3>1. Len(d) \in Int /\ 4 \in Nat
            BY <1>4, LenProperties
        <3>2. QED  BY <3>1, WriteIntSeq
    <2> HIDE DEF I, Z, L
    <2>4. Cat(I, Z) \in Seq(Byte) /\ Joins(Cat(I, Z), I, Z)
        BY <2>1, <2>2, CatIsSeq, CatJoins
    <2>5. h \in Seq(Byte) /\ Joins(h, Cat(I, Z), L)
        BY <2>3, <2>4, CatIsSeq, CatJoins
    <2> HIDE DEF h
    <2>6. Len(Cat(I, Z)) = 3
        BY <2>1, <2>2, <2>4 DEF Joins
    <2>7. Len(h) = 7
        BY <2>3, <2>5, <2>6 DEF Joins
    <2>8. QED  BY <2>5, <2>7
<1> HIDE DEF h
<1>9. x \in Seq(Byte) /\ Len(x) + 1 = 12
    <2>1. x \in Seq(Byte) /\ Joins(x, h, time)
        BY <1>8, CatIsSeq, CatJoins
    <2> HIDE DEF x
    <2>2. Len(x) = 11
        BY <1>2, <1>8, <2>1 DEF Joins
    <2>3. QED  BY <2>1, <2>2
<1>10. Cat(h, d) = Cat(x, Cat(it, rest)) /\ Cat(h, e) = Cat(x, Cat(me, rest))
    <2> HIDE DEF it, me, d, e
    <2>1. Cat(it, rest) \in Seq(Byte) /\ Cat(me, rest) \in Seq(Byte)
        BY <1>5, CatIsSeq
    <2>2. Cat(Cat(h, time), Cat(it, rest)) = Cat(h, Cat(time, Cat(it, rest)))
        BY <1>8, <2>1, CatMoves
    <2>3. Cat(Cat(h, time), Cat(me, rest)) = Cat(h, Cat(time, Cat(me, rest)))
        BY <1>8, <2>1, CatMoves
    <2>4. QED  BY <1>3, <2>2, <2>3
<1> HIDE DEF x, d, e
<1>11. [Cat(x, Cat(<<s[2]>>, rest)) EXCEPT ![12] = MySlot] = Cat(x, Cat(<<MySlot>>, rest))
    BY <1>1, <1>9, ByteReplaced
<1>12. packet = write(48, e)
    <2>1. packet = [write(48, d) EXCEPT ![12] = MySlot]
        BY DEF score_update, d
    <2>2. QED  BY <1>7, <1>10, <1>11, <2>1
<1>13. Data(packet) = e /\ ReadInt(SubSeq(packet, 4, 7), FALSE) = Len(Data(packet))
    <2>1. Fits(Len(e), "u32")
        BY <1>6 DEF d
    <2>2. 48 \in 0..127
        OBVIOUS
    <2> HIDE DEF I, Z, L, t, me, it
    <2>3. e \in Seq(Byte)
        BY <1>4
    <2>4. Holds(packet, e)
        BY <1>12, <2>1, <2>2, <2>3, WrittenIsRead
    <2>5. QED  BY <2>4 DEF Holds
<1>14. read_scoreframe(e).val = t
    <2> HIDE DEF t
    <2>1. <<>> \in Seq(Byte)
        OBVIOUS
    <2>2. read_scoreframe(e \o <<>>) = Reading(t, <<>>)
        BY <1>4, <2>1, FrameIsRead DEF e
    <2>3. e \o <<>> = e
        BY <1>4, ConcatEmptySeq
    <2>4. QED  BY <2>2, <2>3 DEF Reading
<1>15. QED  BY <1>13, <1>14

\* TellsWhatIsMeant, of what is enqueued, by whom, out of which packets.
Tells(o, kind, packets) ==
    /\ \A packet \in ToSet(o) : ReadInt(SubSeq(packet, 4, 7), FALSE) = Len(Data(packet))
    /\ LET said(args) == \E p \in packets : p.kind = kind /\ p.args = args
       IN  CASE kind = "REQUEST_STATUS_UPDATE" ->
                  LET shown == Read(UserStatsTypes, Data(o[1])).val
                  IN  \E s \in Stats : IF s.pp < 2^15 THEN shown[8] = s.rscore /\ shown[13] = s.pp
                                        ELSE shown[8] = s.pp /\ shown[13] = 0
             [] kind = "MATCH_CHANGE_SETTINGS" -> \E m \in Matches :
                  /\ read_match(Data(o[1])).val = Shown(m, TRUE)
                  /\ read_match(Data(o[2])).val = Shown(m, FALSE)
             [] kind = "MATCH_SCORE_UPDATE" ->
                  LET frame == read_scoreframe(Data(o[1])).val
                  IN  frame[2] = MySlot /\ \E id \in 0..255 : said([frame EXCEPT ![2] = id])
             [] kind = "SPECTATE_FRAMES" -> said(read_replayframe_bundle(Data(o[1])).val)

LEMMA TellsIs == TellsWhatIsMeant = (out # <<>> => Tells(out, Last(handled).kind, ToSet(sent)))
BY DEF TellsWhatIsMeant, Tells

\* Who is told of one packet, and of two.
LEMMA OneTold == ASSUME NEW x  PROVE ToSet(<<x>>) = {x} /\ <<x>>[1] = x
BY DEF ToSet

LEMMA TwoTold == ASSUME NEW x, NEW y  PROVE ToSet(<<x, y>>) = {x, y} /\ <<x, y>>[1] = x /\ <<x, y>>[2] = y
BY DEF ToSet

\* What is enqueued when a packet is handled is about what its client meant.
LEMMA HandledTold ==
    ASSUME PacketsConstants, NEW packets, NEW p \in Sent, p \in packets,
           NEW o \in Enqueued(p.kind, Meant(p), ClientData(p)), o # <<>>
    PROVE  Tells(o, p.kind, packets)
<1>1. Sound(p) /\ Fits(Len(ClientData(p)), "u32") /\ Slots \in Nat /\ MySlot \in Byte
    BY DEF PacketsConstants, Sound
<1>2. CASE p.kind = "REQUEST_STATUS_UPDATE"
    <2>1. PICK s \in Stats : o = <<user_stats(s)>>
        BY <1>2 DEF Enqueued
    <2>2. s.pp \in Nat /\ Fits(s.pp, "i64") /\ Fits(s.rscore, "i64")
        BY DEF PacketsConstants
    <2>3. ToSet(o) = {user_stats(s)} /\ o[1] = user_stats(s)
        BY <2>1, OneTold
    <2>4. ReadInt(SubSeq(user_stats(s), 4, 7), FALSE) = Len(Data(user_stats(s)))
        BY <2>2, StatsAreRead
    <2> DEFINE shown == Read(UserStatsTypes, Data(user_stats(s))).val
    <2>5. IF s.pp < 2^15 THEN shown[8] = s.rscore /\ shown[13] = s.pp ELSE shown[8] = s.pp /\ shown[13] = 0
        BY <2>2, StatsAreRead
    <2> HIDE DEF shown
    <2>6. QED  BY <1>2, <2>3, <2>4, <2>5 DEF Tells, shown
<1>3. CASE p.kind = "MATCH_CHANGE_SETTINGS"
    <2>1. PICK m \in Matches : o = enqueue_state(m)
        BY <1>3 DEF Enqueued
    <2>2. PICK q \in Sent : q.kind = "MATCH_CHANGE_SETTINGS" /\ m = q.args
        BY DEF Matches
    <2>3. /\ MatchFits(m) /\ Fits(Len(write_match(m, TRUE)), "u32") /\ Fits(Len(write_match(m, FALSE)), "u32")
        <3>1. ArgsFit(q) /\ Fits(Len(ClientData(q)), "u32") /\ Fits(Len(write_match(m, FALSE)), "u32")
            BY DEF PacketsConstants
        <3>2. QED  BY <2>2, <3>1 DEF ArgsFit, ClientData
    <2> DEFINE a == write(26, write_match(m, TRUE))
               b == write(26, write_match(m, FALSE))
    <2>4. ASSUME NEW pw \in BOOLEAN, NEW packet, packet = write(26, write_match(m, pw)), Fits(Len(write_match(m, pw)), "u32")
          PROVE  ReadInt(SubSeq(packet, 4, 7), FALSE) = Len(Data(packet)) /\ read_match(Data(packet)).val = Shown(m, pw)
        <3> DEFINE w == write_match(m, pw)
        <3>1. /\ w \in Seq(Byte)
              /\ \A tail \in Seq(Byte) : read_match(w \o tail) = Reading(Shown(m, pw), tail)
            BY <1>1, <2>3, MatchIsRead
        <3>2. 26 \in 0..127 /\ packet = write(26, w) /\ Fits(Len(w), "u32")
            BY <2>4
        <3> HIDE DEF w
        <3>3. Data(packet) = w /\ ReadInt(SubSeq(packet, 4, 7), FALSE) = Len(Data(packet))
            <4>1. Holds(packet, w)
                BY <3>1, <3>2, WrittenIsRead
            <4>2. QED  BY <4>1 DEF Holds
        <3>4. <<>> \in Seq(Byte)
            OBVIOUS
        <3>5. w \o <<>> = w
            BY <3>1, ConcatEmptySeq
        <3>6. read_match(w) = Reading(Shown(m, pw), <<>>)
            BY <3>1, <3>4, <3>5
        <3> DEFINE shown == Shown(m, pw)
        <3>7. read_match(w) = Reading(shown, <<>>)
            BY <3>6
        <3> HIDE DEF shown
        <3>8. read_match(w).val = shown
            BY <3>7 DEF Reading
        <3>9. read_match(Data(packet)).val = shown
            BY <3>3, <3>8
        <3>10. QED  BY <3>3, <3>9 DEF shown
    <2>5. o = <<a, b>>
        BY <2>1 DEF enqueue_state
    <2>6. /\ ReadInt(SubSeq(a, 4, 7), FALSE) = Len(Data(a)) /\ read_match(Data(a)).val = Shown(m, TRUE)
          /\ ReadInt(SubSeq(b, 4, 7), FALSE) = Len(Data(b)) /\ read_match(Data(b)).val = Shown(m, FALSE)
        BY <2>3, <2>4
    <2> HIDE DEF a, b
    <2>7. ToSet(o) = {a, b} /\ o[1] = a /\ o[2] = b
        BY <2>5, TwoTold
    <2>8. QED  BY <1>3, <2>6, <2>7 DEF Tells
<1>4. CASE p.kind = "MATCH_SCORE_UPDATE"
    <2> DEFINE s == p.args
               t == As(s, MySlot)
               packet == score_update(WriteFrame(s))
    <2>1. o = <<packet>>
        BY <1>4 DEF Enqueued, Meant
    <2>2. AllFit(s, WholeFrame(s)) /\ Fits(Len(WriteFrame(s)), "u32")
        BY <1>1, <1>4 DEF Sound, ArgsFit, ClientData
    <2>3. ReadInt(SubSeq(packet, 4, 7), FALSE) = Len(Data(packet)) /\ read_scoreframe(Data(packet)).val = t
        BY <1>1, <2>2, ScoreTold
    <2>4. s[2] \in 0..255 /\ t[2] = MySlot /\ As(t, s[2]) = s
        <3>1. s[2] \in Byte /\ \A i \in Byte : As(s, i)[2] = i /\ As(As(s, i), s[2]) = s
            BY <2>2, FrameParts
        <3>2. QED  BY <1>1, <3>1 DEF Byte
    <2>5. s = p.args
        OBVIOUS
    <2> HIDE DEF packet, t, s
    <2>6. ToSet(o) = {packet} /\ o[1] = packet
        BY <2>1, OneTold
    <2>7. \E id \in 0..255 : \E q \in packets : q.kind = p.kind /\ q.args = [t EXCEPT ![2] = id]
        <3>1. p.args = [t EXCEPT ![2] = s[2]]
            BY <2>4, <2>5 DEF As
        <3>2. QED  BY <2>4, <3>1
    <2>8. QED  BY <1>4, <2>3, <2>4, <2>6, <2>7 DEF Tells
<1>5. CASE p.kind = "SPECTATE_FRAMES"
    <2> DEFINE w == WriteBundle(p.args)
               packet == write(15, w)
    <2>1. o = <<packet>>
        BY <1>5 DEF Enqueued, ClientData
    <2>2. p.args[2] \in Nat /\ AllFit(p.args, WholeBundle(p.args)) /\ Fits(Len(w), "u32")
        BY <1>1, <1>5 DEF Sound, ArgsFit, ClientData
    <2>3. /\ w \in Seq(Byte)
          /\ \A tail \in Seq(Byte) : read_replayframe_bundle(w \o tail) = Reading(p.args, tail)
        BY <2>2, BundleIsRead
    <2> HIDE DEF w
    <2>4. Data(packet) = w /\ ReadInt(SubSeq(packet, 4, 7), FALSE) = Len(Data(packet))
        <3>1. 15 \in 0..127
            OBVIOUS
        <3>2. Holds(packet, w)
            BY <2>2, <2>3, <3>1, WrittenIsRead
        <3>3. QED  BY <3>2 DEF Holds
    <2>5. read_replayframe_bundle(w).val = p.args
        <3>1. <<>> \in Seq(Byte)
            OBVIOUS
        <3>2. w \o <<>> = w
            BY <2>3, ConcatEmptySeq
        <3>3. read_replayframe_bundle(w) = Reading(p.args, <<>>)
            BY <2>3, <3>1, <3>2
        <3>4. QED  BY <3>3 DEF Reading
    <2> HIDE DEF packet
    <2>6. ToSet(o) = {packet} /\ o[1] = packet
        BY <2>1, OneTold
    <2>7. QED  BY <1>5, <2>4, <2>5, <2>6 DEF Tells
<1>6. p.kind \in {"REQUEST_STATUS_UPDATE", "MATCH_CHANGE_SETTINGS", "MATCH_SCORE_UPDATE", "SPECTATE_FRAMES"}
    BY DEF Enqueued
<1>7. QED  BY <1>2, <1>3, <1>4, <1>5, <1>6

-----------------------------------------------------------------------------
(* Requests.                                                                *)

\* What is left of a sequence.
LEMMA DropIs ==
    ASSUME NEW S, NEW s \in Seq(S), NEW n \in Nat, n <= Len(s)
    PROVE  /\ Drop(s, n) \in Seq(S) /\ Len(Drop(s, n)) = Len(s) - n
           /\ \A k \in 1..Len(s) - n : Drop(s, n)[k] = s[n + k]
<1> DEFINE u == SubSeq(s, n + 1, Len(s))
<1>1. Len(s) \in Nat /\ \A i \in 1..Len(s) : s[i] \in S
    BY LenProperties, ElementOfSeq
<1>2. \A i \in n + 1 .. Len(s) : s[i] \in S
    BY <1>1
<1>3. /\ u \in Seq(S)
      /\ Len(u) = IF n + 1 <= Len(s) THEN Len(s) - (n + 1) + 1 ELSE 0
      /\ \A i \in 1 .. Len(s) - (n + 1) + 1 : u[i] = s[n + 1 + i - 1]
    BY <1>1, <1>2, SubSeqProperties
<1> HIDE DEF u
<1>4. Len(u) = Len(s) - n
    BY <1>1, <1>3
<1>5. \A k \in 1..Len(s) - n : u[k] = s[n + k]
    BY <1>1, <1>3
<1>6. QED  BY <1>3, <1>4, <1>5 DEF u, Drop

\* The bytes of a packet.
PacketBytes(p) == write(Id[p.kind], ClientData(p))

\* Every packet that may be sent begins the bytes that are left when the reader
\* has come to it.
LEMMA PacketFits ==
    ASSUME PacketsConstants, NEW p \in Sent
    PROVE  /\ ClientData(p) \in Seq(Byte) /\ PacketBytes(p) \in Seq(Byte)
           /\ \A tail \in Seq(Byte) : Begins(Cat(PacketBytes(p), tail), Id[p.kind], ClientData(p), tail)
<1>1. Sound(p) /\ Fits(Len(ClientData(p)), "u32") /\ Slots \in Nat
    BY DEF PacketsConstants, Sound
<1> DEFINE d == ClientData(p)
           id == Id[p.kind]
<1>2. d \in Seq(Byte)
    BY <1>1, DataIsRead
<1>3. id \in 0..127
    BY <1>1, KindOfId DEF Sound
<1>4. PacketBytes(p) = write(id, d) /\ Fits(Len(d), "u32")
    BY <1>1 DEF PacketBytes
<1> HIDE DEF d, id
<1>5. ASSUME NEW tail \in Seq(Byte)  PROVE Begins(Cat(PacketBytes(p), tail), id, d, tail)
    <2>1. Begins(Cat(write(id, d), tail), id, d, tail)
        BY <1>2, <1>3, <1>4, PacketIsRead
    <2>2. QED  BY <1>4, <2>1
<1>6. PacketBytes(p) \in Seq(Byte)
    <2>1. <<>> \in Seq(Byte)
        OBVIOUS
    <2>2. Begins(Cat(PacketBytes(p), <<>>), id, d, <<>>)
        BY <1>5, <2>1
    <2>3. QED  BY <1>4, <2>2 DEF Begins
<1>7. QED  BY <1>2, <1>5, <1>6 DEF d, id

\* The bytes of a request are those of its packets.
LEMMA ClientBytesSeq ==
    ASSUME PacketsConstants, NEW q \in Seq(Sent)
    PROVE  /\ ClientBytes(q) \in Seq(Byte)
           /\ ClientBytes(q) = FlattenSeq([k \in 1..Len(q) |-> PacketBytes(q[k])])
           /\ [k \in 1..Len(q) |-> PacketBytes(q[k])] \in Seq(Seq(Byte))
<1> DEFINE f == [k \in 1..Len(q) |-> PacketBytes(q[k])]
<1>1. Len(q) \in Nat /\ DOMAIN q = 1..Len(q) /\ \A k \in 1..Len(q) : q[k] \in Sent
    BY LenProperties, ElementOfSeq
<1>2. f \in [1..Len(q) -> Seq(Byte)]
    BY <1>1, PacketFits
<1>3. ClientBytes(q) = FlattenSeq(f)
    BY <1>1 DEF ClientBytes, PacketBytes
<1> HIDE DEF f
<1>4. f \in Seq(Seq(Byte))
    BY <1>1, <1>2, SeqDef
<1>5. FlattenSeq(f) \in Seq(Byte)
    BY <1>4, FlattenSeqs
<1>6. QED  BY <1>3, <1>4, <1>5 DEF f

\* The next packet, and the bytes of those after it.
LEMMA NextPacket ==
    ASSUME PacketsConstants, NEW q \in Seq(Sent), NEW n \in Nat, n < Len(q)
    PROVE  /\ q[n + 1] \in Sent /\ ClientBytes(Drop(q, n + 1)) \in Seq(Byte)
           /\ ClientBytes(Drop(q, n)) = Cat(PacketBytes(q[n + 1]), ClientBytes(Drop(q, n + 1)))
<1> DEFINE r == Drop(q, n)
           t == Drop(q, n + 1)
           m == Len(q) - (n + 1)
           f == [k \in 1..Len(r) |-> PacketBytes(r[k])]
           g == [k \in 1..Len(t) |-> PacketBytes(t[k])]
<1>1. Len(q) \in Nat /\ m \in Nat /\ q[n + 1] \in Sent
    BY LenProperties, ElementOfSeq
<1>2. r \in Seq(Sent) /\ Len(r) = Len(q) - n /\ \A k \in 1..Len(q) - n : r[k] = q[n + k]
    <2>1. n <= Len(q)
        BY <1>1
    <2> HIDE DEF f, g, m, t
    <2>2. QED  BY <2>1, DropIs
<1>3. t \in Seq(Sent) /\ Len(t) = m /\ \A k \in 1..m : t[k] = q[n + 1 + k]
    <2>1. n + 1 \in Nat /\ n + 1 <= Len(q)
        BY <1>1
    <2>2. QED  BY <2>1, DropIs
<1>4. Len(r) = 1 + m
    BY <1>1, <1>2
<1> HIDE DEF r, t, m
<1>5. ClientBytes(r) = FlattenSeq(f) /\ f \in Seq(Seq(Byte))
    BY <1>2, ClientBytesSeq
<1>6. ClientBytes(t) = FlattenSeq(g) /\ g \in Seq(Seq(Byte)) /\ ClientBytes(t) \in Seq(Byte)
    BY <1>3, ClientBytesSeq
<1>7. f[1] = PacketBytes(q[n + 1]) /\ DOMAIN f = 1..1 + m
    <2>1. 1 \in 1..Len(r) /\ 1 \in 1..Len(q) - n
        BY <1>1, <1>2, <1>4
    <2>2. QED  BY <1>2, <1>4, <2>1
<1>8. \A k \in 1..m : f[1 + k] = PacketBytes(q[n + 1 + k])
    <2> SUFFICES ASSUME NEW k \in 1..m  PROVE f[1 + k] = PacketBytes(q[n + 1 + k])
        OBVIOUS
    <2>1. 1 + k \in 1..Len(r) /\ 1 + k \in 1..Len(q) - n /\ n + (1 + k) = n + 1 + k
        BY <1>1, <1>2, <1>4
    <2>2. QED  BY <1>2, <2>1
<1>9. g = [k \in 1..m |-> PacketBytes(q[n + 1 + k])]
    BY <1>3
<1>10. Len(f) = 1 + m
    <2> HIDE DEF f
    <2>1. QED  BY <1>1, <1>5, <1>7, LenProperties
<1> HIDE DEF f, g
<1>11. After(f, 1, m) = g
    BY <1>8, <1>9 DEF After
<1>12. First(f, 1) = <<PacketBytes(q[n + 1])>>
    BY <1>7 DEF First
<1>13. f = Cat(First(f, 1), After(f, 1, m))
    BY <1>1, <1>5, <1>10, Parts
<1> DEFINE w == PacketBytes(q[n + 1])
           s == <<w>>
<1>14. w \in Seq(Byte)
    BY <1>1, PacketFits
<1>15. s \in Seq(Seq(Byte)) /\ FlattenSeq(s) = w
    BY <1>14, FlattenOne
<1>16. f = Cat(s, g)
    BY <1>11, <1>12, <1>13
<1> HIDE DEF s, w
<1>17. FlattenSeq(Cat(s, g)) = Cat(FlattenSeq(s), FlattenSeq(g))
    BY <1>6, <1>15, FlattenCat DEF Cat
<1>18. ClientBytes(r) = Cat(w, ClientBytes(t))
    BY <1>5, <1>6, <1>15, <1>16, <1>17
<1>19. QED  BY <1>1, <1>6, <1>18 DEF r, t, w

\* What has been given to handlers of the first n packets.
Given(p, map) == IF p.kind \in map THEN <<[kind |-> p.kind, val |-> Meant(p)]>> ELSE <<>>
SoFar(q, n, map) == FlattenSeq([k \in 1..n |-> IF q[k].kind \in map THEN <<[kind |-> q[k].kind, val |-> Meant(q[k])]>> ELSE <<>>])

LEMMA SoFarNone == ASSUME NEW q, NEW map  PROVE SoFar(q, 0, map) = <<>>
<1>1. [k \in 1..0 |-> IF q[k].kind \in map THEN <<[kind |-> q[k].kind, val |-> Meant(q[k])]>> ELSE <<>>] = <<>>
    OBVIOUS
<1>2. QED  BY <1>1, FlattenEmpty DEF SoFar

\* With one packet more, one thing more has been handled, if anybody handles it.
LEMMA SoFarMore ==
    ASSUME NEW q \in Seq(Sent), NEW n \in Nat, n < Len(q), NEW map
    PROVE  SoFar(q, n + 1, map) = IF q[n + 1].kind \in map
                                   THEN Append(SoFar(q, n, map), [kind |-> q[n + 1].kind, val |-> Meant(q[n + 1])])
                                   ELSE SoFar(q, n, map)
<1> DEFINE S == {[kind |-> p.kind, val |-> Meant(p)] : p \in Sent}
           f == [k \in 1..n + 1 |-> Given(q[k], map)]
<1>1. Len(q) \in Nat /\ \A k \in 1..n + 1 : q[k] \in Sent
    BY LenProperties, ElementOfSeq
<1>2. \A k \in 1..n + 1 : f[k] \in Seq(S) /\ f[k] = Given(q[k], map)
    <2> SUFFICES ASSUME NEW k \in 1..n + 1  PROVE f[k] \in Seq(S) /\ f[k] = Given(q[k], map)
        OBVIOUS
    <2>1. f[k] = Given(q[k], map)
        OBVIOUS
    <2>2. [kind |-> q[k].kind, val |-> Meant(q[k])] \in S
        BY <1>1
    <2> DEFINE e == [kind |-> q[k].kind, val |-> Meant(q[k])]
    <2> HIDE DEF S, f
    <2>3. e \in S
        BY <2>2
    <2> HIDE DEF e
    <2>4. <<e>> \in Seq(S) /\ <<>> \in Seq(S)
        BY <2>3
    <2>5. Given(q[k], map) \in {<<e>>, <<>>}
        BY DEF Given, e
    <2>6. QED  BY <2>1, <2>4, <2>5
<1>3. First(f, n + 1) = f /\ First(f, n) = [k \in 1..n |-> Given(q[k], map)]
    BY DEF First
<1>4. SoFar(q, n + 1, map) = FlattenSeq(First(f, n + 1)) /\ SoFar(q, n, map) = FlattenSeq(First(f, n))
    BY <1>3 DEF SoFar, Given
<1> HIDE DEF f, S
<1>5. First(f, n + 1) = Append(First(f, n), f[n + 1]) /\ First(f, n) \in Seq(Seq(S))
    <2>1. n + 1 \in Nat \ {0} /\ n + 1 - 1 = n /\ \A k \in 1..n + 1 : f[k] \in Seq(S)
        BY <1>2
    <2> DEFINE m == n + 1
               SS == Seq(S)
    <2>2. m \in Nat \ {0} /\ m - 1 = n /\ \A k \in 1..m : f[k] \in SS
        BY <2>1
    <2> HIDE DEF m, SS
    <2>3. First(f, m) = Append(First(f, m - 1), f[m]) /\ First(f, m - 1) \in Seq(SS)
        BY <2>2, FirstMore
    <2>4. QED  BY <2>2, <2>3 DEF m, SS
<1>6. f[n + 1] \in Seq(S) /\ f[n + 1] = Given(q[n + 1], map)
    BY <1>2
<1>7. FlattenSeq(Append(First(f, n), f[n + 1])) = FlattenSeq(First(f, n)) \o f[n + 1]
    BY <1>5, <1>6, FlattenAppend
<1> DEFINE before == FlattenSeq(First(f, n))
<1>8. before \in Seq(S)
    BY <1>5, FlattenSeqs
<1>9. SoFar(q, n + 1, map) = before \o Given(q[n + 1], map) /\ SoFar(q, n, map) = before
    BY <1>4, <1>5, <1>6, <1>7
<1> HIDE DEF before
<1> DEFINE e == [kind |-> q[n + 1].kind, val |-> Meant(q[n + 1])]
<1>10. CASE q[n + 1].kind \in map
    <2>1. Given(q[n + 1], map) = <<e>>
        BY <1>10 DEF Given
    <2>2. e \in S
        BY <1>1 DEF S
    <2> HIDE DEF e
    <2>3. before \o <<e>> = Append(before, e)
        BY <1>8, <2>2, AppendIsConcat
    <2>4. QED  BY <1>9, <1>10, <2>1, <2>3 DEF e
<1>11. CASE q[n + 1].kind \notin map
    <2>1. Given(q[n + 1], map) = <<>>
        BY <1>11 DEF Given
    <2>2. before \o <<>> = before
        BY <1>8, ConcatEmptySeq
    <2>3. QED  BY <1>9, <1>11, <2>1, <2>2
<1>12. QED  BY <1>10, <1>11

\* Where the reader stands: n packets of q have been read, of which those in map
\* have been given to handlers.
Stands(bytes, given, q, n, map) == bytes = ClientBytes(Drop(q, n)) /\ given = SoFar(q, n, map)

\* The reader stands at the beginning of a packet, those before it have been
\* handled as they were meant, and what was written last is about the last.
WireInv ==
    /\ posted \in BOOLEAN
    /\ sent \in Seq(Sent)
    /\ ~posted => body = <<>> /\ handled = <<>> /\ out = <<>>
    /\ posted => \E n \in 0..Len(sent) : Stands(body, handled, sent, n, packet_map)
    /\ out # <<>> => Tells(out, Last(handled).kind, ToSet(sent))

LEMMA WireInvReads == WireInv => ReadsWhatIsMeant /\ TellsWhatIsMeant
<1>1. WireInv => ReadsWhatIsMeant
    BY DEF WireInv, ReadsWhatIsMeant, Stands, SoFar
<1>2. WireInv => TellsWhatIsMeant
    BY TellsIs DEF WireInv
<1>3. QED  BY <1>1, <1>2

LEMMA NoneSent == <<>> \in Seq(Sent)
OBVIOUS

LEMMA WireInvInit == ASSUME PacketsInit  PROVE WireInv
<1>1. posted = FALSE /\ sent = <<>> /\ body = <<>> /\ handled = <<>> /\ out = <<>>
    BY DEF PacketsInit
<1>2. QED  BY <1>1, NoneSent DEF WireInv

\* What has been handled is a sequence of what is meant.
LEMMA SoFarSeq ==
    ASSUME NEW q \in Seq(Sent), NEW n \in Nat, n <= Len(q), NEW map
    PROVE  SoFar(q, n, map) \in Seq({[kind |-> p.kind, val |-> Meant(p)] : p \in Sent})
<1> DEFINE S == {[kind |-> p.kind, val |-> Meant(p)] : p \in Sent}
           f == [k \in 1..n |-> Given(q[k], map)]
<1>1. Len(q) \in Nat /\ \A k \in 1..n : q[k] \in Sent
    BY LenProperties, ElementOfSeq
<1>2. ASSUME NEW k \in 1..n  PROVE Given(q[k], map) \in Seq(S)
    <2> DEFINE e == [kind |-> q[k].kind, val |-> Meant(q[k])]
    <2>1. e \in S
        BY <1>1
    <2>2. Given(q[k], map) \in {<<e>>, <<>>}
        BY DEF Given
    <2> HIDE DEF e, S
    <2>3. <<e>> \in Seq(S) /\ <<>> \in Seq(S)
        BY <2>1
    <2>4. QED  BY <2>2, <2>3
<1> HIDE DEF S
<1>3. f \in [1..n -> Seq(S)]
    BY <1>2
<1>4. f \in Seq(Seq(S))
    BY <1>3, SeqDef
<1>5. SoFar(q, n, map) = FlattenSeq(f)
    BY DEF SoFar, Given
<1>6. QED  BY <1>4, <1>5, FlattenSeqs DEF S

LEMMA LastAppended == ASSUME NEW S, NEW s \in Seq(S), NEW e \in S  PROVE Last(Append(s, e)) = e
BY AppendProperties, LenProperties DEF Last

\* Bytes that are left begin with the next packet.
LEMMA AtPacket ==
    ASSUME PacketsConstants, NEW q \in Seq(Sent), NEW n \in 0..Len(q), NEW bytes, bytes = ClientBytes(Drop(q, n)), bytes # <<>>
    PROVE  /\ n < Len(q) /\ q[n + 1] \in Sent
           /\ ClientData(q[n + 1]) \in Seq(Byte) /\ ClientBytes(Drop(q, n + 1)) \in Seq(Byte)
           /\ Begins(bytes, Id[q[n + 1].kind], ClientData(q[n + 1]), ClientBytes(Drop(q, n + 1)))
<1>1. Len(q) \in Nat /\ n \in Nat /\ n <= Len(q)
    BY LenProperties
<1>2. n < Len(q)
    <2> SUFFICES ASSUME n = Len(q)  PROVE FALSE
        BY <1>1
    <2>1. Drop(q, n) \in Seq(Sent) /\ Len(Drop(q, n)) = 0
        BY <1>1, DropIs
    <2> DEFINE r == Drop(q, n)
               f == [k \in 1..Len(r) |-> PacketBytes(r[k])]
    <2> HIDE DEF r
    <2>2. ClientBytes(r) = FlattenSeq(f)
        BY <2>1, ClientBytesSeq DEF r
    <2>3. f = <<>>
        BY <2>1 DEF r
    <2>4. QED  BY <2>2, <2>3, FlattenEmpty DEF r
<1> DEFINE rest == ClientBytes(Drop(q, n + 1))
           p == q[n + 1]
<1>3. p \in Sent /\ rest \in Seq(Byte) /\ bytes = Cat(PacketBytes(p), rest)
    BY <1>1, <1>2, NextPacket
<1> HIDE DEF p, rest
<1>4. ClientData(p) \in Seq(Byte) /\ Begins(Cat(PacketBytes(p), rest), Id[p.kind], ClientData(p), rest)
    BY <1>3, PacketFits
<1>5. QED  BY <1>2, <1>3, <1>4 DEF p, rest

\* What the reader makes of the bytes that are left is the next packet.
LEMMA HeaderIs ==
    ASSUME PacketsConstants, NEW p \in Sent, NEW rest \in Seq(Byte), ClientData(p) \in Seq(Byte),
           Begins(body, Id[p.kind], ClientData(p), rest)
    PROVE  /\ Header.kind = p.kind /\ Header.len = Len(ClientData(p)) /\ AfterHeader = Cat(ClientData(p), rest)
           /\ Drop(AfterHeader, Header.len) = rest /\ SubSeq(AfterHeader, 1, Header.len) = ClientData(p)
           /\ HandlerReads(Header.kind, Header.len, AfterHeader) = Reading(Meant(p), rest)
<1> DEFINE d == ClientData(p)
<1>1. Sound(p) /\ Slots \in Nat
    BY DEF PacketsConstants, Sound
<1>2. Kind(Id[p.kind]) = p.kind
    BY <1>1, KindOfId DEF Sound
<1>3. HandlerReads(p.kind, Len(d), d \o rest) = Reading(Meant(p), rest)
    BY <1>1, DataIsRead
<1> HIDE DEF d
<1>4. d \in Seq(Byte) /\ Begins(body, Id[p.kind], d, rest)
    BY DEF d
<1>5. Header.kind = p.kind /\ Header.len = Len(d)
    BY <1>2, <1>4 DEF Header, Begins
<1>6. AfterHeader = d \o rest
    BY <1>4 DEF AfterHeader, Begins, Cat
<1>7. SubSeq(d \o rest, 1, Len(d)) = d /\ Drop(d \o rest, Len(d)) = rest
    BY <1>4, TakeDrop
<1>8. QED  BY <1>3, <1>5, <1>6, <1>7 DEF d, Cat

\* The steps.
LEMMA WireInvSends == ASSUME NEW p \in Sent, Sends(p), WireInv  PROVE WireInv'
<1>1. ~posted /\ posted' = posted /\ body' = body /\ handled' = handled /\ out' = out /\ sent' = Append(sent, p)
    BY DEF Sends
<1>2. sent' \in Seq(Sent)
    BY <1>1, AppendProperties DEF WireInv
<1>3. QED  BY <1>1, <1>2 DEF WireInv

LEMMA WireInvPosts == ASSUME PacketsConstants, bancho_handler, WireInv  PROVE WireInv'
<1>1. ~posted /\ posted' = TRUE /\ body' = ClientBytes(sent) /\ sent' = sent /\ handled' = handled /\ out' = out
    BY DEF bancho_handler
<1>2. sent \in Seq(Sent) /\ handled = <<>> /\ out = <<>>
    BY <1>1 DEF WireInv
<1>3. Drop(sent, 0) = sent /\ 0 \in 0..Len(sent)
    <2>1. Len(sent) \in Nat /\ Drop(sent, 0) \in Seq(Sent) /\ Len(Drop(sent, 0)) = Len(sent)
          /\ \A k \in 1..Len(sent) : Drop(sent, 0)[k] = sent[k]
        BY <1>2, LenProperties, DropIs
    <2>2. Drop(sent, 0) = sent
        BY <1>2, <2>1, SeqEqual
    <2>3. QED  BY <2>1, <2>2
<1>4. Stands(body', handled', sent', 0, packet_map')
    BY <1>1, <1>2, <1>3, SoFarNone DEF Stands
<1>5. QED  BY <1>1, <1>2, <1>3, <1>4 DEF WireInv

LEMMA WireInvSkips == ASSUME PacketsConstants, Skips, WireInv  PROVE WireInv'
<1>1. posted /\ body # <<>> /\ Header.kind \notin packet_map /\ body' = Drop(AfterHeader, Header.len)
      /\ restricted' = restricted /\ sent' = sent /\ posted' = posted /\ handled' = handled /\ out' = out
    BY DEF Skips
<1>2. sent \in Seq(Sent) /\ \E n \in 0..Len(sent) : Stands(body, handled, sent, n, packet_map)
    BY <1>1 DEF WireInv
<1>3. PICK n \in 0..Len(sent) : Stands(body, handled, sent, n, packet_map)
    BY <1>2
<1> DEFINE p == sent[n + 1]
           rest == ClientBytes(Drop(sent, n + 1))
<1>4. n < Len(sent) /\ p \in Sent /\ ClientData(p) \in Seq(Byte) /\ rest \in Seq(Byte) /\ Begins(body, Id[p.kind], ClientData(p), rest)
    BY <1>1, <1>2, <1>3, AtPacket DEF Stands
<1>5. n \in Nat /\ Len(sent) \in Nat
    BY <1>2, LenProperties
<1> HIDE DEF p, rest
<1>6. Header.kind = p.kind /\ Drop(AfterHeader, Header.len) = rest
    BY <1>4, HeaderIs
<1>7. SoFar(sent, n + 1, packet_map) = SoFar(sent, n, packet_map)
    BY <1>1, <1>2, <1>4, <1>5, <1>6, SoFarMore DEF p
<1>8. packet_map' = packet_map
    BY <1>1 DEF packet_map
<1>9. Stands(body', handled', sent', n + 1, packet_map')
    BY <1>1, <1>3, <1>6, <1>7, <1>8 DEF Stands, rest
<1>10. n + 1 \in 0..Len(sent')
    BY <1>1, <1>4, <1>5
<1>11. QED  BY <1>1, <1>2, <1>9, <1>10 DEF WireInv

LEMMA WireInvHandles == ASSUME PacketsConstants, Handles, WireInv  PROVE WireInv'
<1> DEFINE read == HandlerReads(Header.kind, Header.len, AfterHeader)
<1>1. posted /\ body # <<>> /\ Header.kind \in packet_map /\ body' = read.rest
      /\ handled' = Append(handled, [kind |-> Header.kind, val |-> read.val])
      /\ out' \in Enqueued(Header.kind, read.val, SubSeq(AfterHeader, 1, Header.len))
      /\ restricted' = restricted /\ sent' = sent /\ posted' = posted
    BY DEF Handles
<1> HIDE DEF read
<1>2. sent \in Seq(Sent) /\ \E n \in 0..Len(sent) : Stands(body, handled, sent, n, packet_map)
    BY <1>1 DEF WireInv
<1>3. PICK n \in 0..Len(sent) : Stands(body, handled, sent, n, packet_map)
    BY <1>2
<1> DEFINE p == sent[n + 1]
           rest == ClientBytes(Drop(sent, n + 1))
           e == [kind |-> p.kind, val |-> Meant(p)]
<1>4. n < Len(sent) /\ p \in Sent /\ ClientData(p) \in Seq(Byte) /\ rest \in Seq(Byte) /\ Begins(body, Id[p.kind], ClientData(p), rest)
    BY <1>1, <1>2, <1>3, AtPacket DEF Stands
<1>5. n \in Nat /\ Len(sent) \in Nat
    BY <1>2, LenProperties
<1> HIDE DEF p, rest
<1>6. Header.kind = p.kind /\ SubSeq(AfterHeader, 1, Header.len) = ClientData(p) /\ read = Reading(Meant(p), rest)
    BY <1>4, HeaderIs DEF read
<1>7. read.val = Meant(p) /\ read.rest = rest
    BY <1>6 DEF Reading
<1>8. handled' = Append(handled, e)
    BY <1>1, <1>6, <1>7
<1>9. SoFar(sent, n + 1, packet_map) = Append(SoFar(sent, n, packet_map), e)
    BY <1>1, <1>2, <1>4, <1>5, <1>6, SoFarMore DEF p
<1>10. packet_map' = packet_map
    BY <1>1 DEF packet_map
<1>11. Stands(body', handled', sent', n + 1, packet_map')
    BY <1>1, <1>3, <1>7, <1>8, <1>9, <1>10 DEF Stands, rest
<1>12. n + 1 \in 0..Len(sent')
    BY <1>1, <1>4, <1>5
<1>13. Last(handled').kind = p.kind
    <2> DEFINE S == {[kind |-> r.kind, val |-> Meant(r)] : r \in Sent}
    <2>1. handled = SoFar(sent, n, packet_map)
        BY <1>3 DEF Stands
    <2>2. handled \in Seq(S)
        BY <1>2, <1>4, <1>5, <2>1, SoFarSeq
    <2>3. e \in S
        BY <1>4
    <2>4. e.kind = p.kind
        OBVIOUS
    <2> HIDE DEF S, e
    <2>5. QED  BY <1>8, <2>2, <2>3, <2>4, LastAppended
<1>14. p \in ToSet(sent)
    BY <1>4, <1>5, <1>2, LenProperties DEF p, ToSet
<1>15. out' \in Enqueued(p.kind, Meant(p), ClientData(p))
    BY <1>1, <1>6, <1>7
<1>16. out' # <<>> => Tells(out', p.kind, ToSet(sent))
    BY <1>4, <1>14, <1>15, HandledTold
<1>17. QED  BY <1>1, <1>2, <1>11, <1>12, <1>13, <1>16 DEF WireInv

LEMMA WireInvResponds == ASSUME Responds, WireInv  PROVE WireInv'
<1>1. posted' = FALSE /\ sent' = <<>> /\ handled' = <<>> /\ out' = <<>> /\ body' = <<>>
    BY DEF Responds
<1>2. QED  BY <1>1, NoneSent DEF WireInv

LEMMA WireInvNext == ASSUME PacketsConstants, WireInv, PacketsNext  PROVE WireInv'
BY WireInvSends, WireInvPosts, WireInvSkips, WireInvHandles, WireInvResponds DEF PacketsNext

LEMMA WireInvStutters == ASSUME WireInv, UNCHANGED wvars  PROVE WireInv'
BY DEF WireInv, wvars, packet_map

\* Of every client whose values have room in their fields: whatever is in a
\* request is read as it was meant, and what is written of it is read as what it
\* is about (packets.py:294-820, cho.py:966, 1548).
THEOREM PacketsAreRead == PacketsSpec => [](ReadsWhatIsMeant /\ TellsWhatIsMeant)
<1>1. PacketsInit => WireInv
    BY WireInvInit
<1>2. WireInv /\ [PacketsNext]_wvars => WireInv'
    BY WireAssumption, WireInvNext, WireInvStutters
<1>3. QED  BY <1>1, <1>2, WireInvReads, PTL DEF PacketsSpec

=============================================================================
