---------------------------- MODULE AssemblyProofs ----------------------------
(***************************************************************************)
(* Proofs about the codec of an assembly, whatever its layout: a value that *)
(* is written into a field is read from it, in either order of the bytes,  *)
(* and no other field reads differently.                                   *)
(***************************************************************************)
EXTENDS AssemblyV1, SequenceTheorems, WellFoundedInduction, TLAPS

----------------------------------------------------------------------------
(* Numbers, and folds over the first of them.                              *)

\* The bounds of a byte, and of an integer of 32 bits.
LEMMA ByteRange == \A b : b \in Byte <=> b \in Int /\ 0 <= b /\ b <= 255
PROOF
<1>1. PICK top \in Int : top = 255
  OBVIOUS
<1>2. \A b : b \in 0 .. top <=> b \in Int /\ 0 <= b /\ b <= top
  BY <1>1
<1>3. QED
  BY <1>1, <1>2, SMT DEF Byte

\* The highest byte of an integer of 32 bits, with its sign.
LEMMA IntRange ==
  /\ MinInt \in Int /\ MaxInt \in Int
  /\ \A n \in MinInt .. MaxInt : n \in Int /\ ((n \div 256) \div 256) \div 256 >= -128
         /\ ((n \div 256) \div 256) \div 256 <= 127
PROOF
<1>1. MinInt \in Int /\ MaxInt \in Int
  BY SMT DEF MinInt, MaxInt
<1>2. \A n \in MinInt .. MaxInt : n \in Int /\ MinInt <= n /\ n <= MaxInt
  BY <1>1
<1>3. ASSUME NEW n \in Int, MinInt <= n, n <= MaxInt 
   PROVE  ((n \div 256) \div 256) \div 256 >= -128 /\ ((n \div 256) \div 256) \div 256 <= 127
  <2>1. -128 * 16777216 <= n /\ n < 128 * 16777216
    BY <1>3, SMT DEF MinInt, MaxInt
  <2>2. PICK a, b, c \in Int : a = n \div 256 /\ b = a \div 256 /\ c = b \div 256
    BY SMT
  <2>3. 256 * a <= n /\ n < 256 * (a + 1) /\ 256 * b <= a /\ a < 256 * (b + 1)
        /\ 256 * c <= b /\ b < 256 * (c + 1)
    BY <2>2, SMT
  <2>4. c >= -128 /\ c <= 127
    BY <2>1, <2>3, SMT
  <2>5. QED
    BY <2>2, <2>4, SMT
<1>4. QED
  BY <1>2, <1>1, <1>3, SMT

\* Induction over the natural numbers, for a set that holds them.
LEMMA NatSetInduction ==
  ASSUME NEW S, 0 \in S, \A n \in Nat : n \in S => n + 1 \in S
  PROVE  Nat \subseteq S
PROOF
<1> DEFINE R == {ss \in Nat \X Nat : ss[1] < ss[2]}
<1>1. IsWellFoundedOn(R, Nat)
  <2>1. R = OpToRel(<, Nat)
    BY Zenon DEF OpToRel
  <2>2. QED
    BY <2>1, NatLessThanWellFounded, Zenon
<1>2. SUFFICES ASSUME Nat \ S # {} PROVE FALSE
  OBVIOUS
<1>3. PICK x \in Nat \ S : \A y \in Nat \ S : ~ (<<y, x>> \in R)
  <2> HIDE DEF R
  <2>1. Nat \ S \subseteq Nat
    OBVIOUS
  <2>2. QED
    BY <1>1, <1>2, <2>1, WFMin, Zenon
<1>4. x # 0 /\ x - 1 \in Nat /\ x - 1 < x
  OBVIOUS
<1>5. x - 1 \notin S
  OBVIOUS
<1>6. <<x - 1, x>> \in R
  BY <1>4
<1>7. QED
  BY <1>3, <1>4, <1>5, <1>6

\* The largest of the first numbers.
LEMMA LargestOfInterval ==
  ASSUME NEW n \in Nat, n > 0
  PROVE  Max(1 .. n) = n
PROOF
  BY DEF Max

\* A nonempty set of the first n numbers has a largest one.
LEMMA LargestIsOneOf ==
  ASSUME NEW n \in Nat, NEW s \in SUBSET (1 .. n), s # {}
  PROVE  Max(s) \in s /\ \A y \in s : Max(s) >= y
PROOF
<1> DEFINE P(m) == \A t \in SUBSET (1 .. m) : t # {} => \E x \in t : \A y \in t : x >= y
           S == {m \in Nat : P(m)}
<1>1. P(0)
  <2>1. 1 .. 0 = {}
    OBVIOUS
  <2>2. QED
    BY <2>1, Zenon
<1>2. ASSUME NEW m \in Nat, P(m) PROVE P(m + 1)
  <2>1. ASSUME NEW t \in SUBSET (1 .. m + 1), t # {}
        PROVE  \E x \in t : \A y \in t : x >= y
    <3>1. CASE m + 1 \in t
      BY <3>1
    <3>2. CASE m + 1 \notin t
      <4>1. t \in SUBSET (1 .. m)
        BY <3>2
      <4>2. QED
        BY <1>2, <2>1, <4>1
    <3>3. QED
      BY <3>1, <3>2
  <2>2. QED
    BY <2>1
<1>3. Nat \subseteq S
  <2> HIDE DEF P
  <2>1. 0 \in S /\ \A m \in Nat : m \in S => m + 1 \in S
    BY <1>1, <1>2
  <2> HIDE DEF S
  <2>2. QED
    BY <2>1, NatSetInduction, Zenon
<1>4. \E x \in s : \A y \in s : x >= y
  BY <1>3
<1>5. QED
  BY <1>4, Zenon DEF Max

\* The table of a fold: for every set of the first n numbers, what comes out when
\* the steps of these numbers are made in their order.
Table(f, n, base, F) ==
  f = [s \in SUBSET (1 .. n) |->
         IF s = {} THEN base ELSE F[Max(s)][f[s \ {Max(s)}]]]

\* It exists, by induction over the number of steps: a table for one more number
\* extends the one before.
LEMMA TableExists ==
  ASSUME NEW D, NEW base \in D, NEW n \in Nat, NEW F \in [1 .. n -> [D -> D]]
  PROVE  \E f \in [SUBSET (1 .. n) -> D] : Table(f, n, base, F)
PROOF
<1> DEFINE P(m) == m <= n => \E f \in [SUBSET (1 .. m) -> D] : Table(f, m, base, F)
           S == {m \in Nat : P(m)}
<1>1. P(0)
  <2> DEFINE f == [s \in SUBSET (1 .. 0) |-> base]
  <2>1. f \in [SUBSET (1 .. 0) -> D]
    OBVIOUS
  <2>2. Table(f, 0, base, F)
    BY DEF Table
  <2> HIDE DEF f
  <2>3. QED
    BY <2>1, <2>2
<1>2. ASSUME NEW m \in Nat, P(m) PROVE P(m + 1)
  <2>1. SUFFICES ASSUME m + 1 <= n
                 PROVE  \E f \in [SUBSET (1 .. m + 1) -> D] : Table(f, m + 1, base, F)
    OBVIOUS
  <2>2. PICK g \in [SUBSET (1 .. m) -> D] : Table(g, m, base, F)
    <3>1. m <= n
      BY <2>1
    <3>2. QED
      BY <1>2, <3>1, Zenon
  <2> DEFINE f == [s \in SUBSET (1 .. m + 1) |->
                     IF m + 1 \in s THEN F[m + 1][g[s \ {m + 1}]] ELSE g[s]]
  <2>3. ASSUME NEW s \in SUBSET (1 .. m + 1), m + 1 \in s
        PROVE  /\ Max(s) = m + 1 /\ s \ {m + 1} \in SUBSET (1 .. m)
               /\ s \ {m + 1} \in SUBSET (1 .. m + 1) /\ m + 1 \notin s \ {m + 1}
    <3>1. s # {} /\ m + 1 \in Nat
      BY <2>3
    <3>2. Max(s) \in s /\ \A y \in s : Max(s) >= y
      BY <3>1, LargestIsOneOf, Zenon
    <3>3. ASSUME NEW x \in s, \A y \in s : x >= y PROVE x = m + 1
      BY <2>3, <3>3
    <3>4. s \ {m + 1} \in SUBSET (1 .. m)
      OBVIOUS
    <3>5. QED
      BY <3>2, <3>3, <3>4
  <2>4. ASSUME NEW s \in SUBSET (1 .. m + 1), m + 1 \notin s
        PROVE  /\ s \in SUBSET (1 .. m)
               /\ s # {} => /\ Max(s) \in s /\ s \ {Max(s)} \in SUBSET (1 .. m)
                            /\ s \ {Max(s)} \in SUBSET (1 .. m + 1) /\ m + 1 \notin s \ {Max(s)}
    <3>1. s \in SUBSET (1 .. m)
      BY <2>4
    <3>2. s # {} => Max(s) \in s
      BY <3>1, LargestIsOneOf, Zenon
    <3>3. ASSUME NEW x \in s
          PROVE  /\ s \ {x} \in SUBSET (1 .. m) /\ s \ {x} \in SUBSET (1 .. m + 1)
                 /\ m + 1 \notin s \ {x}
      BY <3>1
    <3>4. QED
      BY <3>1, <3>2, <3>3
  <2>5. m + 1 \in 1 .. n /\ F[m + 1] \in [D -> D]
    BY <2>1
  <2>6. ASSUME NEW s \in SUBSET (1 .. m + 1) PROVE f[s] \in D
    BY <2>3, <2>4, <2>5
  <2>7. f \in [SUBSET (1 .. m + 1) -> D]
    BY <2>6
  <2>8. ASSUME NEW s \in SUBSET (1 .. m + 1)
        PROVE  f[s] = IF s = {} THEN base ELSE F[Max(s)][f[s \ {Max(s)}]]
    <3>1. CASE m + 1 \in s
      <4>1. f[s] = F[m + 1][g[s \ {m + 1}]] /\ f[s \ {m + 1}] = g[s \ {m + 1}]
        BY <2>3, <3>1
      <4>2. Max(s) = m + 1 /\ s # {}
        BY <2>3, <3>1
      <4> HIDE DEF f
      <4>3. QED
        BY <4>1, <4>2
    <3>2. CASE m + 1 \notin s
      <4>1. s \in SUBSET (1 .. m) /\ f[s] = g[s]
        BY <2>4, <3>2
      <4>2. g[s] = IF s = {} THEN base ELSE F[Max(s)][g[s \ {Max(s)}]]
        <5>1. g = [t \in SUBSET (1 .. m) |->
                     IF t = {} THEN base ELSE F[Max(t)][g[t \ {Max(t)}]]]
          BY <2>2 DEF Table
        <5> HIDE DEF f
        <5>2. QED
          BY <4>1, <5>1, Zenon
      <4>3. s # {} => f[s \ {Max(s)}] = g[s \ {Max(s)}]
        BY <2>4, <3>2
      <4> HIDE DEF f
      <4>4. QED
        BY <4>1, <4>2, <4>3
    <3>3. QED
      BY <3>1, <3>2
  <2>9. Table(f, m + 1, base, F)
    <3>1. f = [s \in SUBSET (1 .. m + 1) |-> f[s]]
      BY <2>7
    <3> HIDE DEF f
    <3>2. QED
      BY <2>8, <3>1 DEF Table
  <2> HIDE DEF f
  <2>10. QED
    BY <2>7, <2>9
<1>3. Nat \subseteq S
  <2> HIDE DEF P
  <2>1. 0 \in S /\ \A m \in Nat : m \in S => m + 1 \in S
    BY <1>1, <1>2
  <2> HIDE DEF S
  <2>2. QED
    BY <2>1, NatSetInduction, Zenon
<1>4. P(n)
  <2> HIDE DEF P
  <2>1. QED
    BY <1>3
<1>5. n <= n
  OBVIOUS
<1>6. QED
  BY <1>4, <1>5, Zenon

\* The steps of a fold, from its table.
LEMMA TableSteps ==
  ASSUME NEW D, NEW base \in D, NEW n \in Nat, NEW F \in [1 .. n -> [D -> D]],
         NEW f, Table(f, n, base, F)
  PROVE  /\ f[1 .. 0] = base
         /\ \A k \in 1 .. n : f[1 .. k] = F[k][f[1 .. k - 1]]
PROOF
<1>1. \A s \in SUBSET (1 .. n) : f[s] = IF s = {} THEN base ELSE F[Max(s)][f[s \ {Max(s)}]]
  <2>1. f = [s \in SUBSET (1 .. n) |-> IF s = {} THEN base ELSE F[Max(s)][f[s \ {Max(s)}]]]
    BY DEF Table
  <2>2. QED
    BY <2>1, Zenon
<1>2. 1 .. 0 = {} /\ {} \in SUBSET (1 .. n)
  OBVIOUS
<1>3. ASSUME NEW k \in 1 .. n PROVE f[1 .. k] = F[k][f[1 .. k - 1]]
  <2>1. 1 .. k \in SUBSET (1 .. n) /\ 1 .. k # {} /\ (1 .. k) \ {k} = 1 .. k - 1
    OBVIOUS
  <2>2. Max(1 .. k) = k
    BY LargestOfInterval
  <2>3. QED
    BY <1>1, <2>1, <2>2, Zenon
<1>4. QED
  BY <1>1, <1>2, <1>3, Zenon

----------------------------------------------------------------------------
(* The bits of a byte.                                                     *)

\* The weights of the bits of a byte.
PowersOfTwo == [p \in 0 .. 7 |-> CASE p = 0 -> 1 [] p = 1 -> 2 [] p = 2 -> 4 [] p = 3 -> 8
                          [] p = 4 -> 16 [] p = 5 -> 32 [] p = 6 -> 64 [] p = 7 -> 128]

\* They are the powers of two.
LEMMA PowerOfTwo ==
  ASSUME NEW p \in 0 .. 7
  PROVE  2 ^ p = PowersOfTwo[p]
PROOF
<1>1. 2^0 = 1 /\ 2^1 = 2 /\ 2^2 = 4 /\ 2^3 = 8 /\ 2^4 = 16 /\ 2^5 = 32 /\ 2^6 = 64 /\ 2^7 = 128
  OBVIOUS
<1>2. p = 0 \/ p = 1 \/ p = 2 \/ p = 3 \/ p = 4 \/ p = 5 \/ p = 6 \/ p = 7
  OBVIOUS
<1>3. QED
  BY <1>1, <1>2 DEF PowersOfTwo

\* And positive.
LEMMA PowerPositive ==
  ASSUME NEW p \in 0 .. 7
  PROVE  2 ^ p \in Nat /\ 2 ^ p > 0
PROOF
<1>1. p = 0 \/ p = 1 \/ p = 2 \/ p = 3 \/ p = 4 \/ p = 5 \/ p = 6 \/ p = 7
  OBVIOUS
<1>2. 2 ^ p = PowersOfTwo[p]
  BY PowerOfTwo
<1>3. PowersOfTwo[p] \in {1, 2, 4, 8, 16, 32, 64, 128}
  BY <1>1 DEF PowersOfTwo
<1>4. PICK power \in {1, 2, 4, 8, 16, 32, 64, 128} : power = PowersOfTwo[p]
  BY <1>3
<1>5. QED
  BY <1>2, <1>4

\* The number with these bits.
Number8(d) == d[0] + 2 * d[1] + 4 * d[2] + 8 * d[3] + 16 * d[4] + 32 * d[5] + 64 * d[6] + 128 * d[7]

\* Every byte is such a number.
LEMMA BitsOfByte ==
  ASSUME NEW b \in Byte
  PROVE  \E d \in [0 .. 7 -> {0, 1}] : b = Number8(d)
PROOF
<1> DEFINE d == [p \in 0 .. 7 |-> (b \div PowersOfTwo[p]) % 2]
<1>1. b \in Int /\ 0 <= b /\ b <= 255
  BY ByteRange
<1>2. d \in [0 .. 7 -> {0, 1}]
  BY <1>1 DEF PowersOfTwo
<1>3. /\ d[0] = b % 2 /\ d[1] = (b \div 2) % 2 /\ d[2] = (b \div 4) % 2 /\ d[3] = (b \div 8) % 2
      /\ d[4] = (b \div 16) % 2 /\ d[5] = (b \div 32) % 2 /\ d[6] = (b \div 64) % 2
      /\ d[7] = (b \div 128) % 2
  BY <1>1 DEF PowersOfTwo
<1>4. b = (b % 2) + 2 * ((b \div 2) % 2) + 4 * ((b \div 4) % 2) + 8 * ((b \div 8) % 2) + 16 * ((b \div 16) % 2)
          + 32 * ((b \div 32) % 2) + 64 * ((b \div 64) % 2) + 128 * ((b \div 128) % 2)
  BY <1>1
<1>5. b = Number8(d)
  <2> HIDE DEF d
  <2>1. QED
    BY <1>3, <1>4 DEF Number8
<1>6. QED
  BY <1>2, <1>5

\* Dividing it down to a bit finds the bit.
LEMMA BitOfNumber ==
  ASSUME NEW d \in [0 .. 7 -> {0, 1}], NEW p \in 0 .. 7
  PROVE  /\ Number8(d) \in Byte
         /\ (Number8(d) \div 2 ^ p) % 2 = d[p]
PROOF
<1>1. PICK a, b, c, e, f, g, h, i \in {0, 1} :
        /\ a = d[0] /\ b = d[1] /\ c = d[2] /\ e = d[3] /\ f = d[4] /\ g = d[5] /\ h = d[6] /\ i = d[7]
  OBVIOUS
<1>2. Number8(d) = a + 2 * b + 4 * c + 8 * e + 16 * f + 32 * g + 64 * h + 128 * i
  BY <1>1 DEF Number8
<1>3. ASSUME NEW n, n = a + 2 * b + 4 * c + 8 * e + 16 * f + 32 * g + 64 * h + 128 * i
      PROVE  /\ n \in Byte
             /\ (n \div 1) % 2 = a /\ (n \div 2) % 2 = b /\ (n \div 4) % 2 = c
             /\ (n \div 8) % 2 = e /\ (n \div 16) % 2 = f /\ (n \div 32) % 2 = g
             /\ (n \div 64) % 2 = h /\ (n \div 128) % 2 = i
  <2>1. n \in Byte
    <3>1. n \in Int /\ 0 <= n /\ n <= 255
      BY <1>3
    <3>2. QED
      BY <3>1, ByteRange
  <2>2. (n \div 1) % 2 = a /\ (n \div 2) % 2 = b /\ (n \div 4) % 2 = c
    BY <1>3
  <2>3. (n \div 8) % 2 = e /\ (n \div 16) % 2 = f /\ (n \div 32) % 2 = g
    BY <1>3
  <2>4. (n \div 64) % 2 = h /\ (n \div 128) % 2 = i
    BY <1>3
  <2>5. QED
    BY <2>1, <2>2, <2>3, <2>4
<1>4. p = 0 \/ p = 1 \/ p = 2 \/ p = 3 \/ p = 4 \/ p = 5 \/ p = 6 \/ p = 7
  OBVIOUS
<1>5. (Number8(d) \div PowersOfTwo[p]) % 2 = d[p] /\ Number8(d) \in Byte
  <2>1. PICK n : n = Number8(d)
    OBVIOUS
  <2>2. /\ n \in Byte
        /\ (n \div 1) % 2 = a /\ (n \div 2) % 2 = b /\ (n \div 4) % 2 = c
        /\ (n \div 8) % 2 = e /\ (n \div 16) % 2 = f /\ (n \div 32) % 2 = g
        /\ (n \div 64) % 2 = h /\ (n \div 128) % 2 = i
    BY <1>2, <1>3, <2>1
  <2>3. (n \div PowersOfTwo[p]) % 2 = d[p]
    BY <1>1, <1>4, <2>2 DEF PowersOfTwo
  <2>4. QED
    BY <2>1, <2>2, <2>3
<1>6. QED
  BY <1>5, PowerOfTwo

\* What SetBit makes of the byte it changes.
WithBit(b, p, value) ==
  b + (IF value THEN 2 ^ p ELSE 0) - (IF (b \div 2 ^ p) % 2 = 1 THEN 2 ^ p ELSE 0)

\* A bit of a byte is set or cleared, the others stay.
LEMMA SetBitOfByte ==
  ASSUME NEW b \in Byte, NEW p \in 0 .. 7, NEW value \in BOOLEAN
  PROVE  /\ WithBit(b, p, value) \in Byte
         /\ ((WithBit(b, p, value) \div 2 ^ p) % 2 = 1) = value
         /\ \A q \in 0 .. 7 : q # p =>
              (WithBit(b, p, value) \div 2 ^ q) % 2 = (b \div 2 ^ q) % 2
PROOF
<1>1. PICK c : c = WithBit(b, p, value)
  OBVIOUS
<1>2. PICK d \in [0 .. 7 -> {0, 1}] : b = Number8(d)
  BY BitsOfByte
<1> DEFINE e == [d EXCEPT ![p] = IF value THEN 1 ELSE 0]
<1>3. e \in [0 .. 7 -> {0, 1}]
  OBVIOUS
<1>4. (b \div 2 ^ p) % 2 = d[p]
  BY <1>2, BitOfNumber
<1>5. c = b + ((IF value THEN 1 ELSE 0) - d[p]) * PowersOfTwo[p]
  <2>1. PICK power \in Nat : power = 2 ^ p /\ power = PowersOfTwo[p]
    <3>1. PowersOfTwo[p] \in Nat
      BY DEF PowersOfTwo
    <3>2. QED
      BY <3>1, PowerOfTwo, Zenon
  <2>2. c = b + (IF value THEN 2 ^ p ELSE 0) - (IF (b \div 2 ^ p) % 2 = 1 THEN 2 ^ p ELSE 0)
    BY <1>1 DEF WithBit
  <2>3. d[p] = 0 \/ d[p] = 1
    OBVIOUS
  <2>4. c = b + (IF value THEN power ELSE 0) - (IF d[p] = 1 THEN power ELSE 0)
    BY <1>4, <2>1, <2>2, Zenon
  <2>5. c = b + ((IF value THEN 1 ELSE 0) - d[p]) * power
    BY <2>3, <2>4
  <2>6. QED
    BY <2>1, <2>5
<1>6. Number8(e) = Number8(d) + ((IF value THEN 1 ELSE 0) - d[p]) * PowersOfTwo[p]
  <2>1. p = 0 \/ p = 1 \/ p = 2 \/ p = 3 \/ p = 4 \/ p = 5 \/ p = 6 \/ p = 7
    OBVIOUS
  <2>2. QED
    BY <2>1 DEF Number8, PowersOfTwo
<1>7. c = Number8(e)
  BY <1>2, <1>5, <1>6
<1>8. e[p] = (IF value THEN 1 ELSE 0) /\ \A q \in 0 .. 7 : q # p => e[q] = d[q]
  OBVIOUS
<1> HIDE DEF e
<1>9. c \in Byte /\ \A q \in 0 .. 7 : (c \div 2 ^ q) % 2 = e[q]
  BY <1>3, <1>7, BitOfNumber
<1>10. \A q \in 0 .. 7 : (b \div 2 ^ q) % 2 = d[q]
  BY <1>2, BitOfNumber
<1>11. (c \div 2 ^ p) % 2 = IF value THEN 1 ELSE 0
  BY <1>8, <1>9, Zenon
<1>12. ASSUME NEW q \in 0 .. 7, q # p PROVE (c \div 2 ^ q) % 2 = (b \div 2 ^ q) % 2
  <2>1. e[q] = d[q]
    BY <1>8, <1>12
  <2>2. (c \div 2 ^ q) % 2 = e[q] /\ (b \div 2 ^ q) % 2 = d[q]
    BY <1>9, <1>10, Zenon
  <2>3. QED
    BY <2>1, <2>2, Zenon
<1>13. c \in Byte /\ ((c \div 2 ^ p) % 2 = 1) = value
  BY <1>9, <1>11
<1>14. QED
  BY <1>1, <1>12, <1>13, Zenon

----------------------------------------------------------------------------
(* The bytes of an element.                                                *)

\* The sum that FromLowFirst makes of all bytes but the highest one.
LowBytes(bytes) ==
  FoldLeft(LAMBDA total, k : total + bytes[k] * 256 ^ (k - 1), 0,
           [k \in 1 .. Len(bytes) - 1 |-> k])

\* It is theirs in base 256, for the three sizes there are.
LEMMA LowBytesAre ==
  ASSUME NEW n \in 0 .. 3, NEW bytes \in [1 .. n + 1 -> Byte]
  PROVE  /\ n = 0 => LowBytes(bytes) = 0
         /\ n = 1 => LowBytes(bytes) = bytes[1]
         /\ n = 3 => LowBytes(bytes) = bytes[1] + 256 * (bytes[2] + 256 * bytes[3])
PROOF
<1> DEFINE weight(k) == bytes[k] * 256 ^ (k - 1)
           step(f) == [s \in SUBSET (1 .. n) |->
                         IF s = {} THEN 0 ELSE f[s \ {Max(s)}] + weight(Max(s))]
           iter == CHOOSE f : f = step(f)
           F == [k \in 1 .. n |-> [total \in Int |-> total + weight(k)]]
<1>1. Len(bytes) = n + 1 /\ bytes \in Seq(Byte)
  OBVIOUS
<1>2. LowBytes(bytes) = iter[1 .. n]
  <2> DEFINE seq == [k \in 1 .. n |-> k]
             raw(f) == [s \in SUBSET (1 .. n) |->
                         IF s = {} THEN 0
                         ELSE f[s \ {Max(s)}] + bytes[seq[Max(s)]] * 256 ^ (seq[Max(s)] - 1)]
  <2>1. Len(bytes) - 1 = n
    BY <1>1
  <2>2. LowBytes(bytes) = (CHOOSE f : f = raw(f))[1 .. n]
    <3>1. DOMAIN seq = 1 .. n
      OBVIOUS
    <3>2. LowBytes(bytes) = FoldLeft(LAMBDA total, k : total + bytes[k] * 256 ^ (k - 1), 0, seq)
      BY <2>1 DEF LowBytes
    <3> HIDE DEF seq
    <3>3. QED
      BY <3>1, <3>2 DEF FoldLeft, MapThenFoldSet
  <2>3. ASSUME NEW f PROVE raw(f) = step(f)
    <3>1. ASSUME NEW s \in SUBSET (1 .. n), s # {} PROVE seq[Max(s)] = Max(s)
      <4>1. Max(s) \in s
        <5>1. n \in Nat
          OBVIOUS
        <5>2. QED
          BY <3>1, <5>1, LargestIsOneOf, Zenon
      <4>2. QED
        BY <4>1
    <3> HIDE DEF seq
    <3>2. QED
      BY <3>1
  <2>4. QED
    <3> HIDE DEF raw, step
    <3>1. QED
      BY <2>2, <2>3
<1>3. \A k \in 1 .. n + 1 : bytes[k] \in Int
  <2>1. \A k \in 1 .. n + 1 : bytes[k] \in Byte
    OBVIOUS
  <2>2. QED
    BY <2>1, ByteRange
<1>4. ASSUME NEW k \in 1 .. n
      PROVE  /\ weight(k) \in Int
             /\ weight(k) = IF k = 1 THEN bytes[1] ELSE IF k = 2 THEN 256 * bytes[2]
                            ELSE 256 * 256 * bytes[3]
  <2>1. k = 1 \/ k = 2 \/ k = 3
    OBVIOUS
  <2>2. 256 ^ 0 = 1 /\ 256 ^ 1 = 256 /\ 256 ^ 2 = 256 * 256
    OBVIOUS
  <2>3. bytes[k] \in Int
    BY <1>3
  <2> HIDE DEF step, iter, F
  <2>4. CASE k = 1
    BY <2>2, <2>3, <2>4
  <2>5. CASE k = 2
    BY <2>2, <2>3, <2>5
  <2>6. CASE k = 3
    BY <2>2, <2>3, <2>6
  <2>7. QED
    BY <2>1, <2>4, <2>5, <2>6
<1>5. F \in [1 .. n -> [Int -> Int]]
  <2> HIDE DEF weight
  <2>1. QED
    BY <1>4
<1>6. PICK f \in [SUBSET (1 .. n) -> Int] : Table(f, n, 0, F)
  <2> HIDE DEF F
  <2>1. 0 \in Int /\ n \in Nat
    OBVIOUS
  <2>2. QED
    BY <1>5, <2>1, TableExists, Zenon
<1>7. f = step(f)
  <2>1. ASSUME NEW s \in SUBSET (1 .. n), s # {}
        PROVE  F[Max(s)][f[s \ {Max(s)}]] = f[s \ {Max(s)}] + weight(Max(s))
    <3>1. Max(s) \in s
      <4>1. n \in Nat
        OBVIOUS
      <4>2. QED
        BY <2>1, <4>1, LargestIsOneOf, Zenon
    <3>2. f[s \ {Max(s)}] \in Int /\ Max(s) \in 1 .. n
      BY <3>1
    <3> HIDE DEF weight
    <3>3. QED
      BY <3>2
  <2> HIDE DEF weight, F
  <2>2. QED
    BY <1>6, <2>1 DEF Table
<1>8. iter = step(iter)
  <2> HIDE DEF step
  <2>1. QED
    BY <1>7, Zenon
<1>9. iter[1 .. 0] = 0 /\ \A k \in 1 .. n : iter[1 .. k] = iter[1 .. k - 1] + weight(k)
  <2> HIDE DEF iter, weight
  <2>1. \A s \in SUBSET (1 .. n) :
          iter[s] = IF s = {} THEN 0 ELSE iter[s \ {Max(s)}] + weight(Max(s))
    BY <1>8, Zenon
  <2>2. ASSUME NEW k \in 1 .. n
        PROVE  /\ 1 .. k \in SUBSET (1 .. n) /\ 1 .. k # {} /\ (1 .. k) \ {k} = 1 .. k - 1
               /\ Max(1 .. k) = k
    <3>1. k \in Nat /\ k > 0
      OBVIOUS
    <3>2. Max(1 .. k) = k
      BY <3>1, LargestOfInterval, Zenon
    <3>3. 1 .. k \in SUBSET (1 .. n) /\ 1 .. k # {} /\ (1 .. k) \ {k} = 1 .. k - 1
      OBVIOUS
    <3>4. QED
      BY <3>2, <3>3, Zenon
  <2>3. 1 .. 0 = {} /\ {} \in SUBSET (1 .. n)
    OBVIOUS
  <2>4. iter[1 .. 0] = 0
    BY <2>1, <2>3, Zenon
  <2>5. \A k \in 1 .. n : iter[1 .. k] = iter[1 .. k - 1] + weight(k)
    BY <2>1, <2>2, Zenon
  <2>6. QED
    BY <2>4, <2>5
<1> HIDE DEF iter, weight
<1>10. n >= 1 => 1 \in 1 .. n /\ 1 - 1 = 0
  OBVIOUS
<1>11. n >= 1 => iter[1 .. 1] = bytes[1]
  <2>1. n >= 1 => iter[1 .. 1] = iter[1 .. 0] + weight(1)
    BY <1>9, <1>10
  <2>2. QED
    BY <1>4, <1>9, <1>10, <2>1
<1>12. n >= 3 => iter[1 .. 2] = bytes[1] + 256 * bytes[2]
  <2>1. n >= 3 => iter[1 .. 2] = iter[1 .. 1] + weight(2)
    <3>1. n >= 3 => 2 \in 1 .. n /\ 2 - 1 = 1
      OBVIOUS
    <3>2. QED
      BY <1>9, <3>1
  <2>2. QED
    BY <1>4, <1>11, <2>1
<1>13. n >= 3 => iter[1 .. 3] = bytes[1] + 256 * (bytes[2] + 256 * bytes[3])
  <2>1. n >= 3 => iter[1 .. 3] = iter[1 .. 2] + weight(3)
    <3>1. n >= 3 => 3 \in 1 .. n /\ 3 - 1 = 2
      OBVIOUS
    <3>2. QED
      BY <1>9, <3>1
  <2>2. n >= 3 => weight(3) = 256 * 256 * bytes[3]
    BY <1>4
  <2>3. n >= 3 => bytes[1] \in Int /\ bytes[2] \in Int /\ bytes[3] \in Int
    BY <1>3
  <2>4. QED
    BY <1>12, <2>1, <2>2, <2>3
<1>14. n = 0 => iter[1 .. n] = 0
  BY <1>9
<1>15. n = 1 => iter[1 .. n] = bytes[1]
  BY <1>11
<1>16. n = 3 => iter[1 .. n] = bytes[1] + 256 * (bytes[2] + 256 * bytes[3])
  BY <1>13
<1>17. QED
  BY <1>2, <1>14, <1>15, <1>16, Zenon

\* The powers of 256 it counts with.
LEMMA PowersOf256 ==
  256 ^ 0 = 1 /\ 256 ^ 1 = 256 /\ 256 ^ 2 = 256 * 256 /\ 256 ^ 3 = 256 * 256 * 256
PROOF
  BY SMT

\* An integer that fits a format of one byte is in the range of one byte.
LEMMA FitsOneByte ==
  ASSUME NEW signed \in BOOLEAN, NEW n \in Int, NEW size \in {1},
         FitsFormat([size |-> size, signed |-> signed, float |-> FALSE], n)
  PROVE  (signed => -128 <= n /\ n <= 127) /\ (~signed => 0 <= n /\ n <= 255)
PROOF
<1>1. 256 ^ size = 256 /\ 256 \div 2 = 128 /\ size < 4
  BY PowersOf256
<1>2. /\ signed => n \in -((256 ^ size) \div 2) .. (256 ^ size) \div 2 - 1
      /\ ~signed => n \in 0 .. 256 ^ size - 1
  BY <1>1 DEF FitsFormat
<1>3. QED
  BY <1>1, <1>2

\* An integer that fits a format of two bytes is in the range of two bytes.
LEMMA FitsTwoBytes ==
  ASSUME NEW signed \in BOOLEAN, NEW n \in Int, NEW size \in {2},
         FitsFormat([size |-> size, signed |-> signed, float |-> FALSE], n)
  PROVE  /\ signed => -(128 * 256) <= n /\ n <= 128 * 256 - 1
         /\ ~signed => 0 <= n /\ n <= 256 * 256 - 1
PROOF
<1>1. 256 ^ size = 256 * 256 /\ (256 * 256) \div 2 = 128 * 256 /\ size < 4
  BY PowersOf256
<1>2. /\ signed => n \in -((256 ^ size) \div 2) .. (256 ^ size) \div 2 - 1
      /\ ~signed => n \in 0 .. 256 ^ size - 1
  BY <1>1 DEF FitsFormat
<1>3. QED
  BY <1>1, <1>2

\* An integer that fits goes into its bytes and back.
LEMMA IntegerSurvives ==
  ASSUME NEW size \in {1, 2, 4}, NEW signed \in BOOLEAN, NEW n \in MinInt .. MaxInt,
         FitsFormat([size |-> size, signed |-> signed, float |-> FALSE], n),
         size = 4 => signed
  PROVE  /\ LowFirst(n, size) \in [1 .. size -> Byte]
         /\ FromLowFirst(LowFirst(n, size), signed) = n
PROOF
<1>1. n \in Int
  BY IntRange
<1>2. PICK q1 \in Int, q2 \in Int, q3 \in Int :
        q1 = n \div 256 /\ q2 = q1 \div 256 /\ q3 = q2 \div 256
  BY <1>1
<1>3. /\ n = (n % 256) + 256 * q1 /\ q1 = (q1 % 256) + 256 * q2 /\ q2 = (q2 % 256) + 256 * q3
      /\ n % 256 \in Byte /\ q1 % 256 \in Byte /\ q2 % 256 \in Byte /\ q3 % 256 \in Byte
      /\ -128 <= q3 /\ q3 <= 127
  <2>1. n = (n % 256) + 256 * q1 /\ q1 = (q1 % 256) + 256 * q2 /\ q2 = (q2 % 256) + 256 * q3
    BY <1>1, <1>2
  <2>2. ASSUME NEW q \in Int PROVE q % 256 \in Byte
    <3>1. q % 256 \in Int /\ 0 <= q % 256 /\ q % 256 <= 255
      OBVIOUS
    <3>2. QED
      BY <3>1, ByteRange
  <2>3. -128 <= q3 /\ q3 <= 127
    <3>1. q3 = ((n \div 256) \div 256) \div 256
      BY <1>2
    <3>2. QED
      BY <3>1, IntRange
  <2>4. QED
    BY <1>1, <2>1, <2>2, <2>3
<1> DEFINE b == LowFirst(n, size)
<1>4. b = [k \in 1 .. size |-> (n \div 256 ^ (k - 1)) % 256]
  BY DEF LowFirst
<1>5. /\ n \div 256 ^ 0 = n /\ n \div 256 ^ 1 = q1
      /\ n \div 256 ^ 2 = q2 /\ n \div 256 ^ 3 = q3
  <2>1. n \div 1 = n
    BY <1>1
  <2>2. n \div (256 * 256) = (n \div 256) \div 256
    BY <1>1
  <2>3. n \div (256 * 256 * 256) = ((n \div 256) \div 256) \div 256
    BY <1>1
  <2>4. n \div 256 ^ 0 = n
    BY <2>1, PowersOf256
  <2>5. n \div 256 ^ 1 = q1
    BY <1>2, PowersOf256
  <2>6. n \div 256 ^ 2 = q2
    BY <1>2, <2>2, PowersOf256
  <2>7. n \div 256 ^ 3 = q3
    BY <1>2, <2>3, PowersOf256
  <2>8. QED
    BY <2>4, <2>5, <2>6, <2>7
<1> HIDE DEF b
<1>6. /\ b[1] = n % 256
      /\ size >= 2 => b[2] = q1 % 256
      /\ size >= 3 => b[3] = q2 % 256 /\ b[4] = q3 % 256
  <2>1. \A k \in 1 .. size : b[k] = (n \div 256 ^ (k - 1)) % 256
    BY <1>4
  <2>2. b[1] = (n \div 256 ^ 0) % 256
    <3>1. 1 \in 1 .. size /\ 1 - 1 = 0
      OBVIOUS
    <3>2. QED
      BY <2>1, <3>1
  <2>3. size >= 2 => b[2] = (n \div 256 ^ 1) % 256
    <3>1. size >= 2 => 2 \in 1 .. size /\ 2 - 1 = 1
      OBVIOUS
    <3>2. QED
      BY <2>1, <3>1
  <2>4. size >= 3 => b[3] = (n \div 256 ^ 2) % 256
    <3>1. size >= 3 => 3 \in 1 .. size /\ 3 - 1 = 2
      OBVIOUS
    <3>2. QED
      BY <2>1, <3>1
  <2>5. size >= 3 => b[4] = (n \div 256 ^ 3) % 256
    <3>1. size >= 3 => 4 \in 1 .. size /\ 4 - 1 = 3
      OBVIOUS
    <3>2. QED
      BY <2>1, <3>1
  <2>6. QED
    BY <1>5, <2>2, <2>3, <2>4, <2>5
<1>7. b \in [1 .. size -> Byte]
  <2>1. ASSUME NEW k \in 1 .. size PROVE b[k] \in Byte
    <3>1. k = 1 \/ (k = 2 /\ size >= 2) \/ (k = 3 /\ size >= 3) \/ (k = 4 /\ size >= 3)
      OBVIOUS
    <3>2. QED
      BY <1>3, <1>6, <3>1
  <2>2. b = [k \in 1 .. size |-> b[k]]
    BY <1>4
  <2>3. QED
    BY <2>1, <2>2
<1>8. Len(b) = size
  BY <1>7
<1> DEFINE high == IF signed /\ b[size] >= 128 THEN b[size] - 256 ELSE b[size]
<1>9. FromLowFirst(b, signed) = LowBytes(b) + high * 256 ^ (size - 1)
  BY <1>8 DEF FromLowFirst, LowBytes
<1>10. size - 1 \in 0 .. 3 /\ b \in [1 .. (size - 1) + 1 -> Byte]
  BY <1>7
<1>11. \A k \in 1 .. size : b[k] \in Int /\ 0 <= b[k] /\ b[k] <= 255
  BY <1>7, ByteRange
<1>12. CASE size = 1
  <2>1. LowBytes(b) = 0
    BY <1>10, <1>12, LowBytesAre
  <2>2. (signed => -128 <= n /\ n <= 127) /\ (~signed => 0 <= n /\ n <= 255)
    BY <1>1, <1>12, FitsOneByte
  <2>3. 256 ^ (size - 1) = 1
    BY <1>12, PowersOf256
  <2>4. b[1] = n % 256 /\ b[size] = b[1]
    BY <1>6, <1>12
  <2>5. high = n
    BY <1>1, <2>2, <2>4
  <2> HIDE DEF high
  <2>6. FromLowFirst(b, signed) = n
    BY <1>1, <1>9, <2>1, <2>3, <2>5
  <2>7. QED
    BY <1>7, <2>6 DEF b
<1>13. CASE size = 2
  <2>1. LowBytes(b) = b[1]
    BY <1>10, <1>13, LowBytesAre
  <2>2. /\ signed => -(128 * 256) <= n /\ n <= 128 * 256 - 1
        /\ ~signed => 0 <= n /\ n <= 256 * 256 - 1
    BY <1>1, <1>13, FitsTwoBytes
  <2>3. 256 ^ (size - 1) = 256
    BY <1>13, PowersOf256
  <2>4. b[1] = n % 256 /\ b[2] = q1 % 256 /\ b[size] = b[2]
    BY <1>6, <1>13
  <2>5. high = q1
    <3>1. signed => -128 <= q1 /\ q1 <= 127
      BY <1>1, <1>2, <2>2
    <3>2. ~signed => 0 <= q1 /\ q1 <= 255
      BY <1>1, <1>2, <2>2
    <3>3. QED
      BY <2>4, <3>1, <3>2
  <2> HIDE DEF high
  <2>6. FromLowFirst(b, signed) = n
    <3>1. FromLowFirst(b, signed) = b[1] + q1 * 256
      BY <1>9, <2>1, <2>3, <2>5
    <3>2. QED
      BY <1>1, <1>3, <2>4, <3>1
  <2>7. QED
    BY <1>7, <2>6 DEF b
<1>14. CASE size = 4
  <2>1. LowBytes(b) = b[1] + 256 * (b[2] + 256 * b[3])
    BY <1>10, <1>14, LowBytesAre
  <2>2. 256 ^ (size - 1) = 256 * 256 * 256
    BY <1>14, PowersOf256
  <2>3. b[1] = n % 256 /\ b[2] = q1 % 256 /\ b[3] = q2 % 256 /\ b[4] = q3 % 256 /\ b[size] = b[4]
    BY <1>6, <1>14
  <2>4. signed
    BY <1>14
  <2>5. high = q3
    BY <1>3, <2>3, <2>4
  <2> HIDE DEF high
  <2>6. FromLowFirst(b, signed) = n
    <3>1. FromLowFirst(b, signed) = b[1] + 256 * (b[2] + 256 * b[3]) + q3 * (256 * 256 * 256)
      BY <1>9, <2>1, <2>2, <2>5
    <3>2. PICK a, c, d \in Int : a = b[1] /\ c = b[2] /\ d = b[3]
      BY <1>11, <1>14
    <3>3. n = a + 256 * q1 /\ q1 = c + 256 * q2 /\ q2 = d + 256 * q3
      BY <1>3, <2>3, <3>2
    <3>4. QED
      BY <1>1, <3>1, <3>2, <3>3
  <2>7. QED
    BY <1>7, <2>6 DEF b
<1>15. QED
  BY <1>12, <1>13, <1>14

\* The formats there are.
LEMMA FormatOf ==
  ASSUME NEW type \in DOMAIN Formats
  PROVE  /\ type # "bool"
         /\ Formats[type].size \in {1, 2, 4} /\ Formats[type].signed \in BOOLEAN
         /\ Formats[type].float \in BOOLEAN
         /\ Formats[type].float => Formats[type].size = 4
         /\ Formats[type].size = 4 /\ ~Formats[type].float => Formats[type].signed
         /\ Formats[type] = [size |-> Formats[type].size, signed |-> Formats[type].signed,
                             float |-> Formats[type].float]
PROOF
<1>1. type \in {"int8", "uint8", "int16", "uint16", "int32", "float32"}
  BY DEF Formats
<1> DEFINE Is(size, signed, float) ==
       /\ Formats[type] = [size |-> size, signed |-> signed, float |-> float]
       /\ Formats[type].size = size /\ Formats[type].signed = signed
       /\ Formats[type].float = float
<1>2. CASE type = "int8"
  <2>1. Is(1, TRUE, FALSE)
    BY <1>2 DEF Formats
  <2>2. QED
    BY <1>2, <2>1
<1>3. CASE type = "uint8"
  <2>1. Is(1, FALSE, FALSE)
    BY <1>3 DEF Formats
  <2>2. QED
    BY <1>3, <2>1
<1>4. CASE type = "int16"
  <2>1. Is(2, TRUE, FALSE)
    BY <1>4 DEF Formats
  <2>2. QED
    BY <1>4, <2>1
<1>5. CASE type = "uint16"
  <2>1. Is(2, FALSE, FALSE)
    BY <1>5 DEF Formats
  <2>2. QED
    BY <1>5, <2>1
<1>6. CASE type = "int32"
  <2>1. Is(4, TRUE, FALSE)
    BY <1>6 DEF Formats
  <2>2. QED
    BY <1>6, <2>1
<1>7. CASE type = "float32"
  <2>1. Is(4, FALSE, TRUE)
    BY <1>7 DEF Formats
  <2>2. QED
    BY <1>7, <2>1
<1>8. QED
  BY <1>1, <1>2, <1>3, <1>4, <1>5, <1>6, <1>7

\* Bytes turned around twice.
LEMMA ReverseTwice ==
  ASSUME NEW size \in {1, 2, 4}, NEW bytes \in [1 .. size -> Byte]
  PROVE  Reverse(bytes) \in [1 .. size -> Byte] /\ Reverse(Reverse(bytes)) = bytes
PROOF
<1>1. Len(bytes) = size
  OBVIOUS
<1> DEFINE turned == [i \in 1 .. size |-> bytes[(size - i) + 1]]
<1>2. Reverse(bytes) = turned
  BY <1>1 DEF Reverse
<1>3. turned \in [1 .. size -> Byte] /\ Len(turned) = size
  OBVIOUS
<1>4. Reverse(turned) = [i \in 1 .. size |-> turned[(size - i) + 1]]
  <2> HIDE DEF turned
  <2>1. QED
    BY <1>3 DEF Reverse
<1>5. \A i \in 1 .. size : turned[(size - i) + 1] = bytes[i]
  OBVIOUS
<1>6. Reverse(turned) = bytes
  <2>1. bytes = [i \in 1 .. size |-> bytes[i]]
    OBVIOUS
  <2> HIDE DEF turned
  <2>2. QED
    BY <1>4, <1>5, <2>1
<1>7. QED
  BY <1>2, <1>3, <1>6

\* And put into the order of an assembly and back.
LEMMA OrderedTwice ==
  ASSUME NEW size \in {1, 2, 4}, NEW bytes \in [1 .. size -> Byte],
         NEW byte_order \in {"little", "big"}
  PROVE  /\ Ordered(byte_order, bytes) \in [1 .. size -> Byte]
         /\ Ordered(byte_order, Ordered(byte_order, bytes)) = bytes
PROOF
  BY ReverseTwice DEF Ordered

\* An element that fits the format goes into its bytes and back, in either order
\* of the bytes.
LEMMA ElementSurvives ==
  ASSUME NEW type \in DOMAIN Formats, NEW byte_order \in {"little", "big"},
         NEW element \in ElementsOf(type), FitsFormat(Formats[type], element)
  PROVE  /\ PackElement(Formats[type], byte_order, element) \in [1 .. Formats[type].size -> Byte]
         /\ UnpackElement(Formats[type], byte_order,
                          PackElement(Formats[type], byte_order, element)) = element
PROOF
<1> DEFINE format == Formats[type]
           size == format.size
<1>1. type # "bool" /\ size \in {1, 2, 4} /\ format.signed \in BOOLEAN
  BY FormatOf
<1> HIDE DEF size
<1>2. CASE format.float
  <2>1. element \in [1 .. size -> Byte]
    BY <1>1, <1>2 DEF ElementsOf, size
  <2>2. Ordered(byte_order, element) \in [1 .. size -> Byte]
        /\ Ordered(byte_order, Ordered(byte_order, element)) = element
    BY <1>1, <2>1, OrderedTwice
  <2>3. QED
    BY <1>2, <2>2 DEF PackElement, UnpackElement, size
<1>3. CASE ~format.float
  <2>1. element \in MinInt .. MaxInt
    BY <1>1, <1>3 DEF ElementsOf
  <2>2. format = [size |-> size, signed |-> format.signed, float |-> FALSE]
        /\ (size = 4 => format.signed)
    BY <1>3, FormatOf DEF size
  <2> DEFINE low == LowFirst(element, size)
  <2>3. FitsFormat([size |-> size, signed |-> format.signed, float |-> FALSE], element)
    BY <2>2, Zenon
  <2>4. low \in [1 .. size -> Byte] /\ FromLowFirst(low, format.signed) = element
    BY <1>1, <2>1, <2>2, <2>3, IntegerSurvives, Zenon
  <2> HIDE DEF low
  <2>5. Ordered(byte_order, low) \in [1 .. size -> Byte]
        /\ Ordered(byte_order, Ordered(byte_order, low)) = low
    BY <1>1, <2>4, OrderedTwice
  <2>6. PackElement(format, byte_order, element) = Ordered(byte_order, low)
    BY <1>3 DEF PackElement, low, size
  <2>7. UnpackElement(format, byte_order, Ordered(byte_order, low))
          = FromLowFirst(Ordered(byte_order, Ordered(byte_order, low)), format.signed)
    BY <1>3 DEF UnpackElement
  <2>8. QED
    BY <2>4, <2>5, <2>6, <2>7 DEF size
<1>4. QED
  BY <1>2, <1>3

----------------------------------------------------------------------------
(* The bits and the bytes of an image.                                     *)

\* The images of an assembly of a size.
ImageOf(size) == [1 .. size -> Byte]

\* Where a bit is.
LEMMA PlaceOfBit ==
  ASSUME NEW byte \in Nat, NEW p \in Nat, p <= 7
  PROVE  (byte * 8 + p) \div 8 = byte /\ (byte * 8 + p) % 8 = p
PROOF
  OBVIOUS

\* And every bit is somewhere.
LEMMA BitHasPlace ==
  ASSUME NEW size \in Nat, NEW b \in 0 .. 8 * size - 1
  PROVE  /\ b \in Nat /\ b \div 8 \in Nat /\ b \div 8 + 1 \in 1 .. size
         /\ b % 8 \in 0 .. 7 /\ b = (b \div 8) * 8 + (b % 8)
PROOF
  OBVIOUS

\* A bit of an image is set or cleared; no other bit, and no other byte, changes.
LEMMA SetBitOfImage ==
  ASSUME NEW size \in Nat, NEW old \in ImageOf(size),
         NEW at \in 0 .. 8 * size - 1, NEW value \in BOOLEAN
  PROVE  /\ SetBit(old, at, value) \in ImageOf(size)
         /\ Bit(SetBit(old, at, value), at) <=> value
         /\ \A b \in 0 .. 8 * size - 1 :
              b # at => Bit(SetBit(old, at, value), b) = Bit(old, b)
         /\ \A i \in 1 .. size : i # at \div 8 + 1 => SetBit(old, at, value)[i] = old[i]
PROOF
<1>1. PICK byte, p : byte = at \div 8 /\ p = at % 8
  OBVIOUS
<1>2. byte \in Nat /\ byte < size /\ p \in 0 .. 7 /\ at = byte * 8 + p
  BY <1>1
<1> DEFINE new == SetBit(old, byte * 8 + p, value)
           c == WithBit(old[byte + 1], p, value)
<1> SUFFICES /\ new \in ImageOf(size)
             /\ Bit(new, byte * 8 + p) = value
             /\ \A b \in 0 .. 8 * size - 1 : b # byte * 8 + p => Bit(new, b) = Bit(old, b)
             /\ \A i \in 1 .. size : i # byte + 1 => new[i] = old[i]
  BY <1>1, <1>2, Zenon
<1>3. (byte * 8 + p) \div 8 = byte /\ (byte * 8 + p) % 8 = p
  BY <1>2, PlaceOfBit
<1>4. byte + 1 \in 1 .. size /\ old[byte + 1] \in Byte
  BY <1>2 DEF ImageOf
<1>5. new = [old EXCEPT ![byte + 1] = c]
  <2>1. \A q : q = byte * 8 + p =>
          SetBit(old, q, value) =
            [old EXCEPT ![q \div 8 + 1] = WithBit(old[q \div 8 + 1], q % 8, value)]
    BY DEF SetBit, Bit, WithBit
  <2>2. QED
    BY <1>3, <2>1, Zenon
<1> HIDE DEF new
<1>6. /\ c \in Byte
      /\ ((c \div 2 ^ p) % 2 = 1) = value
      /\ \A q \in 0 .. 7 : q # p => (c \div 2 ^ q) % 2 = (old[byte + 1] \div 2 ^ q) % 2
  BY <1>2, <1>4, SetBitOfByte, Zenon
<1> HIDE DEF c
<1>7. new \in ImageOf(size) /\ new[byte + 1] = c /\ \A i \in 1 .. size : i # byte + 1 => new[i] = old[i]
  BY <1>2, <1>4, <1>5, <1>6 DEF ImageOf
<1>8. Bit(new, byte * 8 + p) = value
  <2>1. Bit(new, byte * 8 + p) = ((new[byte + 1] \div 2 ^ p) % 2 = 1)
    <3>1. \A q : q = byte * 8 + p => Bit(new, q) = ((new[q \div 8 + 1] \div 2 ^ (q % 8)) % 2 = 1)
      BY DEF Bit
    <3>2. QED
      BY <1>3, <3>1, Zenon
  <2>2. QED
    BY <1>6, <1>7, <2>1, Zenon
<1>9. ASSUME NEW b \in 0 .. 8 * size - 1, b # byte * 8 + p
      PROVE  Bit(new, b) = Bit(old, b)
  <2>1. /\ b \in Nat /\ b \div 8 \in Nat /\ b \div 8 + 1 \in 1 .. size
        /\ b % 8 \in 0 .. 7 /\ b = (b \div 8) * 8 + (b % 8)
    BY BitHasPlace
  <2>2. PICK i, q : i = b \div 8 /\ q = b % 8
    OBVIOUS
  <2>3. /\ Bit(new, b) = ((new[i + 1] \div 2 ^ q) % 2 = 1)
        /\ Bit(old, b) = ((old[i + 1] \div 2 ^ q) % 2 = 1)
    BY <2>2 DEF Bit
  <2>4. i \in Nat /\ i + 1 \in 1 .. size /\ q \in 0 .. 7 /\ b = i * 8 + q
    BY <2>1, <2>2
  <2>5. CASE i = byte
    <3>1. q # p
      BY <1>2, <1>9, <2>4, <2>5
    <3>2. (new[i + 1] \div 2 ^ q) % 2 = (old[i + 1] \div 2 ^ q) % 2
      BY <1>6, <1>7, <2>4, <2>5, <3>1, Zenon
    <3>3. QED
      BY <2>3, <3>2
  <2>6. CASE i # byte
    <3>1. i + 1 # byte + 1
      BY <1>2, <2>4, <2>6
    <3>2. new[i + 1] = old[i + 1]
      BY <1>7, <2>4, <3>1, Zenon
    <3>3. QED
      BY <2>3, <3>2
  <2>7. QED
    BY <2>5, <2>6
<1>10. QED
  BY <1>7, <1>8, <1>9

\* A legal layout, whose fields are found by their names.
Sound(assembly) ==
  /\ assembly.size_bytes \in Nat /\ assembly.byte_order \in {"little", "big"}
  /\ \A name \in DOMAIN assembly.fields :
       LET field == assembly.fields[name]
       IN /\ field.byte_offset \in Nat /\ field.bit_offset \in 0 .. 7
          /\ IsBool(field) \/ (field.type \in DOMAIN Formats /\ field.bit_offset = 0)
          /\ EndByte(field) <= assembly.size_bytes
  /\ \A m, n \in DOMAIN assembly.fields :
       m # n => Bits(assembly.fields[m]) \cap Bits(assembly.fields[n]) = {}

\* A field of one element.
Single(assembly, name) == name \in DOMAIN assembly.fields /\ Field(assembly, name).count = 1

\* Where a field of one boolean is.
LEMMA PlaceOfBool ==
  ASSUME NEW assembly, Sound(assembly), NEW name, Single(assembly, name),
         IsBool(Field(assembly, name)),
         NEW field, field = Field(assembly, name)
  PROVE  /\ field.count = 1
         /\ field.byte_offset \in Nat /\ field.byte_offset < assembly.size_bytes
         /\ field.bit_offset \in 0 .. 7
         /\ FirstBit(field) = field.byte_offset * 8 + field.bit_offset
         /\ Bits(field) = {FirstBit(field)}
PROOF
<1>1. /\ field.byte_offset \in Nat /\ field.bit_offset \in 0 .. 7 /\ field.count = 1
      /\ EndByte(field) <= assembly.size_bytes /\ assembly.size_bytes \in Nat
  BY DEF Sound, Single, Field
<1>2. FirstBit(field) = field.byte_offset * 8 + field.bit_offset /\ SizeBits(field) = 1
  BY <1>1 DEF FirstBit, SizeBits
<1>3. EndByte(field) = (FirstBit(field) + 1 + 7) \div 8
  BY <1>2 DEF EndByte
<1>4. field.byte_offset < assembly.size_bytes
  BY <1>1, <1>2, <1>3
<1>5. Bits(field) = {FirstBit(field)}
  <2>1. FirstBit(field) \in Int
    BY <1>1, <1>2
  <2>2. Bits(field) = FirstBit(field) .. FirstBit(field) + 1 - 1
    BY <1>2 DEF Bits
  <2>3. QED
    BY <2>1, <2>2
<1>6. QED
  BY <1>1, <1>2, <1>4, <1>5

\* Where a field of one element is.
LEMMA PlaceOfElement ==
  ASSUME NEW assembly, Sound(assembly), NEW name, Single(assembly, name),
         ~IsBool(Field(assembly, name)),
         NEW field, field = Field(assembly, name)
  PROVE  /\ field.count = 1 /\ field.type \in DOMAIN Formats
         /\ ElementSize(field) = Formats[field.type].size /\ ElementSize(field) \in {1, 2, 4}
         /\ field.byte_offset \in Nat
         /\ field.byte_offset + ElementSize(field) <= assembly.size_bytes
         /\ Bits(field) = 8 * field.byte_offset .. 8 * (field.byte_offset + ElementSize(field)) - 1
PROOF
<1>1. /\ field.byte_offset \in Nat /\ field.bit_offset = 0 /\ field.count = 1
      /\ field.type \in DOMAIN Formats
      /\ EndByte(field) <= assembly.size_bytes /\ assembly.size_bytes \in Nat
  BY DEF Sound, Single, Field
<1>2. ElementSize(field) = Formats[field.type].size /\ ElementSize(field) \in {1, 2, 4}
  BY <1>1, FormatOf DEF ElementSize
<1>3. PICK e \in {1, 2, 4} : e = ElementSize(field)
  BY <1>2
<1>4. FirstBit(field) = field.byte_offset * 8 /\ SizeBits(field) = e * 8
  BY <1>1, <1>3 DEF FirstBit, SizeBits
<1>5. EndByte(field) = (field.byte_offset * 8 + e * 8 + 7) \div 8
  BY <1>4 DEF EndByte
<1>6. field.byte_offset + e <= assembly.size_bytes
  BY <1>1, <1>5
<1>7. Bits(field) = 8 * field.byte_offset .. 8 * (field.byte_offset + e) - 1
  <2>1. Bits(field) = field.byte_offset * 8 .. field.byte_offset * 8 + e * 8 - 1
    BY <1>4 DEF Bits
  <2>2. /\ field.byte_offset * 8 = 8 * field.byte_offset
        /\ field.byte_offset * 8 + e * 8 - 1 = 8 * (field.byte_offset + e) - 1
    BY <1>1
  <2>3. QED
    BY <2>1, <2>2
<1>8. QED
  BY <1>1, <1>2, <1>3, <1>6, <1>7

\* What a field of one element reads.
LEMMA ReadBool ==
  ASSUME NEW assembly, Sound(assembly), NEW name, Single(assembly, name),
         IsBool(Field(assembly, name)), NEW img
  PROVE  Read(assembly, img, name) = <<Bit(img, FirstBit(Field(assembly, name)))>>
PROOF
<1>1. PICK field : field = Field(assembly, name)
  OBVIOUS
<1>2. field.count = 1 /\ FirstBit(field) \in Int
  <2>1. /\ field.count = 1
        /\ field.byte_offset \in Nat /\ field.byte_offset < assembly.size_bytes
        /\ field.bit_offset \in 0 .. 7
        /\ FirstBit(field) = field.byte_offset * 8 + field.bit_offset
        /\ Bits(field) = {FirstBit(field)}
    BY <1>1, PlaceOfBool
  <2>2. QED
    BY <2>1
<1>3. Read(assembly, img, name) = [k \in 1 .. 1 |-> Bit(img, FirstBit(field) + k - 1)]
  BY <1>1, <1>2 DEF Read
<1>4. [k \in 1 .. 1 |-> Bit(img, FirstBit(field) + k - 1)] = <<Bit(img, FirstBit(field))>>
  <2>1. \A k \in 1 .. 1 : FirstBit(field) + k - 1 = FirstBit(field)
    BY <1>2
  <2>2. QED
    BY <2>1
<1>5. QED
  BY <1>1, <1>3, <1>4

\* The n bytes after the first i of an image, and the bytes of an element.
Piece(img, i, n) == SubSeq(img, i + 1, i + n)
BytesOf(field, img) == Piece(img, field.byte_offset, ElementSize(field))

\* An element is read from its bytes.
LEMMA ReadElement ==
  ASSUME NEW assembly, Sound(assembly), NEW name, Single(assembly, name),
         ~IsBool(Field(assembly, name)), NEW img,
         NEW field, field = Field(assembly, name)
  PROVE  Read(assembly, img, name) =
           <<UnpackElement(Formats[field.type], assembly.byte_order, BytesOf(field, img))>>
PROOF
<1>1. field.count = 1 /\ field.byte_offset \in Int /\ ElementSize(field) \in Int
  <2>1. /\ field.count = 1 /\ ElementSize(field) \in {1, 2, 4} /\ field.byte_offset \in Nat
    BY PlaceOfElement
  <2>2. QED
    BY <2>1
<1>2. PICK o, e \in Int : o = field.byte_offset /\ e = ElementSize(field)
  BY <1>1
<1>3. Read(assembly, img, name) =
        [k \in 1 .. 1 |-> UnpackElement(Formats[field.type], assembly.byte_order,
                            SubSeq(img, o + (k - 1) * e + 1, o + (k - 1) * e + e))]
  BY <1>1, <1>2 DEF Read
<1>4. \A k \in 1 .. 1 : o + (k - 1) * e + 1 = o + 1 /\ o + (k - 1) * e + e = o + e
  BY <1>2
<1>5. Read(assembly, img, name) =
        [k \in 1 .. 1 |-> UnpackElement(Formats[field.type], assembly.byte_order,
                            SubSeq(img, o + 1, o + e))]
  BY <1>3, <1>4
<1>6. QED
  BY <1>2, <1>5 DEF BytesOf, Piece

\* Writing one boolean is setting one bit.
LEMMA WriteOneBool ==
  ASSUME NEW field, field.count = 1, FirstBit(field) \in Int, NEW old, NEW value
  PROVE  WriteBools(field, old, value) = SetBit(old, FirstBit(field), value[1])
PROOF
<1> DEFINE seq == [k \in 1 .. 1 |-> k]
           step(f) == [s \in SUBSET (1 .. 1) |->
                         IF s = {} THEN old
                         ELSE SetBit(f[s \ {Max(s)}], FirstBit(field) + seq[Max(s)] - 1,
                                     value[seq[Max(s)]])]
           iter == CHOOSE f : f = step(f)
           done == [s \in SUBSET (1 .. 1) |->
                      IF s = {} THEN old ELSE SetBit(old, FirstBit(field), value[1])]
<1>1. WriteBools(field, old, value) = iter[1 .. 1]
  <2>1. DOMAIN seq = 1 .. 1
    OBVIOUS
  <2> HIDE DEF seq
  <2>2. WriteBools(field, old, value) =
          FoldLeft(LAMBDA written, k : SetBit(written, FirstBit(field) + k - 1, value[k]), old, seq)
    BY DEF WriteBools, seq
  <2>3. QED
    BY <2>1, <2>2 DEF FoldLeft, MapThenFoldSet
<1>2. ASSUME NEW s \in SUBSET (1 .. 1), s # {}
      PROVE  s = 1 .. 1 /\ Max(s) = 1 /\ s \ {Max(s)} = {} /\ seq[Max(s)] = 1
  <2> HIDE DEF step, iter, done
  <2>1. s = 1 .. 1 /\ (1 .. 1) \ {1} = {} /\ 1 \in 1 .. 1
    <3> HIDE DEF seq
    <3>1. 1 .. 1 = {1}
      OBVIOUS
    <3>2. QED
      BY <1>2, <3>1
  <2>2. Max(1 .. 1) = 1
    <3>1. 1 \in Nat /\ 1 > 0
      OBVIOUS
    <3>2. QED
      BY <3>1, LargestOfInterval, Zenon
  <2>3. QED
    BY <2>1, <2>2
<1>3. FirstBit(field) + 1 - 1 = FirstBit(field)
  OBVIOUS
<1>4. {} \in SUBSET (1 .. 1) /\ 1 .. 1 \in SUBSET (1 .. 1) /\ 1 .. 1 # {}
  OBVIOUS
<1> HIDE DEF seq
<1>5. done = step(done)
  <2>1. done[{}] = old
    BY <1>4
  <2>2. ASSUME NEW s \in SUBSET (1 .. 1), s # {}
        PROVE  SetBit(done[s \ {Max(s)}], FirstBit(field) + seq[Max(s)] - 1, value[seq[Max(s)]])
                 = SetBit(old, FirstBit(field), value[1])
    <3> HIDE DEF done
    <3>1. QED
      BY <1>2, <1>3, <2>1, <2>2
  <2>3. QED
    BY <2>2, Zenon
<1>6. iter = step(iter)
  <2> HIDE DEF step
  <2>1. QED
    BY <1>5, Zenon
<1> HIDE DEF iter
<1>7. iter[{}] = old
  BY <1>4, <1>6, Zenon
<1>8. iter[1 .. 1] = SetBit(iter[{}], FirstBit(field) + 1 - 1, value[1])
  <2>1. iter[1 .. 1] = SetBit(iter[(1 .. 1) \ {Max(1 .. 1)}],
                              FirstBit(field) + seq[Max(1 .. 1)] - 1, value[seq[Max(1 .. 1)]])
    BY <1>4, <1>6, Zenon
  <2>2. (1 .. 1) \ {Max(1 .. 1)} = {} /\ seq[Max(1 .. 1)] = 1
    BY <1>2, <1>4, Zenon
  <2>3. QED
    BY <2>1, <2>2, Zenon
<1>9. QED
  BY <1>1, <1>3, <1>7, <1>8, Zenon

\* The bytes of one element are those of all elements.
LEMMA FlattenOne ==
  ASSUME NEW bytes
  PROVE  FlattenSeq([k \in 1 .. 1 |-> bytes]) = bytes
PROOF
<1> DEFINE seqs == [k \in 1 .. 1 |-> bytes]
           step(f) == [i \in 1 .. Len(seqs) |-> IF i = 1 THEN seqs[i] ELSE f[i - 1] \o seqs[i]]
           flatten == CHOOSE f : f = step(f)
<1>1. Len(seqs) = 1 /\ seqs[1] = bytes
  OBVIOUS
<1> HIDE DEF seqs
<1>2. FlattenSeq(seqs) = flatten[1]
  <2>1. Len(seqs) # 0
    BY <1>1
  <2>2. FlattenSeq(seqs) = flatten[Len(seqs)]
    BY <2>1, Zenon DEF FlattenSeq
  <2>3. QED
    BY <1>1, <2>2, Zenon
<1>3. [i \in 1 .. 1 |-> bytes] = step([i \in 1 .. 1 |-> bytes])
  BY <1>1
<1>4. flatten = step(flatten)
  <2> HIDE DEF step
  <2>1. QED
    BY <1>3, Zenon
<1>5. flatten[1] = bytes
  <2> HIDE DEF flatten
  <2>1. 1 \in 1 .. Len(seqs)
    BY <1>1
  <2>2. QED
    BY <1>1, <1>4, <2>1
<1>6. QED
  BY <1>2, <1>5 DEF seqs

\* Images of any length: a piece of one, and one after the other.
LEMMA ImageIsSeq ==
  ASSUME NEW size \in Nat, NEW img
  PROVE  img \in ImageOf(size) <=> img \in Seq(Byte) /\ Len(img) = size
PROOF
<1>1. ASSUME img \in ImageOf(size) PROVE img \in Seq(Byte) /\ Len(img) = size
  BY <1>1 DEF ImageOf
<1>2. ASSUME img \in Seq(Byte), Len(img) = size PROVE img \in ImageOf(size)
  BY <1>2, LenProperties DEF ImageOf
<1>3. QED
  BY <1>1, <1>2

\* A piece of an image is an image.
LEMMA PieceOfImage ==
  ASSUME NEW size \in Nat, NEW img \in ImageOf(size),
         NEW i \in Nat, NEW n \in Nat, i + n <= size
  PROVE  /\ Piece(img, i, n) \in ImageOf(n)
         /\ \A k \in 1 .. n : Piece(img, i, n)[k] = img[i + k]
PROOF
<1>1. PICK m \in Int, j \in Int : m = i + 1 /\ j = i + n
  OBVIOUS
<1>2. \A k \in m .. j : img[k] \in Byte
  BY <1>1 DEF ImageOf
<1>3. /\ SubSeq(img, m, j) \in Seq(Byte)
      /\ Len(SubSeq(img, m, j)) = IF m <= j THEN j - m + 1 ELSE 0
      /\ \A k \in 1 .. j - m + 1 : SubSeq(img, m, j)[k] = img[m + k - 1]
  BY <1>2, SubSeqProperties
<1>4. (IF m <= j THEN j - m + 1 ELSE 0) = n /\ j - m + 1 = n
  BY <1>1
<1>5. \A k \in 1 .. n : m + k - 1 = i + k
  BY <1>1
<1>6. \A k \in 1 .. n : SubSeq(img, m, j)[k] = img[i + k]
  BY <1>3, <1>4, <1>5, Zenon
<1>7. SubSeq(img, m, j) \in ImageOf(n)
  BY <1>3, <1>4, ImageIsSeq, Zenon
<1>8. SubSeq(img, m, j) = Piece(img, i, n)
  BY <1>1, Zenon DEF Piece
<1>9. QED
  BY <1>6, <1>7, <1>8, Zenon

\* One after the other.
LEMMA JoinImages ==
  ASSUME NEW m \in Nat, NEW n \in Nat, NEW a \in ImageOf(m), NEW b \in ImageOf(n)
  PROVE  /\ a \o b \in ImageOf(m + n)
         /\ \A i \in 1 .. m : (a \o b)[i] = a[i]
         /\ \A i \in 1 .. n : (a \o b)[m + i] = b[i]
PROOF
<1>1. a \in Seq(Byte) /\ Len(a) = m /\ b \in Seq(Byte) /\ Len(b) = n
  BY ImageIsSeq, Zenon
<1>2. /\ a \o b \in Seq(Byte)
      /\ Len(a \o b) = m + n
      /\ \A i \in 1 .. m + n : (a \o b)[i] = IF i <= m THEN a[i] ELSE b[i - m]
  BY <1>1, ConcatProperties, Zenon
<1>3. a \o b \in ImageOf(m + n)
  <2>1. m + n \in Nat
    OBVIOUS
  <2>2. QED
    BY <1>2, <2>1, ImageIsSeq, Zenon
<1>4. \A i \in 1 .. m : i \in 1 .. m + n /\ i <= m
  OBVIOUS
<1>5. \A i \in 1 .. n : m + i \in 1 .. m + n /\ ~(m + i <= m) /\ m + i - m = i
  OBVIOUS
<1>6. \A i \in 1 .. m : (a \o b)[i] = a[i]
  BY <1>2, <1>4, Zenon
<1>7. ASSUME NEW i \in 1 .. n PROVE (a \o b)[m + i] = b[i]
  <2>1. (a \o b)[m + i] = IF m + i <= m THEN a[m + i] ELSE b[m + i - m]
    <3>1. m + i \in 1 .. m + n
      BY <1>5
    <3>2. QED
      BY <1>2, <3>1, SMT
  <2>2. ~(m + i <= m) /\ m + i - m = i
    BY <1>5
  <2>3. QED
    BY <2>1, <2>2, Zenon
<1>8. QED
  BY <1>3, <1>6, <1>7, Zenon

\* Bytes laid over an image.
Laid(size, old, o, e, bytes) == SubSeq(old, 1, o) \o bytes \o SubSeq(old, o + e + 1, size)

\* They are there, and the bytes beside them are the old ones.
LEMMA Splice ==
  ASSUME NEW size \in Nat, NEW old \in ImageOf(size), NEW o \in Nat, NEW e \in Nat,
         o + e <= size, NEW bytes \in ImageOf(e)
  PROVE  /\ Laid(size, old, o, e, bytes) \in ImageOf(size)
         /\ Piece(Laid(size, old, o, e, bytes), o, e) = bytes
         /\ \A i \in 1 .. size :
              i <= o \/ i > o + e => Laid(size, old, o, e, bytes)[i] = old[i]
PROOF
<1> DEFINE new == Laid(size, old, o, e, bytes)
<1> SUFFICES /\ new \in ImageOf(size)
             /\ Piece(new, o, e) = bytes
             /\ \A i \in 1 .. size : i <= o \/ i > o + e => new[i] = old[i]
  OBVIOUS
<1>1. new = SubSeq(old, 1, o) \o bytes \o SubSeq(old, o + e + 1, size)
  BY DEF Laid
<1> HIDE DEF new
<1>2. PICK r \in Nat, m \in Nat : r = size - (o + e) /\ m = o + e
  OBVIOUS
<1>3. PICK a \in ImageOf(o) : a = SubSeq(old, 1, o) /\ \A i \in 1 .. o : a[i] = old[i]
  <2>1. 0 \in Nat /\ 0 + o <= size /\ 0 + 1 = 1 /\ 0 + o = o /\ \A i \in 1 .. o : 0 + i = i
    OBVIOUS
  <2>2. /\ Piece(old, 0, o) \in ImageOf(o)
        /\ \A i \in 1 .. o : Piece(old, 0, o)[i] = old[0 + i]
    BY <2>1, PieceOfImage
  <2>3. QED
    BY <2>1, <2>2, Zenon DEF Piece
<1>4. PICK c \in ImageOf(r) :
        c = SubSeq(old, m + 1, size) /\ \A i \in 1 .. r : c[i] = old[m + i]
  <2>1. m + r <= size /\ m + r = size
    BY <1>2
  <2>2. /\ Piece(old, m, r) \in ImageOf(r)
        /\ \A i \in 1 .. r : Piece(old, m, r)[i] = old[m + i]
    BY <1>2, <2>1, PieceOfImage
  <2>3. QED
    BY <2>1, <2>2, Zenon DEF Piece
<1>5. /\ a \o bytes \in ImageOf(m)
      /\ \A i \in 1 .. o : (a \o bytes)[i] = a[i]
      /\ \A i \in 1 .. e : (a \o bytes)[o + i] = bytes[i]
  <2>1. /\ a \o bytes \in ImageOf(o + e)
        /\ \A i \in 1 .. o : (a \o bytes)[i] = a[i]
        /\ \A i \in 1 .. e : (a \o bytes)[o + i] = bytes[i]
    BY JoinImages, Zenon
  <2>2. QED
    BY <1>2, <2>1, Zenon
<1>6. /\ new \in ImageOf(size)
      /\ \A i \in 1 .. m : new[i] = (a \o bytes)[i]
      /\ \A i \in 1 .. r : new[m + i] = c[i]
  <2>1. new = (a \o bytes) \o c /\ m + r = size
    <3>1. new = (a \o bytes) \o c
      BY <1>1, <1>2, <1>3, <1>4, Zenon
    <3>2. m + r = size
      BY <1>2
    <3>3. QED
      BY <3>1, <3>2
  <2>2. PICK ab \in ImageOf(m) : ab = a \o bytes
    BY <1>5
  <2>3. /\ ab \o c \in ImageOf(m + r)
        /\ \A i \in 1 .. m : (ab \o c)[i] = ab[i]
        /\ \A i \in 1 .. r : (ab \o c)[m + i] = c[i]
    BY JoinImages, Zenon
  <2>4. QED
    BY <2>1, <2>2, <2>3, Zenon
<1>7. ASSUME NEW i \in 1 .. size, i <= o \/ i > o + e
      PROVE  new[i] = old[i]
  <2>1. CASE i <= o
    <3>1. i \in 1 .. o /\ i \in 1 .. m
      BY <1>2, <2>1
    <3>2. QED
      BY <1>3, <1>5, <1>6, <3>1, Zenon
  <2>2. CASE i > o + e
    <3>1. PICK j \in 1 .. r : i = m + j
      <4>1. i - m \in 1 .. r /\ i = m + (i - m)
        BY <1>2, <2>2
      <4>2. QED
        BY <4>1
    <3>2. QED
      BY <1>4, <1>6, <3>1, Zenon
  <2>3. QED
    BY <1>7, <2>1, <2>2
<1>8. Piece(new, o, e) = bytes
  <2>1. /\ Piece(new, o, e) \in ImageOf(e)
        /\ \A i \in 1 .. e : Piece(new, o, e)[i] = new[o + i]
    BY <1>6, PieceOfImage
  <2>2. \A i \in 1 .. e : o + i \in 1 .. m
    BY <1>2
  <2>3. \A i \in 1 .. e : Piece(new, o, e)[i] = bytes[i]
    BY <1>5, <1>6, <2>1, <2>2, Zenon
  <2>4. /\ Piece(new, o, e) \in Seq(Byte) /\ Len(Piece(new, o, e)) = e
        /\ bytes \in Seq(Byte) /\ Len(bytes) = e
    BY <2>1, ImageIsSeq, Zenon
  <2>5. QED
    BY <2>3, <2>4, SeqEqual, Zenon
<1>9. QED
  BY <1>6, <1>7, <1>8

----------------------------------------------------------------------------
(* A field that is written.                                                *)

\* Two images differ in the bits of a field only.
KeepsRest(field, size, old, new) ==
  /\ \A b \in 0 .. 8 * size - 1 : b \notin Bits(field) => Bit(new, b) = Bit(old, b)
  /\ \A i \in 1 .. size :
       (\A b \in 8 * (i - 1) .. 8 * i - 1 : b \notin Bits(field)) => new[i] = old[i]

\* A boolean that is written is read, and only its bit changes.
LEMMA WriteBoolField ==
  ASSUME NEW assembly, Sound(assembly), NEW name, Single(assembly, name),
         IsBool(Field(assembly, name)),
         NEW old \in ImageOf(assembly.size_bytes), NEW value \in BOOLEAN
  PROVE  /\ Write(assembly, old, name, <<value>>) \in ImageOf(assembly.size_bytes)
         /\ Read(assembly, Write(assembly, old, name, <<value>>), name) = <<value>>
         /\ KeepsRest(Field(assembly, name), assembly.size_bytes, old,
                      Write(assembly, old, name, <<value>>))
PROOF
<1>1. PICK field, size, new :
        /\ field = Field(assembly, name) /\ size = assembly.size_bytes
        /\ new = Write(assembly, old, name, <<value>>)
  OBVIOUS
<1>2. size \in Nat /\ old \in ImageOf(size)
  BY <1>1 DEF Sound
<1>3. /\ field.count = 1
      /\ field.byte_offset \in Nat /\ field.byte_offset < size
      /\ field.bit_offset \in 0 .. 7
      /\ FirstBit(field) = field.byte_offset * 8 + field.bit_offset
      /\ Bits(field) = {FirstBit(field)}
  BY <1>1, PlaceOfBool
<1>4. PICK byte \in Nat, p \in 0 .. 7 : byte = field.byte_offset /\ p = field.bit_offset
  BY <1>3
<1>5. FirstBit(field) = byte * 8 + p /\ FirstBit(field) \in Int /\ byte < size
  BY <1>3, <1>4
<1>6. new = SetBit(old, byte * 8 + p, value)
  <2>1. new = WriteBools(field, old, <<value>>)
    BY <1>1 DEF Write
  <2>2. WriteBools(field, old, <<value>>) = SetBit(old, FirstBit(field), <<value>>[1])
    BY <1>3, <1>5, WriteOneBool, Zenon
  <2>3. <<value>>[1] = value
    OBVIOUS
  <2>4. QED
    BY <1>5, <2>1, <2>2, <2>3, Zenon
<1>7. /\ new \in ImageOf(size)
      /\ Bit(new, byte * 8 + p) = value
      /\ \A b \in 0 .. 8 * size - 1 : b # byte * 8 + p => Bit(new, b) = Bit(old, b)
      /\ \A i \in 1 .. size : i # byte + 1 => new[i] = old[i]
  <2>1. PICK at \in 0 .. 8 * size - 1 : at = byte * 8 + p /\ at \div 8 + 1 = byte + 1
    BY <1>4, <1>5, <1>2
  <2> DEFINE Done(w) ==
         /\ w \in ImageOf(size)
         /\ Bit(w, at) <=> value
         /\ \A b \in 0 .. 8 * size - 1 : b # at => Bit(w, b) = Bit(old, b)
         /\ \A i \in 1 .. size : i # at \div 8 + 1 => w[i] = old[i]
  <2>2. Done(SetBit(old, at, value))
    BY <1>2, SetBitOfImage
  <2>3. Done(new) /\ at = byte * 8 + p /\ at \div 8 + 1 = byte + 1
    <3> HIDE DEF Done
    <3>1. QED
      BY <1>6, <2>1, <2>2
  <2>4. Bit(new, at) \in BOOLEAN
    BY DEF Bit
  <2>5. Bit(new, at) = value
    BY <2>3, <2>4
  <2>6. QED
    BY <2>3, <2>5, Zenon
<1>8. Read(assembly, new, name) = <<value>>
  <2>1. Read(assembly, new, name) = <<Bit(new, FirstBit(field))>>
    BY <1>1, ReadBool
  <2>2. QED
    BY <1>5, <1>7, <2>1, Zenon
<1>9. \A b \in 0 .. 8 * size - 1 : b \notin Bits(field) => Bit(new, b) = Bit(old, b)
  BY <1>3, <1>5, <1>7, Zenon
<1>10. ASSUME NEW i \in 1 .. size, \A b \in 8 * (i - 1) .. 8 * i - 1 : b \notin Bits(field)
      PROVE  new[i] = old[i]
  <2>1. i = byte + 1 => byte * 8 + p \in 8 * (i - 1) .. 8 * i - 1
    OBVIOUS
  <2>2. i # byte + 1
    BY <1>3, <1>5, <1>10, <2>1, Zenon
  <2>3. QED
    BY <1>7, <2>2, Zenon
<1>11. KeepsRest(field, size, old, new)
  BY <1>9, <1>10, Zenon DEF KeepsRest
<1>12. QED
  BY <1>1, <1>7, <1>8, <1>11, Zenon

\* An element that is written is read, and only its bits change.
LEMMA WriteElementField ==
  ASSUME NEW assembly, Sound(assembly), NEW name, Single(assembly, name),
         ~IsBool(Field(assembly, name)),
         NEW old \in ImageOf(assembly.size_bytes),
         NEW value \in ElementsOf(Field(assembly, name).type),
         FitsFormat(Formats[Field(assembly, name).type], value)
  PROVE  /\ Write(assembly, old, name, <<value>>) \in ImageOf(assembly.size_bytes)
         /\ Read(assembly, Write(assembly, old, name, <<value>>), name) = <<value>>
         /\ KeepsRest(Field(assembly, name), assembly.size_bytes, old,
                      Write(assembly, old, name, <<value>>))
PROOF
<1>1. PICK field, size, new :
        /\ field = Field(assembly, name) /\ size = assembly.size_bytes
        /\ new = Write(assembly, old, name, <<value>>)
  OBVIOUS
<1>2. size \in Nat /\ old \in ImageOf(size)
  BY <1>1 DEF Sound
<1>3. /\ field.count = 1 /\ field.type \in DOMAIN Formats
      /\ ElementSize(field) = Formats[field.type].size /\ ElementSize(field) \in {1, 2, 4}
      /\ field.byte_offset \in Nat
      /\ field.byte_offset + ElementSize(field) <= size
      /\ Bits(field) = 8 * field.byte_offset .. 8 * (field.byte_offset + ElementSize(field)) - 1
  BY <1>1, PlaceOfElement
<1>4. PICK o \in Nat, e \in Nat : o = field.byte_offset /\ e = ElementSize(field)
  BY <1>3
<1>5. o + e <= size /\ Bits(field) = 8 * o .. 8 * (o + e) - 1 /\ e = Formats[field.type].size
  BY <1>3, <1>4
<1>6. PICK bytes : bytes = PackElement(Formats[field.type], assembly.byte_order, value)
  OBVIOUS
<1>7. /\ bytes \in ImageOf(e)
      /\ UnpackElement(Formats[field.type], assembly.byte_order, bytes) = value
  <2>1. assembly.byte_order \in {"little", "big"}
    BY DEF Sound
  <2>2. /\ PackElement(Formats[field.type], assembly.byte_order, value)
             \in [1 .. Formats[field.type].size -> Byte]
        /\ UnpackElement(Formats[field.type], assembly.byte_order,
             PackElement(Formats[field.type], assembly.byte_order, value)) = value
    BY <1>1, <1>3, <2>1, ElementSurvives, Zenon
  <2>3. QED
    BY <1>5, <1>6, <2>2, Zenon DEF ImageOf
<1>8. o + e <= size /\ bytes \in ImageOf(e)
  BY <1>5, <1>7
<1>9. Len(old) = size /\ Len(bytes) = e
  BY <1>7, <1>2, <1>4, ImageIsSeq, Zenon
<1>10. new = Laid(size, old, o, e, bytes)
  <2>1. new = WriteElements(assembly, field, old, <<value>>)
    BY <1>1 DEF Write
  <2>2. FlattenSeq([k \in 1 .. field.count |->
                 PackElement(Formats[field.type], assembly.byte_order, <<value>>[k])]) = bytes
    <3>1. [k \in 1 .. field.count |->
                 PackElement(Formats[field.type], assembly.byte_order, <<value>>[k])]
            = [k \in 1 .. 1 |-> bytes]
      <4>1. \A k \in 1 .. 1 : <<value>>[k] = value
        OBVIOUS
      <4>2. \A k \in 1 .. 1 :
              PackElement(Formats[field.type], assembly.byte_order, <<value>>[k]) = bytes
        BY <1>6, <4>1, Zenon
      <4>3. QED
        BY <1>3, <4>2, Zenon
    <3>2. QED
      BY <3>1, FlattenOne, Zenon
  <2>3. WriteElements(assembly, field, old, <<value>>)
          = SubSeq(old, 1, o) \o bytes \o SubSeq(old, o + Len(bytes) + 1, Len(old))
    BY <1>4, <2>2, Zenon DEF WriteElements
  <2>4. QED
    BY <1>9, <2>1, <2>3, Zenon DEF Laid
<1>11. /\ new \in ImageOf(size)
      /\ Piece(new, o, e) = bytes
      /\ \A i \in 1 .. size : i <= o \/ i > o + e => new[i] = old[i]
  <2>1. /\ Laid(size, old, o, e, bytes) \in ImageOf(size)
        /\ Piece(Laid(size, old, o, e, bytes), o, e) = bytes
        /\ \A i \in 1 .. size :
             i <= o \/ i > o + e => Laid(size, old, o, e, bytes)[i] = old[i]
    BY <1>2, <1>8, Splice
  <2>2. QED
    BY <1>10, <2>1, Zenon
<1>12. Read(assembly, new, name) = <<value>>
  <2>1. Read(assembly, new, name)
          = <<UnpackElement(Formats[field.type], assembly.byte_order, BytesOf(field, new))>>
    BY <1>1, ReadElement
  <2>2. BytesOf(field, new) = bytes
    BY <1>4, <1>11, Zenon DEF BytesOf
  <2>3. QED
    BY <1>7, <2>1, <2>2, Zenon
<1>13. ASSUME NEW b \in 0 .. 8 * size - 1, b \notin Bits(field)
       PROVE  Bit(new, b) = Bit(old, b)
  <2>1. b \div 8 + 1 \in 1 .. size /\ (b \div 8 + 1 <= o \/ b \div 8 + 1 > o + e)
    <3>1. o + e <= size /\ b \notin 8 * o .. 8 * (o + e) - 1
      BY <1>5, <1>13
    <3>2. QED
      BY <1>2, <3>1
  <2>2. new[b \div 8 + 1] = old[b \div 8 + 1]
    BY <1>11, <2>1, Zenon
  <2>3. QED
    BY <2>2, Zenon DEF Bit
<1>14. ASSUME NEW i \in 1 .. size, \A b \in 8 * (i - 1) .. 8 * i - 1 : b \notin Bits(field)
       PROVE  new[i] = old[i]
  <2>1. 8 * (i - 1) \in 8 * (i - 1) .. 8 * i - 1
    OBVIOUS
  <2>2. 8 * (i - 1) \notin 8 * o .. 8 * (o + e) - 1
    BY <1>5, <1>14, <2>1
  <2>3. i <= o \/ i > o + e
    BY <1>2, <2>2
  <2>4. QED
    BY <1>11, <2>3, Zenon
<1>15. KeepsRest(field, size, old, new)
  BY <1>13, <1>14, Zenon DEF KeepsRest
<1>16. QED
  BY <1>1, <1>11, <1>12, <1>15, Zenon

\* A field that shares no bit with what was written reads as before.
LEMMA ReadRest ==
  ASSUME NEW assembly, Sound(assembly), NEW name, Single(assembly, name),
         NEW old \in ImageOf(assembly.size_bytes), NEW new \in ImageOf(assembly.size_bytes),
         NEW written, KeepsRest(written, assembly.size_bytes, old, new),
         Bits(written) \cap Bits(Field(assembly, name)) = {}
  PROVE  Read(assembly, new, name) = Read(assembly, old, name)
PROOF
<1>1. PICK field, size : field = Field(assembly, name) /\ size = assembly.size_bytes
  OBVIOUS
<1>2. /\ size \in Nat /\ old \in ImageOf(size) /\ new \in ImageOf(size)
      /\ KeepsRest(written, size, old, new) /\ Bits(written) \cap Bits(field) = {}
  BY <1>1 DEF Sound
<1>3. CASE IsBool(field)
  <2>1. IsBool(Field(assembly, name))
    BY <1>1, <1>3
  <2>2. /\ field.byte_offset \in Nat /\ field.byte_offset < size
        /\ field.bit_offset \in 0 .. 7
        /\ FirstBit(field) = field.byte_offset * 8 + field.bit_offset
        /\ Bits(field) = {FirstBit(field)}
    BY <1>1, <2>1, PlaceOfBool
  <2>3. FirstBit(field) \in 0 .. 8 * size - 1
    BY <1>2, <2>2
  <2>4. Bit(new, FirstBit(field)) = Bit(old, FirstBit(field))
    BY <1>2, <2>2, <2>3, Zenon DEF KeepsRest
  <2>5. \A img : Read(assembly, img, name) = <<Bit(img, FirstBit(field))>>
    BY <1>1, <2>1, ReadBool
  <2>6. QED
    BY <2>4, <2>5, Zenon
<1>4. CASE ~IsBool(field)
  <2>1. ~IsBool(Field(assembly, name))
    BY <1>1, <1>4
  <2>2. /\ ElementSize(field) \in {1, 2, 4}
        /\ field.byte_offset \in Nat
        /\ field.byte_offset + ElementSize(field) <= size
        /\ Bits(field) = 8 * field.byte_offset .. 8 * (field.byte_offset + ElementSize(field)) - 1
    BY <1>1, <2>1, PlaceOfElement
  <2>3. PICK o \in Nat, e \in Nat : o = field.byte_offset /\ e = ElementSize(field)
    BY <2>2
  <2>4. o + e <= size /\ Bits(field) = 8 * o .. 8 * (o + e) - 1
    BY <2>2, <2>3
  <2>5. ASSUME NEW i \in 1 .. e PROVE o + i \in 1 .. size /\ new[o + i] = old[o + i]
    <3>1. PICK j \in 1 .. size : j = o + i
      BY <1>2, <2>4
    <3>2. \A b \in 8 * (j - 1) .. 8 * j - 1 : b \in 8 * o .. 8 * (o + e) - 1
      BY <3>1
    <3>3. \A b \in 8 * (j - 1) .. 8 * j - 1 : b \notin Bits(written)
      BY <1>2, <2>4, <3>2
    <3>4. new[j] = old[j]
      BY <1>2, <3>3, Zenon DEF KeepsRest
    <3>5. QED
      BY <3>1, <3>4
  <2>6. ASSUME NEW img \in ImageOf(size)
        PROVE  /\ Piece(img, o, e) \in ImageOf(e)
               /\ \A i \in 1 .. e : Piece(img, o, e)[i] = img[o + i]
    <3>1. o + e <= size
      BY <2>4
    <3>2. QED
      BY <1>2, <3>1, PieceOfImage
  <2>7. Piece(new, o, e) = Piece(old, o, e)
    <3>1. PICK s, t : s = Piece(new, o, e) /\ t = Piece(old, o, e)
      OBVIOUS
    <3>2. s \in ImageOf(e) /\ t \in ImageOf(e) /\ \A i \in 1 .. e : s[i] = t[i]
      BY <1>2, <2>5, <2>6, <3>1, Zenon
    <3>3. s = t
      BY <3>2 DEF ImageOf
    <3>4. QED
      BY <3>1, <3>3
  <2>8. BytesOf(field, new) = BytesOf(field, old)
    BY <2>3, <2>7, Zenon DEF BytesOf
  <2>9. \A img : Read(assembly, img, name) =
           <<UnpackElement(Formats[field.type], assembly.byte_order, BytesOf(field, img))>>
    BY <1>1, <2>1, ReadElement
  <2>10. QED
    BY <2>8, <2>9, Zenon
<1>5. QED
  BY <1>3, <1>4

\* A value that a field of one element holds and gives back.
FitsField(assembly, name, value) ==
  /\ value \in ElementsOf(Field(assembly, name).type)
  /\ IsBool(Field(assembly, name)) \/ FitsFormat(Formats[Field(assembly, name).type], value)

\* A value that is written into a field is read from it, and every other field reads
\* as before.
LEMMA WriteField ==
  ASSUME NEW assembly, Sound(assembly), NEW name, Single(assembly, name),
         NEW old \in ImageOf(assembly.size_bytes),
         NEW value, FitsField(assembly, name, value)
  PROVE  /\ Write(assembly, old, name, <<value>>) \in ImageOf(assembly.size_bytes)
         /\ Read(assembly, Write(assembly, old, name, <<value>>), name) = <<value>>
         /\ \A other : Single(assembly, other) /\ other # name =>
              Read(assembly, Write(assembly, old, name, <<value>>), other)
                = Read(assembly, old, other)
PROOF
<1>1. PICK new : new = Write(assembly, old, name, <<value>>)
  OBVIOUS
<1>2. /\ new \in ImageOf(assembly.size_bytes)
      /\ Read(assembly, new, name) = <<value>>
      /\ KeepsRest(Field(assembly, name), assembly.size_bytes, old, new)
  <2>1. CASE IsBool(Field(assembly, name))
    <3>1. value \in BOOLEAN
      BY <2>1 DEF FitsField, ElementsOf, IsBool
    <3>2. QED
      BY <1>1, <2>1, <3>1, WriteBoolField, Zenon
  <2>2. CASE ~IsBool(Field(assembly, name))
    <3>1. /\ value \in ElementsOf(Field(assembly, name).type)
          /\ FitsFormat(Formats[Field(assembly, name).type], value)
      BY <2>2, Zenon DEF FitsField
    <3>2. QED
      BY <1>1, <2>2, <3>1, WriteElementField, Zenon
  <2>3. QED
    BY <2>1, <2>2, Zenon
<1>3. ASSUME NEW other, Single(assembly, other), other # name
      PROVE  Read(assembly, new, other) = Read(assembly, old, other)
  <2>1. Bits(Field(assembly, name)) \cap Bits(Field(assembly, other)) = {}
    BY <1>3, Zenon DEF Sound, Single, Field
  <2>2. QED
    BY <1>2, <1>3, <2>1, ReadRest, Zenon
<1>4. QED
  BY <1>1, <1>2, <1>3, Zenon

\* The image that the first n values of a group leave says them, and what it said
\* of every other field.
Says(assembly, names, values, n, old, new) ==
  /\ new \in ImageOf(assembly.size_bytes)
  /\ \A k \in 1 .. n : Read(assembly, new, names[k]) = <<values[k]>>
  /\ \A other : Single(assembly, other) /\ (\A k \in 1 .. n : names[k] # other) =>
       Read(assembly, new, other) = Read(assembly, old, other)

\* And with one field more.
LEMMA OneMore ==
  ASSUME NEW assembly, Sound(assembly), NEW names, NEW values, NEW n \in Nat,
         \A k \in 1 .. n + 1 : /\ Single(assembly, names[k])
                               /\ FitsField(assembly, names[k], values[k]),
         \A j, k \in 1 .. n + 1 : names[j] = names[k] => j = k,
         NEW old, NEW mid, Says(assembly, names, values, n, old, mid)
  PROVE  Says(assembly, names, values, n + 1, old,
              Write(assembly, mid, names[n + 1], <<values[n + 1]>>))
PROOF
<1>1. PICK m : m = n + 1
  OBVIOUS
<1>2. m \in 1 .. n + 1 /\ (\A k \in 1 .. n : k \in 1 .. n + 1 /\ k # m)
      /\ (\A k \in 1 .. n + 1 : k = m \/ k \in 1 .. n)
  BY <1>1
<1>3. Single(assembly, names[m]) /\ FitsField(assembly, names[m], values[m])
  BY <1>2, Zenon
<1>4. mid \in ImageOf(assembly.size_bytes)
  BY DEF Says
<1>5. PICK new : new = Write(assembly, mid, names[m], <<values[m]>>)
  OBVIOUS
<1>6. /\ new \in ImageOf(assembly.size_bytes)
      /\ Read(assembly, new, names[m]) = <<values[m]>>
      /\ \A other : Single(assembly, other) /\ other # names[m] =>
           Read(assembly, new, other) = Read(assembly, mid, other)
  <2>1. PICK name, value : name = names[m] /\ value = values[m]
    OBVIOUS
  <2>2. Single(assembly, name) /\ FitsField(assembly, name, value)
    BY <1>3, <2>1, Zenon
  <2>3. /\ Write(assembly, mid, name, <<value>>) \in ImageOf(assembly.size_bytes)
        /\ Read(assembly, Write(assembly, mid, name, <<value>>), name) = <<value>>
        /\ \A other : Single(assembly, other) /\ other # name =>
             Read(assembly, Write(assembly, mid, name, <<value>>), other)
               = Read(assembly, mid, other)
    BY <1>4, <2>2, WriteField
  <2>4. QED
    BY <1>5, <2>1, <2>3, Zenon
<1>7. ASSUME NEW k \in 1 .. n + 1 PROVE Read(assembly, new, names[k]) = <<values[k]>>
  <2>1. CASE k = m
    BY <1>6, <2>1, Zenon
  <2>2. CASE k # m
    <3>1. k \in 1 .. n /\ Single(assembly, names[k]) /\ names[k] # names[m]
      BY <1>2, <2>2, Zenon
    <3>2. Read(assembly, mid, names[k]) = <<values[k]>>
      BY <3>1, Zenon DEF Says
    <3>3. QED
      BY <1>6, <3>1, <3>2, Zenon
  <2>3. QED
    BY <2>1, <2>2, Zenon
<1>8. ASSUME NEW other, Single(assembly, other), \A k \in 1 .. n + 1 : names[k] # other
      PROVE  Read(assembly, new, other) = Read(assembly, old, other)
  <2>1. other # names[m] /\ \A k \in 1 .. n : names[k] # other
    BY <1>2, <1>8, Zenon
  <2>2. Read(assembly, mid, other) = Read(assembly, old, other)
    BY <1>8, <2>1, Zenon DEF Says
  <2>3. QED
    BY <1>6, <1>8, <2>1, <2>2, Zenon
<1>9. Says(assembly, names, values, n + 1, old, new)
  BY <1>6, <1>7, <1>8, Zenon DEF Says
<1>10. QED
  BY <1>1, <1>5, <1>9, Zenon

\* The first of the names of a group.
LEMMA FirstNames ==
  ASSUME NEW names, NEW n \in Nat
  PROVE  /\ DOMAIN SubSeq(names, 1, n) = 1 .. n
         /\ \A k \in 1 .. n : SubSeq(names, 1, n)[k] = names[k]
PROOF
<1>1. PICK S : S = {names[k] : k \in 1 .. n}
  OBVIOUS
<1>2. \A k \in 1 .. n : names[k] \in S
  BY <1>1
<1>3. /\ SubSeq(names, 1, n) \in Seq(S)
      /\ Len(SubSeq(names, 1, n)) = IF 1 <= n THEN n - 1 + 1 ELSE 0
      /\ \A k \in 1 .. n - 1 + 1 : SubSeq(names, 1, n)[k] = names[1 + k - 1]
  BY <1>2, SubSeqProperties
<1>4. (IF 1 <= n THEN n - 1 + 1 ELSE 0) = n /\ n - 1 + 1 = n
      /\ \A k \in 1 .. n : 1 + k - 1 = k
  OBVIOUS
<1>5. Len(SubSeq(names, 1, n)) = n /\ \A k \in 1 .. n : SubSeq(names, 1, n)[k] = names[k]
  BY <1>3, <1>4, Zenon
<1>6. DOMAIN SubSeq(names, 1, n) = 1 .. Len(SubSeq(names, 1, n))
  BY <1>3, LenProperties, Zenon
<1>7. QED
  BY <1>5, <1>6, Zenon

\* Writing a group, or the first of its fields, says its values and nothing else.
LEMMA EncodeSays ==
  ASSUME NEW assembly, Sound(assembly), NEW names, HasFields(assembly, names),
         \A j, k \in DOMAIN names : names[j] = names[k] => j = k,
         NEW values, NEW n \in Nat, n = Len(values), n <= Len(names),
         DOMAIN values = 1 .. n,
         \A k \in 1 .. n : FitsField(assembly, names[k], values[k]),
         NEW old \in ImageOf(assembly.size_bytes)
  PROVE  Says(assembly, names, values, n, old, Encode(assembly, names, values, old))
PROOF
<1> DEFINE D == ImageOf(assembly.size_bytes)
           write(k, img) == Write(assembly, img, names[k], <<values[k]>>)
           step(f) == [s \in SUBSET (1 .. n) |->
                         IF s = {} THEN old ELSE write(Max(s), f[s \ {Max(s)}])]
           iter == CHOOSE f : f = step(f)
           F == [k \in 1 .. n |-> [img \in D |-> write(k, img)]]
           some == SubSeq(names, 1, n)
<1>1. /\ \A k \in 1 .. n : k \in DOMAIN names
      /\ \A k \in 1 .. n : Single(assembly, names[k])
      /\ \A j, k \in 1 .. n : names[j] = names[k] => j = k
  <2>1. \A k \in 1 .. n : k \in DOMAIN names
    BY DEF HasFields
  <2>2. QED
    BY <2>1, Zenon DEF HasFields, Single
<1>2. DOMAIN some = 1 .. n /\ \A k \in 1 .. n : some[k] = names[k]
  BY FirstNames, Zenon
<1>3. Encode(assembly, names, values, old) = iter[1 .. n]
  <2> DEFINE seq == [k \in 1 .. n |-> k]
             raw(f) == [s \in SUBSET (1 .. n) |->
                          IF s = {} THEN old
                          ELSE Write(assembly, f[s \ {Max(s)}], some[seq[Max(s)]],
                                     Elements(values)[seq[Max(s)]])]
  <2>1. LongEnough(assembly, old)
    <3>1. assembly.size_bytes \in Nat
      BY DEF Sound
    <3>2. Len(old) = assembly.size_bytes
      BY <3>1, ImageIsSeq, Zenon
    <3>3. QED
      BY <3>1, <3>2 DEF LongEnough
  <2>2. Encode(assembly, names, values, old) = (CHOOSE f : f = raw(f))[1 .. n]
    <3>1. [k \in DOMAIN some |-> k] = seq
      BY <1>2, Zenon
    <3>2. Encode(assembly, names, values, old) =
            FoldLeft(LAMBDA img, k : Write(assembly, img, some[k], Elements(values)[k]), old, seq)
      <4>1. Encode(assembly, names, values, old) = Pack(assembly, some, Elements(values), old)
        BY DEF Encode
      <4> HIDE DEF seq, some
      <4>2. Pack(assembly, some, Elements(values), old) =
              FoldLeft(LAMBDA img, k : Write(assembly, img, some[k], Elements(values)[k]), old,
                       [k \in DOMAIN some |-> k])
        BY <2>1, Zenon DEF Pack
      <4>3. QED
        BY <3>1, <4>1, <4>2, Zenon
    <3>3. DOMAIN seq = 1 .. n
      OBVIOUS
    <3> HIDE DEF seq, some
    <3>4. QED
      BY <3>2, <3>3, Zenon DEF FoldLeft, MapThenFoldSet
  <2>3. ASSUME NEW f PROVE raw(f) = step(f)
    <3>1. ASSUME NEW s \in SUBSET (1 .. n), s # {}
          PROVE  seq[Max(s)] = Max(s) /\ some[Max(s)] = names[Max(s)]
                 /\ Elements(values)[Max(s)] = <<values[Max(s)]>>
      <4>1. Max(s) \in 1 .. n
        BY <3>1, LargestIsOneOf, Zenon
      <4>2. \A k \in 1 .. n : seq[k] = k /\ Elements(values)[k] = <<values[k]>>
        BY DEF Elements
      <4>3. QED
        BY <1>2, <4>1, <4>2, Zenon
    <3> HIDE DEF seq, some
    <3>2. QED
      BY <3>1
  <2>4. QED
    <3> HIDE DEF raw, step
    <3>1. QED
      BY <2>2, <2>3
<1> HIDE DEF some
<1>4. ASSUME NEW k \in 1 .. n, NEW img \in D PROVE write(k, img) \in D
  BY <1>1, WriteField, Zenon
<1>5. F \in [1 .. n -> [D -> D]]
  <2> HIDE DEF D, write
  <2>1. QED
    BY <1>4
<1>6. PICK f \in [SUBSET (1 .. n) -> D] : Table(f, n, old, F)
  <2>1. old \in D
    OBVIOUS
  <2> HIDE DEF F, D
  <2>2. QED
    BY <1>5, <2>1, TableExists, Zenon
<1>7. f = step(f)
  <2>1. ASSUME NEW s \in SUBSET (1 .. n), s # {}
        PROVE  F[Max(s)][f[s \ {Max(s)}]] = write(Max(s), f[s \ {Max(s)}])
    <3>1. Max(s) \in 1 .. n
      BY <2>1, LargestIsOneOf, Zenon
    <3>2. f[s \ {Max(s)}] \in D
      <4> HIDE DEF D
      <4>1. QED
        BY <3>1
    <3> HIDE DEF write, D
    <3>3. QED
      BY <3>1, <3>2
  <2> HIDE DEF write, F, D
  <2>2. QED
    BY <1>6, <2>1 DEF Table
<1>8. iter = step(iter)
  <2> HIDE DEF step
  <2>1. QED
    BY <1>7, Zenon
<1>9. iter[1 .. 0] = old /\ \A k \in 1 .. n : iter[1 .. k] = write(k, iter[1 .. k - 1])
  <2> HIDE DEF iter, write
  <2>1. \A s \in SUBSET (1 .. n) :
          iter[s] = IF s = {} THEN old ELSE write(Max(s), iter[s \ {Max(s)}])
    BY <1>8, Zenon
  <2>2. ASSUME NEW k \in 1 .. n
        PROVE  /\ 1 .. k \in SUBSET (1 .. n) /\ 1 .. k # {} /\ (1 .. k) \ {k} = 1 .. k - 1
               /\ Max(1 .. k) = k
    <3>1. k \in Nat /\ k > 0
      OBVIOUS
    <3>2. Max(1 .. k) = k
      BY <3>1, LargestOfInterval, Zenon
    <3>3. 1 .. k \in SUBSET (1 .. n) /\ 1 .. k # {} /\ (1 .. k) \ {k} = 1 .. k - 1
      OBVIOUS
    <3>4. QED
      BY <3>2, <3>3, Zenon
  <2>3. 1 .. 0 = {} /\ {} \in SUBSET (1 .. n)
    OBVIOUS
  <2>4. iter[1 .. 0] = old
    BY <2>1, <2>3, Zenon
  <2>5. ASSUME NEW k \in 1 .. n PROVE iter[1 .. k] = write(k, iter[1 .. k - 1])
    <3>1. iter[1 .. k] = write(Max(1 .. k), iter[(1 .. k) \ {Max(1 .. k)}])
      BY <2>1, <2>2, Zenon
    <3>2. QED
      BY <2>2, <3>1, Zenon
  <2>6. QED
    BY <2>4, <2>5
<1> HIDE DEF iter
<1> DEFINE P(k) == k <= n => Says(assembly, names, values, k, old, iter[1 .. k])
           S == {k \in Nat : P(k)}
<1>10. P(0)
  <2>1. \A k \in 1 .. 0 : FALSE
    OBVIOUS
  <2>2. QED
    BY <1>9, <2>1, Zenon DEF Says
<1>11. ASSUME NEW k \in Nat, P(k) PROVE P(k + 1)
  <2>1. SUFFICES ASSUME k + 1 <= n
                 PROVE  Says(assembly, names, values, k + 1, old, iter[1 .. k + 1])
    BY Zenon
  <2>2. k <= n /\ k + 1 \in 1 .. n /\ k + 1 - 1 = k /\ \A i \in 1 .. k + 1 : i \in 1 .. n
    BY <2>1
  <2>3. Says(assembly, names, values, k, old, iter[1 .. k])
    BY <1>11, <2>2, Zenon
  <2>4. /\ \A i \in 1 .. k + 1 : /\ Single(assembly, names[i])
                                 /\ FitsField(assembly, names[i], values[i])
        /\ \A i, j \in 1 .. k + 1 : names[i] = names[j] => i = j
    BY <1>1, <2>2, Zenon
  <2>5. iter[1 .. k + 1] = Write(assembly, iter[1 .. k], names[k + 1], <<values[k + 1]>>)
    BY <1>9, <2>2
  <2>6. PICK mid : mid = iter[1 .. k]
    OBVIOUS
  <2>7. Says(assembly, names, values, k + 1, old,
             Write(assembly, mid, names[k + 1], <<values[k + 1]>>))
    BY <2>3, <2>4, <2>6, OneMore, Zenon
  <2>8. QED
    BY <2>5, <2>6, <2>7, Zenon
<1>12. n \in S
  <2> HIDE DEF P
  <2>1. 0 \in S /\ \A k \in Nat : k \in S => k + 1 \in S
    BY <1>10, <1>11
  <2> HIDE DEF S
  <2>2. Nat \subseteq S
    BY <2>1, NatSetInduction, Zenon
  <2>3. QED
    BY <2>2
<1>13. n <= n
  OBVIOUS
<1>14. QED
  BY <1>3, <1>12, <1>13, Zenon

----------------------------------------------------------------------------
(* A layout that is accepted, and an image of zeros.                       *)

\* The codec of a layout that is accepted is sound.
LEMMA CodecSound ==
  ASSUME NEW layout \in Layout, Accepted(layout)
  PROVE  Sound(Codec(layout))
PROOF
<1> DEFINE fields == layout.fields
           named(name) == CHOOSE i \in DOMAIN fields : fields[i].name = name
           names == {fields[i].name : i \in DOMAIN fields}
           codec == Codec(layout)
<1>1. codec = [layout EXCEPT !.fields = [name \in names |-> fields[named(name)]]]
  BY Zenon DEF Codec
<1>2. /\ codec.size_bytes = layout.size_bytes /\ codec.byte_order = layout.byte_order
      /\ codec.fields = [name \in names |-> fields[named(name)]]
  <2> HIDE DEF names, named, codec
  <2>1. QED
    BY <1>1 DEF Layout
<1>3. ASSUME NEW name \in names
      PROVE  named(name) \in DOMAIN fields /\ fields[named(name)].name = name
  <2>1. \E i \in DOMAIN fields : fields[i].name = name
    BY Zenon
  <2>2. QED
    BY <2>1, Zenon
<1> HIDE DEF named, names, codec
<1>4. layout.size_bytes \in Nat
  BY DEF Layout
<1>5. ASSUME NEW i \in DOMAIN fields
      PROVE  fields[i].byte_offset \in Int /\ LegalField(fields[i], layout.size_bytes)
  <2>1. fields \in Seq([name : STRING, type : STRING, byte_offset : Int, bit_offset : Int,
                        count : Int])
    BY DEF Layout
  <2>2. fields[i] \in [name : STRING, type : STRING, byte_offset : Int, bit_offset : Int,
                       count : Int]
    <3>1. PICK R : R = [name : STRING, type : STRING, byte_offset : Int, bit_offset : Int,
                        count : Int]
      OBVIOUS
    <3>2. fields \in Seq(R)
      BY <2>1, <3>1
    <3>3. i \in 1 .. Len(fields)
      BY <3>2, LenProperties
    <3>4. fields[i] \in R
      <4> HIDE DEF fields
      <4>1. QED
        BY <3>2, <3>3, ElementOfSeq
    <3>5. QED
      BY <3>1, <3>4
  <2>3. fields[i].byte_offset \in Int
    BY <2>2
  <2>4. LegalField(fields[i], layout.size_bytes)
    BY Zenon DEF Accepted
  <2>5. QED
    BY <2>3, <2>4
<1>6. ASSUME NEW name \in DOMAIN codec.fields
      PROVE  LET field == codec.fields[name]
             IN /\ field.byte_offset \in Nat /\ field.bit_offset \in 0 .. 7
                /\ IsBool(field) \/ (field.type \in DOMAIN Formats /\ field.bit_offset = 0)
                /\ EndByte(field) <= codec.size_bytes
  <2>1. name \in names /\ codec.fields[name] = fields[named(name)]
    BY <1>2
  <2>2. PICK field : field = fields[named(name)]
    OBVIOUS
  <2>3. field.byte_offset \in Int /\ LegalField(field, layout.size_bytes)
    BY <1>3, <1>5, <2>1, <2>2, Zenon
  <2>4. /\ field.byte_offset \in Nat /\ field.bit_offset \in 0 .. 7
        /\ IsBool(field) \/ (field.type \in DOMAIN Formats /\ field.bit_offset = 0)
        /\ EndByte(field) <= layout.size_bytes
    BY <2>3 DEF LegalField
  <2>5. QED
    BY <1>2, <2>1, <2>2, <2>4, Zenon
<1>7. ASSUME NEW m \in DOMAIN codec.fields, NEW n \in DOMAIN codec.fields, m # n
      PROVE  Bits(codec.fields[m]) \cap Bits(codec.fields[n]) = {}
  <2>1. /\ m \in names /\ codec.fields[m] = fields[named(m)]
        /\ n \in names /\ codec.fields[n] = fields[named(n)]
    BY <1>2
  <2>2. named(m) # named(n) /\ named(m) \in DOMAIN fields /\ named(n) \in DOMAIN fields
    BY <1>3, <1>7, <2>1, Zenon
  <2>3. \A i, j \in DOMAIN layout.fields :
          i # j => Bits(layout.fields[i]) \cap Bits(layout.fields[j]) = {}
    BY Zenon DEF Accepted
  <2>4. QED
    BY <2>1, <2>2, <2>3, Zenon
<1>8. codec.size_bytes \in Nat /\ codec.byte_order \in {"little", "big"}
  BY <1>2, <1>4 DEF Accepted
<1>9. Sound(codec)
  BY <1>6, <1>7, <1>8, Zenon DEF Sound
<1>10. QED
  BY <1>9 DEF codec

\* An image of zeros.
LEMMA ZerosAre ==
  ASSUME NEW size \in Nat
  PROVE  Zeros(size) \in ImageOf(size) /\ \A i \in 1 .. size : Zeros(size)[i] = 0
PROOF
<1>1. 0 \in Byte
  BY ByteRange
<1>2. QED
  BY <1>1 DEF Zeros, ImageOf

\* Zeros have one order.
LEMMA OrderedZeros ==
  ASSUME NEW size \in {1, 2, 4}, NEW byte_order \in {"little", "big"}
  PROVE  Ordered(byte_order, Zeros(size)) = Zeros(size)
PROOF
<1>1. size \in Nat
  OBVIOUS
<1>2. Zeros(size) \in ImageOf(size) /\ \A i \in 1 .. size : Zeros(size)[i] = 0
  BY <1>1, ZerosAre
<1>3. Len(Zeros(size)) = size
  BY <1>1, <1>2, ImageIsSeq, Zenon
<1>4. Reverse(Zeros(size)) = [i \in 1 .. size |-> Zeros(size)[(size - i) + 1]]
  BY <1>3 DEF Reverse
<1>5. \A i \in 1 .. size : (size - i) + 1 \in 1 .. size
  BY <1>1
<1>6. Reverse(Zeros(size)) = [i \in 1 .. size |-> 0]
  BY <1>2, <1>4, <1>5
<1>7. QED
  BY <1>6 DEF Ordered, Zeros

\* Zero is an integer.
LEMMA ZeroInRange == 0 \in MinInt .. MaxInt
PROOF
<1>1. MinInt \in Int /\ MaxInt \in Int /\ MinInt <= 0 /\ 0 <= MaxInt
  BY SMT DEF MinInt, MaxInt
<1>2. QED
  BY <1>1

\* Bytes of zeros are the zero of a type.
LEMMA UnpackZeros ==
  ASSUME NEW type \in DOMAIN Formats, NEW byte_order \in {"little", "big"}
  PROVE  UnpackElement(Formats[type], byte_order, Zeros(Formats[type].size)) = Zero(type)
PROOF
<1>1. type # "bool" /\ Formats[type].size \in {1, 2, 4}
  BY FormatOf
<1>2. PICK size \in {1, 2, 4} : size = Formats[type].size
  BY <1>1
<1>3. Ordered(byte_order, Zeros(size)) = Zeros(size)
  BY OrderedZeros, Zenon
<1>4. CASE Formats[type].float
  <2>1. size = 4
    BY <1>2, <1>4 DEF Formats
  <2>2. Zeros(4) = FloatZero
    BY DEF Zeros, FloatZero
  <2>3. Zero(type) = FloatZero
    BY <1>1, <1>4 DEF Zero
  <2>4. UnpackElement(Formats[type], byte_order, Zeros(size)) = Zeros(size)
    BY <1>3, <1>4, Zenon DEF UnpackElement
  <2>5. QED
    BY <1>2, <2>1, <2>2, <2>3, <2>4, Zenon
<1>5. CASE ~Formats[type].float
  <2>1. Zero(type) = 0
    BY <1>1, <1>5 DEF Zero
  <2>2. 0 \in ElementsOf(type)
    BY <1>1, <1>5, ZeroInRange, Zenon DEF ElementsOf
  <2>3. FitsFormat(Formats[type], 0)
    <3>1. ASSUME NEW span \in Int, span > 1
          PROVE  0 \in -(span \div 2) .. span \div 2 - 1 /\ 0 \in 0 .. span - 1
      BY <3>1
    <3>2. Formats[type].size < 4 =>
            256 ^ Formats[type].size \in Int /\ 256 ^ Formats[type].size > 1
      <4>1. CASE size = 1
        BY <1>2, <4>1, PowersOf256
      <4>2. CASE size = 2
        BY <1>2, <4>2, PowersOf256
      <4>3. CASE size = 4
        BY <1>2, <4>3
      <4>4. QED
        BY <4>1, <4>2, <4>3
    <3>3. QED
      BY <3>1, <3>2, Zenon DEF FitsFormat
  <2>4. LowFirst(0, size) = Zeros(size)
    <3>1. \A k \in 1 .. size : (0 \div 256 ^ (k - 1)) % 256 = 0
      <4>1. ASSUME NEW k \in 1 .. size PROVE (0 \div 256 ^ (k - 1)) % 256 = 0
        <5>1. k - 1 = 0 \/ k - 1 = 1 \/ k - 1 = 2 \/ k - 1 = 3
          OBVIOUS
        <5>2. PICK power \in Nat : power = 256 ^ (k - 1) /\ power > 0
          <6>1. 256 ^ (k - 1) \in Nat /\ 256 ^ (k - 1) > 0
            <7>1. CASE k - 1 = 0
              BY <7>1, PowersOf256
            <7>2. CASE k - 1 = 1
              BY <7>2, PowersOf256
            <7>3. CASE k - 1 = 2
              BY <7>3, PowersOf256
            <7>4. CASE k - 1 = 3
              BY <7>4, PowersOf256
            <7>5. QED
              BY <5>1, <7>1, <7>2, <7>3, <7>4
          <6>2. QED
            BY <6>1
        <5>3. (0 \div power) % 256 = 0
          BY <5>2
        <5>4. QED
          BY <5>2, <5>3
      <4>2. QED
        BY <4>1
    <3>2. QED
      BY <3>1 DEF LowFirst, Zeros
  <2>5. PackElement(Formats[type], byte_order, 0) = Zeros(size)
    BY <1>2, <1>3, <1>5, <2>4, Zenon DEF PackElement
  <2>6. UnpackElement(Formats[type], byte_order, PackElement(Formats[type], byte_order, 0)) = 0
    BY <2>2, <2>3, ElementSurvives, Zenon
  <2>7. QED
    BY <1>2, <2>1, <2>5, <2>6, Zenon
<1>6. QED
  BY <1>4, <1>5

\* An image of zeros says zero of every field.
LEMMA ReadZeros ==
  ASSUME NEW assembly, Sound(assembly), NEW name, Single(assembly, name)
  PROVE  Read(assembly, Zeros(assembly.size_bytes), name) = <<Zero(Field(assembly, name).type)>>
PROOF
<1>1. PICK field, size, zeros : /\ field = Field(assembly, name)
                                /\ size = assembly.size_bytes /\ zeros = Zeros(size)
  OBVIOUS
<1>2. size \in Nat /\ zeros \in ImageOf(size) /\ \A i \in 1 .. size : zeros[i] = 0
  BY <1>1, ZerosAre DEF Sound
<1>3. CASE IsBool(field)
  <2>1. IsBool(Field(assembly, name))
    BY <1>1, <1>3
  <2>2. /\ field.byte_offset \in Nat /\ field.byte_offset < size
        /\ field.bit_offset \in 0 .. 7
        /\ FirstBit(field) = field.byte_offset * 8 + field.bit_offset
    BY <1>1, <2>1, PlaceOfBool
  <2>3. PICK b \in 0 .. 8 * size - 1 : b = FirstBit(field)
    BY <1>2, <2>2
  <2>4. b \div 8 + 1 \in 1 .. size /\ b % 8 \in 0 .. 7
    BY <1>2
  <2>5. ~Bit(zeros, b)
    <3>1. zeros[b \div 8 + 1] = 0
      BY <1>2, <2>4, Zenon
    <3>2. PICK q \in 0 .. 7 : q = b % 8
      BY <2>4
    <3>3. (0 \div 2 ^ q) % 2 # 1
      <4>1. 2 ^ q \in Nat /\ 2 ^ q > 0
        BY PowerPositive
      <4>2. PICK power \in Nat : power = 2 ^ q /\ power > 0
        BY <4>1
      <4>3. (0 \div power) % 2 = 0
        BY <4>2
      <4>4. QED
        BY <4>2, <4>3
    <3>4. QED
      BY <3>1, <3>2, <3>3, Zenon DEF Bit
  <2>6. Bit(zeros, b) = FALSE
    BY <2>5 DEF Bit
  <2>7. Zero(field.type) = FALSE
    BY <1>3 DEF Zero, IsBool
  <2>8. Read(assembly, zeros, name) = <<Bit(zeros, FirstBit(field))>>
    BY <1>1, <2>1, ReadBool
  <2>9. QED
    BY <1>1, <2>3, <2>6, <2>7, <2>8, Zenon
<1>4. CASE ~IsBool(field)
  <2>1. ~IsBool(Field(assembly, name))
    BY <1>1, <1>4
  <2>2. /\ field.type \in DOMAIN Formats
        /\ ElementSize(field) = Formats[field.type].size /\ ElementSize(field) \in {1, 2, 4}
        /\ field.byte_offset \in Nat
        /\ field.byte_offset + ElementSize(field) <= size
    BY <1>1, <2>1, PlaceOfElement
  <2>3. PICK o \in Nat, e \in Nat : o = field.byte_offset /\ e = ElementSize(field)
    BY <2>2
  <2>4. o + e <= size
    BY <2>2, <2>3
  <2>5. /\ Piece(zeros, o, e) \in ImageOf(e)
        /\ \A i \in 1 .. e : Piece(zeros, o, e)[i] = zeros[o + i]
    BY <1>2, <2>4, PieceOfImage
  <2>6. \A i \in 1 .. e : o + i \in 1 .. size
    BY <1>2, <2>4
  <2>7. Piece(zeros, o, e) = Zeros(e)
    <3>1. \A i \in 1 .. e : Piece(zeros, o, e)[i] = 0
      BY <1>2, <2>5, <2>6, Zenon
    <3>2. PICK piece : piece = Piece(zeros, o, e)
      OBVIOUS
    <3>3. piece \in [1 .. e -> Byte] /\ \A i \in 1 .. e : piece[i] = 0
      BY <2>5, <3>1, <3>2, Zenon DEF ImageOf
    <3>4. piece = [i \in 1 .. e |-> 0]
      BY <3>3
    <3>5. QED
      BY <3>2, <3>4, Zenon DEF Zeros
  <2>8. BytesOf(field, zeros) = Zeros(Formats[field.type].size)
    BY <2>2, <2>3, <2>7, Zenon DEF BytesOf
  <2>9. Read(assembly, zeros, name) =
          <<UnpackElement(Formats[field.type], assembly.byte_order, BytesOf(field, zeros))>>
    BY <1>1, <2>1, ReadElement
  <2>10. assembly.byte_order \in {"little", "big"}
    BY Zenon DEF Sound
  <2>11. UnpackElement(Formats[field.type], assembly.byte_order, Zeros(Formats[field.type].size))
           = Zero(field.type)
    BY <2>2, <2>10, UnpackZeros, Zenon
  <2>12. QED
    BY <1>1, <2>8, <2>9, <2>11, Zenon
<1>5. QED
  BY <1>3, <1>4

\* A codec that was made gives back what is put in: in any image, for any field of
\* one element in any layout that the constructor accepts, a value of its type that
\* fits is read as it was written, and every other such field reads as before. Two
\* fields share no bit, but they may share a byte (codec.py: _validate, read, write).
THEOREM WrittenIsRead ==
  ASSUME NEW layout \in Layout, Accepted(layout),
         NEW name, Single(Codec(layout), name),
         NEW old \in ImageOf(Codec(layout).size_bytes),
         NEW value, FitsField(Codec(layout), name, value)
  PROVE  LET codec == Codec(layout)
             new == Write(codec, old, name, <<value>>)
         IN /\ new \in ImageOf(codec.size_bytes)
            /\ Read(codec, new, name) = <<value>>
            /\ \A other : Single(codec, other) /\ other # name =>
                 Read(codec, new, other) = Read(codec, old, other)
PROOF
<1>1. Sound(Codec(layout))
  BY CodecSound
<1>2. PICK codec : codec = Codec(layout)
  OBVIOUS
<1>3. /\ Sound(codec) /\ Single(codec, name) /\ old \in ImageOf(codec.size_bytes)
      /\ FitsField(codec, name, value)
  BY <1>1, <1>2, Zenon
<1>4. /\ Write(codec, old, name, <<value>>) \in ImageOf(codec.size_bytes)
      /\ Read(codec, Write(codec, old, name, <<value>>), name) = <<value>>
      /\ \A other : Single(codec, other) /\ other # name =>
           Read(codec, Write(codec, old, name, <<value>>), other) = Read(codec, old, other)
  BY <1>3, WriteField
<1>5. QED
  BY <1>2, <1>4, Zenon

=============================================================================
